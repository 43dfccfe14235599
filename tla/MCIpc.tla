------------------------------- MODULE MCIpc -------------------------------
(***************************************************************************)
(* Small worlds of Ipc, with threads on two cores.                         *)
(***************************************************************************)
EXTENDS Ipc

CONSTANTS k1, k2, c1, c2, s1

Spread == [t \in Threads |-> IF t = c1 THEN k2 ELSE k1]

Nothing == [caps |-> {}, badges |-> {}, timed |-> {}, mortal |-> {}, reloading |-> FALSE]

\* Two clients and a server that itself calls, any of which may die.
Death ==
  [Nothing EXCEPT !.caps = ({c1, c2, s1} \X {"e", "f"} \X {"WRITE"})
                             \cup ({s1} \X {"e", "f"} \X {"READ"}),
                  !.mortal = {c1, c2, s1}]

\* CALL_TIMEOUT and WAIT with deadlines.
Timed ==
  [Nothing EXCEPT !.caps = ({c1, c2} \X {"e"} \X {"WRITE"}) \cup ({s1} \X {"e"} \X {"READ"})
                             \cup {<<c1, "n", "READ">>},
                  !.badges = {1}, !.timed = {c1, c2}]

\* Two waiters that may die, two badges, no deadlines.
Signalled ==
  [Nothing EXCEPT !.caps = {c1, c2} \X {"n"} \X {"READ"}, !.badges = {1, 2},
                  !.mortal = {c1, c2}]

\* The exchange of a server; one client, for a second one is lost when two servers receive.
Reload ==
  [Nothing EXCEPT !.caps = {<<c1, "e", "WRITE">>} \cup ({s1, c2} \X {"e"} \X {"READ"}),
                  !.reloading = TRUE]

\* One thread that waits with and without a deadline.
Waiter == [Nothing EXCEPT !.caps = {c1} \X {"n"} \X {"READ"}, !.badges = {1}, !.timed = {c1}]

FourWorlds == {Death, Timed, Signalled, Reload}
OneWaiter == {Waiter}
=============================================================================
