-------------------------------- MODULE Wait --------------------------------
(***************************************************************************)
(* The waiting primitives of a protection domain (caprock-wait): a mutex   *)
(* and a completion whose wait queues are lists in the memory of the       *)
(* domain, on top of PARK and UNPARK.  A call has the object to itself     *)
(* until it parks (&mut self); UNPARK leaves a mark at a thread that is    *)
(* awake, and PARK uses the mark up instead of sleeping.                   *)
(*                                                                         *)
(* A mark may stay with a thread that waits no longer.  Kthread::stop      *)
(* unparks a thread wherever it is, and a complete may find the entry of a *)
(* thread that its deadline has woken and that has not taken it out yet.   *)
(***************************************************************************)
EXTENDS Naturals, Sequences, Queues

CONSTANTS Threads,
          WARTEPLAETZE,  \* capacity of a WaitQueue
          MaxFertig,     \* bound: completions not collected
          StopSets,      \* the sets of threads Kthread::stop may be called for
          TimedSets      \* the sets of threads that wait on the completion with a deadline

None == "none"

WaitAssumption ==
  /\ WARTEPLAETZE \in Nat /\ MaxFertig \in Nat
  /\ StopSets \subseteq SUBSET Threads /\ TimedSets \subseteq SUBSET Threads
  /\ None \notin Threads

VARIABLES inhaber,  \* Mutex: its holder, or None (gesperrt = FALSE)
          mq,       \* Mutex::warten
          fertig,   \* Completion::fertig
          cq,       \* Completion::warten
          place,    \* where each thread is
          mark,     \* the wake mark of each thread in the kernel
          frist,    \* the threads with a deadline on PARK in the kernel
          stop,     \* Kthread::stop, per thread
          strays,   \* the threads it may be called for, which stay the same
          timers    \* the threads that wait with a deadline, which stay the same

moving == <<inhaber, mq, fertig, cq, place, mark, frist, stop>>
waitVars == <<moving, strays, timers>>

\* "wait_late": awake because the deadline has passed, the entry not yet taken out.
WaitPlaces == {"run", "holds", "lock", "lock_park", "lock_sleep",
               "wait", "wait_park", "wait_sleep", "wait_late"}

\* Mutex, completion and their waiting lists have their types; a list never exceeds its places.
WaitTypeOK ==
  /\ inhaber \in Threads \cup {None}
  /\ mq \in Seq(Threads) /\ cq \in Seq(Threads)
  /\ Len(mq) <= WARTEPLAETZE /\ Len(cq) <= WARTEPLAETZE
  /\ fertig \in 0 .. MaxFertig
  /\ place \in [Threads -> WaitPlaces]
  /\ mark \in [Threads -> BOOLEAN] /\ frist \subseteq timers /\ stop \subseteq strays
  /\ strays \in StopSets /\ timers \in TimedSets

WaitInit ==
  /\ inhaber = None /\ mq = <<>> /\ fertig = 0 /\ cq = <<>>
  /\ place = [t \in Threads |-> "run"] /\ mark = [t \in Threads |-> FALSE]
  /\ frist = {} /\ stop = {}
  /\ strays \in StopSets /\ timers \in TimedSets

MoveTo(t, p) == place' = [place EXCEPT ![t] = p]

-----------------------------------------------------------------------------
(* The kernel                                                              *)

Sleeping(t) == place[t] \in {"lock_sleep", "wait_sleep"}
Awake(p) == CASE p = "lock_sleep" -> "lock" [] p = "wait_sleep" -> "wait" [] OTHER -> p

\* Mutant of unpark: no mark is left at a thread that is awake.
UnparkSleeping(S, f) ==
  /\ place' = [t \in Threads |-> IF t \in S THEN Awake(f[t]) ELSE f[t]]
  /\ UNCHANGED mark

\* UNPARK of the threads in S, after the caller has got to where f says.
unpark(S, f) ==
  /\ place' = [t \in Threads |-> IF t \in S THEN Awake(f[t]) ELSE f[t]]
  /\ mark' = [t \in Threads |-> mark[t] \/ (t \in S /\ ~Sleeping(t))]

\* PARK, and PARK_TIMEOUT for who waits with a deadline: it is set before the mark is looked at.
park(t) ==
  /\ place[t] \in {"lock_park", "wait_park"}
  /\ LET asleep == IF place[t] = "lock_park" THEN "lock_sleep" ELSE "wait_sleep" IN
     IF mark[t] THEN MoveTo(t, Awake(asleep)) /\ mark' = [mark EXCEPT ![t] = FALSE]
     ELSE MoveTo(t, asleep) /\ UNCHANGED mark
  /\ frist' = IF place[t] = "wait_park" /\ t \in timers THEN frist \cup {t} ELSE frist
  /\ UNCHANGED <<inhaber, mq, fertig, cq, stop>>

\* The deadline of a thread passes.  UNPARK has not cleared it: it may end a later PARK, that of
\* the mutex too; a thread that does not sleep is left alone.
fristen_faellig(t) ==
  /\ t \in frist
  /\ frist' = frist \ {t}
  /\ MoveTo(t, IF place[t] = "wait_sleep" THEN "wait_late" ELSE Awake(place[t]))
  /\ UNCHANGED <<inhaber, mq, fertig, cq, mark, stop>>

-----------------------------------------------------------------------------
(* The queue                                                               *)

HasRoom(q) == Len(q) < WARTEPLAETZE
entfernen(q, t) == Without(q, t)

-----------------------------------------------------------------------------
(* Mutex                                                                   *)

\* Mutant of lock_schritt: a full queue is not looked at.
LockParksAnyway(t) ==
  /\ place[t] \in {"run", "lock"}
  /\ IF inhaber = None THEN inhaber' = t /\ MoveTo(t, "holds") /\ UNCHANGED mq
     ELSE /\ mq' = IF HasRoom(mq) THEN Append(mq, t) ELSE mq
          /\ MoveTo(t, "lock_park") /\ UNCHANGED inhaber
  /\ UNCHANGED <<fertig, cq, mark, frist, stop>>

\* A refused push is KeinWarteplatz: the call fails and does not park.
lock_schritt(t) ==
  /\ place[t] \in {"run", "lock"}
  /\ IF inhaber = None THEN inhaber' = t /\ MoveTo(t, "holds") /\ UNCHANGED mq
     ELSE IF HasRoom(mq) THEN mq' = Append(mq, t) /\ MoveTo(t, "lock_park") /\ UNCHANGED inhaber
     ELSE MoveTo(t, "run") /\ UNCHANGED <<inhaber, mq>>
  /\ UNCHANGED <<fertig, cq, mark, frist, stop>>

\* Mutant of unlock: whoever waits is woken, but stays in the list.
UnlockPeeks(t) ==
  /\ place[t] = "holds"
  /\ inhaber' = None
  /\ unpark(IF mq = <<>> THEN {} ELSE {Head(mq)}, [place EXCEPT ![t] = "run"])
  /\ UNCHANGED <<mq, fertig, cq, frist, stop>>

unlock(t) ==
  /\ place[t] = "holds"
  /\ inhaber' = None
  /\ mq' = IF mq = <<>> THEN <<>> ELSE Tail(mq)
  /\ unpark(IF mq = <<>> THEN {} ELSE {Head(mq)}, [place EXCEPT ![t] = "run"])
  /\ UNCHANGED <<fertig, cq, frist, stop>>

-----------------------------------------------------------------------------
(* Completion                                                              *)

\* Mutant of complete: one waiter is woken.
CompleteWakesOne(t) ==
  /\ place[t] = "run" /\ fertig < MaxFertig
  /\ fertig' = fertig + 1
  /\ cq' = IF cq = <<>> THEN <<>> ELSE Tail(cq)
  /\ unpark(IF cq = <<>> THEN {} ELSE {Head(cq)}, place)
  /\ UNCHANGED <<inhaber, mq, frist, stop>>

complete(t) ==
  /\ place[t] = "run" /\ fertig < MaxFertig
  /\ fertig' = fertig + 1
  /\ cq' = <<>>
  /\ unpark(ToSet(cq), place)
  /\ UNCHANGED <<inhaber, mq, frist, stop>>

\* warten_schritt, and one round of warten_timeout.
warten_schritt(t) ==
  /\ place[t] \in {"run", "wait"}
  /\ IF fertig > 0 THEN fertig' = fertig - 1 /\ MoveTo(t, "run") /\ UNCHANGED cq
     ELSE IF HasRoom(cq) THEN cq' = Append(cq, t) /\ MoveTo(t, "wait_park") /\ UNCHANGED fertig
     ELSE MoveTo(t, "run") /\ UNCHANGED <<fertig, cq>>
  /\ UNCHANGED <<inhaber, mq, mark, frist, stop>>

\* Mutant of warten_timeout: the oldest entry is popped instead of the own one.
TimeoutPops(t) ==
  /\ t \in timers
  /\ place[t] = "wait_late" \/ (place[t] \in {"run", "wait"} /\ fertig = 0)
  /\ cq' = IF cq = <<>> THEN <<>> ELSE Tail(cq)
  /\ MoveTo(t, "run")
  /\ UNCHANGED <<inhaber, mq, fertig, mark, frist, stop>>

\* Back from PARK_TIMEOUT without a wake-up, or nothing is left of the time: the thread takes its
\* entries out and returns.
warten_timeout(t) ==
  /\ t \in timers
  /\ place[t] = "wait_late" \/ (place[t] \in {"run", "wait"} /\ fertig = 0)
  /\ cq' = entfernen(cq, t)
  /\ MoveTo(t, "run")
  /\ UNCHANGED <<inhaber, mq, fertig, mark, frist, stop>>

-----------------------------------------------------------------------------
\* Kthread::stop: flag and wake-up, wherever the thread is.
kthread_stop(t) ==
  /\ t \in strays \ stop
  /\ stop' = stop \cup {t}
  /\ unpark({t}, place)
  /\ UNCHANGED <<inhaber, mq, fertig, cq, frist>>

\* What a thread does that is awake and not at liberty to do something else.
Step(t) == park(t) \/ (place[t] = "lock" /\ lock_schritt(t)) \/ unlock(t)
           \/ (place[t] = "wait" /\ warten_schritt(t))
           \/ (place[t] = "wait_late" /\ warten_timeout(t))
WaitNext ==
  /\ \E t \in Threads :
       \/ park(t) \/ lock_schritt(t) \/ unlock(t) \/ complete(t) \/ warten_schritt(t)
       \/ warten_timeout(t) \/ fristen_faellig(t) \/ kthread_stop(t)
  /\ UNCHANGED <<strays, timers>>

\* A thread that is awake goes on; a holder unlocks in the end.
WaitSpec == WaitInit /\ [][WaitNext]_waitVars /\ \A t \in Threads : WF_moving(Step(t))

-----------------------------------------------------------------------------
(* Properties                                                              *)

OnItsWay(t) == place[t] = "lock" \/ (place[t] = "lock_park" /\ mark[t])

\* Marks come from a hand-over only: nobody is stopped and nobody has a deadline.
OwnMarksOnly == strays = {} /\ timers = {}

\* No wake-up is lost between looking and sleeping: a thread sleeps on a free mutex only while
\* another one is on its way to it.  (Where Kthread::stop or a deadline may strike, this fails: a
\* mark left behind lets a thread enter the list twice, and its own unlock pops the old entry.)
MutexHandedOn ==
  OwnMarksOnly /\ inhaber = None /\ (\E t \in Threads : place[t] = "lock_sleep")
    => \E t \in Threads : OnItsWay(t)

\* Nobody sleeps on a completion that has something to collect.
NobodySleepsOnFertig == fertig > 0 => \A t \in Threads : place[t] # "wait_sleep"

\* "Who sleeps without being in the list is never woken": every sleeper is listed.
SleeperListed == \A t \in Threads : /\ place[t] = "lock_sleep" => t \in ToSet(mq)
                                    /\ place[t] = "wait_sleep" => t \in ToSet(cq)

\* No wake-up is lost: nobody sleeps on a completed completion, every sleeper is listed to be
\* woken, and (without marks from elsewhere) nobody sleeps on a free mutex unless somebody is on
\* the way.  Threads lock, wait with and without deadline, and are stopped in every order.
NoWakeUpLost == MutexHandedOn /\ NobodySleepsOnFertig /\ SleeperListed

\* Who sleeps on a mutex is woken, as long as its holders unlock.
OneHandOver == \A t \in Threads : (OwnMarksOnly /\ place[t] = "lock_sleep") ~> place[t] # "lock_sleep"

\* Whatever marks are left behind, a lost hand-over is made good: who sleeps on a mutex is woken if
\* the mutex is taken again and again.
LaterHandOver ==
  []<>(inhaber # None) => \A t \in Threads : place[t] = "lock_sleep" ~> place[t] # "lock_sleep"

LockWakes == OneHandOver /\ LaterHandOver

\* The comment in timeout.rs: a deadline takes the entry out, so that no complete leaves a mark at
\* a thread that no longer waits.
DeadlineLeavesNoMark == strays = {} => \A t \in Threads : place[t] = "run" => ~mark[t]
=============================================================================
