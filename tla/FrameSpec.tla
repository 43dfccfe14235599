----------------------------- MODULE FrameSpec ------------------------------
(***************************************************************************)
(* What the allocator of physical memory promises: an address is free or   *)
(* belongs to one capability, it is handed out only when it is free, and   *)
(* what is given back is free again.                                       *)
(***************************************************************************)
EXTENDS Naturals

VARIABLES free,     \* the free addresses
          live      \* the regions that capabilities stand for

Span(r) == r.base .. r.base + r.len - 1
Owned == UNION {Span(r) : r \in live}

FInit == free = {} /\ live = {}

\* Memory found at boot.
Register == live' = live /\ free \subseteq free' /\ free' \cap Owned = {}

Alloc == \E r \in live' \ live :
  /\ live' = live \cup {r} /\ r.len > 0
  /\ Span(r) \subseteq free /\ free' = free \ Span(r)

Free == \E r \in live : live' = live \ {r} /\ free' = free \cup Span(r)

\* A capability is divided in two.
Split == \E r \in live : \E q, s \in live' \ (live \ {r}) :
  /\ q.base = r.base /\ s.base = r.base + q.len /\ q.len + s.len = r.len
  /\ live' = (live \ {r}) \cup {q, s} /\ free' = free

FStep == Register \/ Alloc \/ Free \/ Split

FSpec == FInit /\ [][FStep]_<<free, live>>
=============================================================================
