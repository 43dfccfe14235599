---------------------------- MODULE MCDmaTeardown ---------------------------
(* One device that may stop answering, one region, callers that detach.    *)
EXTENDS DmaTeardown

CONSTANTS d1, g1

One == [d \in Devices |-> g1]
=============================================================================
