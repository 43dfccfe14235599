--------------------------- MODULE MCIrqDelivery ---------------------------
(***************************************************************************)
(* The delivery of interrupts to two drivers and, beside it, the grant of  *)
(* message vectors to two devices: pairs of vectors from a pool of three,  *)
(* table entries for two grants; invalidations fail while granting and     *)
(* while withdrawing.  They share no state: a behaviour is one of the      *)
(* delivery or one of the grants, and the other part stands still.         *)
(***************************************************************************)
EXTENDS IrqDelivery, Msi

CONSTANTS v1, v2, a, b

TwoDrivers == {[v |-> v1, n |-> 0, b |-> 1], [v |-> v2, n |-> 1, b |-> 2]}

VARIABLE part

ASSUME MsiAssumption

MCInit == part \in {"irq", "msi"} /\ Init /\ MsiInit

MCNext ==
  /\ UNCHANGED part
  /\ \/ part = "irq" /\ Next /\ UNCHANGED msiVars
     \/ part = "msi" /\ MsiNext /\ UNCHANGED vars

MCSpec == MCInit /\ [][MCNext]_<<part, vars, msiVars>> /\ Fairness
=============================================================================
