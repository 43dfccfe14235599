---------------------------- MODULE MCCapSpace ----------------------------
(* Instances of CapSpace for TLC. *)
EXTENDS CapSpace

CONSTANTS mem, dma, rep, dbg

TypeOfKind == [k \in Kinds |-> IF k = mem THEN "Memory"
                          ELSE IF k = dma THEN "Dma"
                          ELSE IF k = rep THEN "Reply" ELSE "Debuggable"]

\* Every region ends at the last address, where the sums of CSUB overflow first.
TopRegion == [k \in Kinds |-> [base |-> 1, len |-> AddrMax - 1]]

\* What the theorems on handles and on revoke ask of the sizes.
ASSUME MCSizes == NSlots <= NObjects + 1 /\ MaxRelease < GenMod
===========================================================================
