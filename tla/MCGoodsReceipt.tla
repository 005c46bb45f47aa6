--------------------------- MODULE MCGoodsReceipt ---------------------------
(* Instances of GoodsReceiptModes small enough for TLC: two GRNs of one    *)
(* order, and one of another order for which a serial of the first was     *)
(* scanned.  Two units are accepted only where requests come one at a      *)
(* time; where they overlap, no units only of the GRN without a serial,    *)
(* only the first GRN has yet to be submitted, and the third has passed    *)
(* its quality check.                                                      *)
EXTENDS GoodsReceiptModes, TLC

CONSTANTS p1, p2, g1, g2, g3, s1

MCPoOf     == g1 :> p1 @@ g2 :> p1 @@ g3 :> p2
MCSerialOf == g1 :> s1 @@ g2 :> NoSerial @@ g3 :> s1
MCPrinted  == {<<s1, p1>>}

Unchecked == {"DRAFT", "PENDING_QC", "CANCELLED"}

Small == alone \/ \A g \in Grns :
  \/ grn[g].accepted = 1
  \/ grn[g].accepted = 0 /\ (g = g2 \/ grn[g].status \in Unchecked)

MCInit ==
  /\ ModesInit /\ Small
  /\ alone \/ (grn[g2].status # "DRAFT" /\ grn[g3].status = "QC_PASSED")

MCNext == ModesNext /\ Small'

MCSpec == MCInit /\ [][MCNext]_<<vars, alone>>

Symmetry == Permutations(Requests)
=============================================================================
