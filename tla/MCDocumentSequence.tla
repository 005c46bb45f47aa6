------------------------- MODULE MCDocumentSequence -------------------------
(* Instances of DocumentSequence small enough for TLC. *)
EXTENDS DocumentSequence, TLC

CONSTANTS PO, GRN

MCVerifyOrder == <<PO, GRN>>
MCRepairNumbers == {-2, 3}
Symmetry == Permutations(Requests)

=============================================================================
