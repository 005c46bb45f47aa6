--------------------------- MODULE MCModuleAccess ---------------------------
(* Instances of ModuleAccessModes small enough for TLC. *)
EXTENDS ModuleAccessModes, TLC

Symmetry == Permutations(Requests)
=============================================================================
