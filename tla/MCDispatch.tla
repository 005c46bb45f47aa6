----------------------------- MODULE MCDispatch -----------------------------
(* Instances of DispatchModes small enough for TLC.  Where requests do not *)
(* overlap, one of them serves all, two shipments are made at most, and    *)
(* one number given; a second summary comes during a handover (which may   *)
(* fail and be asked for again), and manifests are only handed over then.  *)
(* Where requests overlap, there may be three shipments, but these are     *)
(* only created and numbered.                                              *)
EXTENDS DispatchModes, TLC

(* The one that serves them all where requests do not overlap. *)
One == CHOOSE r \in Requests : TRUE

MCNext ==
  /\ ModesNext
  /\ mode = "alone" =>
       /\ Busy' \subseteq {One} /\ sequence' <= 2
       /\ single' = single \/ view[One].op = "handover"
       /\ single \/ view'[One].op \in {"none", "handover"}
       /\ Cardinality({s \in Shipments : ship'[s] # NoRow}) <= 2
  /\ mode = "numbers" =>
       single' /\ \A r \in Requests : view'[r].op \in {"none", "create", "awb"}

MCSpec == ModesInit /\ [][MCNext]_<<vars, mode>>

Symmetry == Permutations(Orders) \cup Permutations(Shipments) \cup Permutations(Manifests)
=============================================================================
