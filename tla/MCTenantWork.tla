---------------------------- MODULE MCTenantWork ----------------------------
(* Instances of TenantWork small enough for TLC. *)
EXTENDS TenantWork

(* A bound: every job that succeeds has written.  One that has not has     *)
(* nothing to lose, and no step depends on it.                             *)
JobsWrite == \A t \in Tasks : pc[t] = "done" => t \in wrote

MCNext == Next /\ JobsWrite'

(* FairSpec, of the steps within the bound. *)
MCSpec ==
  /\ Init /\ [][MCNext]_vars
  /\ \A w \in Workers : /\ WF_vars(Advance(w) /\ JobsWrite')
                        /\ WF_vars(TimesOut(w) /\ Fail(w) /\ JobsWrite')
  /\ \A r \in Requests : WF_vars(Finalise(r) /\ JobsWrite')
=============================================================================
