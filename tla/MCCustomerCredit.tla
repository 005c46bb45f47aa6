-------------------------- MODULE MCCustomerCredit --------------------------
(* Instances of CustomerCreditModes small enough for TLC.  There are two   *)
(* orders in one day, but three in the mode "careful" if there is no       *)
(* receipt, and three in two days in "office".                             *)
EXTENDS CustomerCreditModes, TLC

Most == IF mode = "office" \/ (mode = "careful" /\ receipts' = 0) THEN 3 ELSE 2

Asked == [any     |-> {"none", "office", "web", "cancel", "payment"},
          office  |-> Ops,
          alone   |-> Ops \ {"other"},
          careful |-> {"none", "office", "cancel", "status", "payment", "receipt"}]

MCNext ==
  /\ ModesNext
  /\ Cardinality(Exist') <= Most
  /\ \A r \in Requests : view'[r].op \in Asked[mode]
  /\ mode # "office" => today' = 1
  /\ mode = "any" => Serve /\ \A n \in Numbers : orders'[n].paid <= 1

MCSpec == ModesInit /\ [][MCNext]_<<vars, mode>>

Symmetry == Permutations(Requests)
=============================================================================
