---------------------------- MODULE PaymentModes ----------------------------
(***************************************************************************)
(* What PaymentSettlement can promise depends on what it is sent, and on   *)
(* what overlaps.  A behaviour has a mode, which says what happens in it:  *)
(* anything, the events and answers that the code does not check included  *)
(* (open); what the page and the gateway do of their own accord (any);     *)
(* besides, pages ask for the order's total (exact); besides, the office   *)
(* receives no payments of 0, and nothing else happens while a request is  *)
(* under way (alone).                                                      *)
(***************************************************************************)
EXTENDS PaymentSettlement

VARIABLE mode

Modes == {"open", "any", "exact", "alone"}

Busy == {r \in Requests : requests[r] # Idle}

ModesInit == Init /\ mode \in Modes

AsksForTotal(v) == v.op = "create" => v.amount = Total
ReceivesMore(v) == v.op = "payment" => v.amount > 0

ModesNext ==
  /\ Genuine \/ (mode = "open" /\ Unchecked)
  /\ UNCHANGED mode
  /\ mode \in {"exact", "alone"} => \A r \in Requests : AsksForTotal(requests'[r])
  /\ mode = "alone" => /\ Busy = {} \/ (requests' # requests /\ Busy' = {})
                       /\ \A r \in Requests : ReceivesMore(requests'[r])

ModesSpec == ModesInit /\ [][ModesNext]_<<vars, mode>>

(* Where the code is sent what the page and the gateway send, an order is  *)
(* marked as paid only if a payment for it was authorized or the office    *)
(* has received its total, whatever overlaps, is repeated or is lost.      *)
GenuinePaidWasPaid == mode # "open" => PaidWasPaid

(* Where besides pages ask for the total, no money is recorded that did    *)
(* not come in, but for a paisa, whatever overlaps.                        *)
ExactNothingInvented == mode \in {"exact", "alone"} => NothingInvented

(* Where besides nothing overlaps a request, a paid order stays paid until *)
(* a payment for it is reported as failed.                                 *)
AlonePaidUntilFailed == [][mode = "alone" => PaidUntilFailed]_<<vars, mode>>
=============================================================================
