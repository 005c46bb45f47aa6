------------------------ MODULE MCPaymentSettlement ------------------------
(* Instances of PaymentModes small enough for TLC.  Requests overlap in    *)
(* the mode "exact"; one page is opened in all but "alone".  There is a    *)
(* second order only in "open", where an answer may be sent for it and the *)
(* office receives nothing; elsewhere it receives the total in parts, and  *)
(* parts of 0 in "any".  The office sets the status only in "alone", and   *)
(* reopens no order.  Attempts to pay fail for one of the gateway's orders.*)
EXTENDS PaymentModes

First == CHOOSE o \in Orders : TRUE

MCNext ==
  /\ ModesNext
  /\ \A o \in Orders : orders'[o].status # orders[o].status =>
       \/ orders'[o].status = "CONFIRMED" /\ orders'[o].payment = "PAID"
       \/ orders'[o].status = "CANCELLED" /\ mode = "alone"
  /\ Cardinality({g \in GOrders : gateway'[g].failed}) <= 1
  /\ mode # "alone" => \E g \in GOrders : gateway'[g].state = "none"
  /\ mode # "exact" => Cardinality(Busy') <= 1
  /\ \A r \in Busy' : requests'[r].order = First
  /\ \A r \in Busy' : requests'[r].op = "payment" =>
       requests'[r].amount \in (IF mode = "any" THEN 0 ELSE 1)..(Total - 1)
  /\ mode = "open" => \A r \in Busy' : requests'[r].op # "payment"
  /\ mode # "open" => \A o \in Orders \ {First} : orders'[o] = orders[o]

MCSpec ==
  /\ ModesInit /\ [][MCNext]_<<vars, mode>>
  /\ \A e \in Events : WF_<<vars, mode>>(Webhook(e) /\ MCNext)

OverlapCapturedIsSeen == mode # "alone" => CapturedIsSeen
=============================================================================
