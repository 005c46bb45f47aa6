------------------------- MODULE CustomerCreditModes -------------------------
(***************************************************************************)
(* Three of CustomerCredit's properties depend on which requests overlap   *)
(* and on what else changes orders.  A behaviour has a mode, which says    *)
(* what happens in it:                                                     *)
(*   any      whatever there is                                            *)
(*   office   orders entered in the office, overlapping as they may except *)
(*            at midnight, and nothing else                                *)
(*   alone    one request at a time; no gateway and no courier             *)
(*   careful  one thing at a time, be it a request, the gateway or the     *)
(*            courier; no order that is cancelled has its status set, and  *)
(*            the gateway lowers no amount_paid                            *)
(***************************************************************************)
EXTENDS CustomerCredit

VARIABLE mode

Modes == {"any", "office", "alone", "careful"}

Office     == \A r \in Requests : view[r].op \in {"none", "office", "other"}
OneAtATime == \A q, r \in Requests : pc[q] # "idle" /\ pc[r] # "idle" => q = r
Careful    == \A r \in Requests : view[r].op = "status" => view[r].loaded.status # "CANCELLED"
AtRest     == \A r \in Requests : pc[r] = "idle"

(* What the gateway and the courier leave, where they are careful. *)
Kept == \A n \in Numbers : /\ orders[n].status = "CANCELLED" => orders'[n].status = "CANCELLED"
                          /\ orders'[n].paid >= orders[n].paid

ModesInit == Init /\ mode \in Modes

ModesServe ==
  /\ Serve
  /\ mode = "office" => Office'
  /\ mode \in {"alone", "careful"} => OneAtATime'
  /\ mode = "careful" => Careful'

ModesElsewhere ==
  /\ Elsewhere /\ mode \in {"any", "careful"}
  /\ mode = "careful" => AtRest /\ Kept

ModesMidnight == Midnight /\ (mode = "office" => AtRest)

ModesNext == (ModesServe \/ ModesElsewhere \/ ModesMidnight) /\ UNCHANGED mode

ModesSpec == ModesInit /\ [][ModesNext]_<<vars, mode>>

(* With orders of the office alone, and none under way at midnight, the    *)
(* credit used is their total.                                             *)
OfficeOrdersCounted == mode = "office" => OrdersCounted

(* With one request at a time, and neither gateway nor courier, a customer *)
(* is never charged too much.                                              *)
SerialNeverOvercharged == mode = "alone" => NeverOvercharged

(* With one thing at a time, what is ordered and not paid is within the    *)
(* limit, whatever the gateway and the courier change, if no order that is *)
(* cancelled has its status set and no amount paid is lowered.             *)
CarefulWithinLimit == mode = "careful" => OutstandingWithinLimit
=============================================================================
