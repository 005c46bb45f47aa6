--------------------------- MODULE DispatchModes ---------------------------
(***************************************************************************)
(* What Dispatch promises depends on what overlaps.  A behaviour has a     *)
(* mode: no two requests are under way at once; or they overlap, but no    *)
(* two of them number one shipment, and none uses the carrier's own        *)
(* generate-awb.                                                           *)
(***************************************************************************)
EXTENDS Dispatch

VARIABLE mode

Busy == {r \in Requests : pc[r] # "idle"}

OneBusy == \A q, r \in Busy : q = r

ModesInit == Init /\ mode \in {"alone", "numbers"}

ModesNext ==
  /\ Next /\ UNCHANGED mode
  /\ mode = "alone" => OneBusy'
  /\ mode = "numbers" => NumberedApart'

ModesSpec == ModesInit /\ [][ModesNext]_<<vars, mode>>

(* When requests do not overlap, manifests, shipments and items agree, and *)
(* stock leaves once for each item, or not at all where that is swallowed. *)
SerialManifestsAgree == mode = "alone" => ManifestsAgree
SerialDeductedOnce   == mode = "alone" => DeductedOnce
=============================================================================
