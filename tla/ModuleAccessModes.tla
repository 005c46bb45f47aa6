------------------------- MODULE ModuleAccessModes -------------------------
(***************************************************************************)
(* How soon a subscription change takes effect, and whether the check for  *)
(* an active row suffices without a unique key, depends on what overlaps a *)
(* request.  A behaviour says whether requests come one at a time in it:   *)
(* then at most one of them is started and not finished.                   *)
(***************************************************************************)
EXTENDS ModuleAccess

VARIABLE alone

OneInFlight == \A q, r \in InFlight : q = r

ModesInit == Init /\ alone \in BOOLEAN

ModesNext == Next /\ UNCHANGED alone /\ (alone => OneInFlight')

ModesSpec == ModesInit /\ [][ModesNext]_<<vars, alone>>

(* When requests do not overlap, a change takes effect immediately. *)
SerialChangesImmediate == alone => ChangesImmediate

(* When requests do not overlap, the check of subscribe alone keeps a      *)
(* module from having two active rows, also in the table the application   *)
(* creates, without the unique key, and however often the tenant leaves    *)
(* and rejoins, requests fail, or the process restarts.                    *)
SerialOneActiveRow == alone => OneActiveRow
=============================================================================
