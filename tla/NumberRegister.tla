--------------------------- MODULE NumberRegister ---------------------------
(***************************************************************************)
(* What document numbering promises its callers, with no rows, locks or    *)
(* transactions: each key has a counter that, once in use, only grows, and *)
(* a number is issued by moving the counter one up, so no number is issued *)
(* twice and none is issued at or below a number the counter has passed.   *)
(***************************************************************************)
EXTENDS Integers

CONSTANTS Keys, InitialCounters,
  Unused  \* the counter of a key nobody has used yet

VARIABLES
  counter,  \* last number used for each key, or Unused
  issued    \* numbers handed out for each key

Init ==
  /\ counter \in [Keys -> InitialCounters \cup {Unused}]
  /\ issued = [k \in Keys |-> {}]

Following(k) == IF counter[k] = Unused THEN 1 ELSE counter[k] + 1

(* Hand out the number after the last one used, or 1. *)
Issue(k) ==
  /\ counter' = [counter EXCEPT ![k] = Following(k)]
  /\ issued' = [issued EXCEPT ![k] = @ \cup {Following(k)}]

(* Start counters anywhere, and move those in use past numbers used        *)
(* elsewhere.                                                              *)
SkipAhead ==
  /\ counter' \in [Keys -> Int \cup {Unused}]
  /\ \A k \in Keys : counter[k] # Unused =>
       counter'[k] # Unused /\ counter'[k] >= counter[k]
  /\ UNCHANGED issued

Next == (\E k \in Keys : Issue(k)) \/ SkipAhead

Spec == Init /\ [][Next]_<<counter, issued>>
=============================================================================
