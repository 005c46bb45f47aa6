------------------------- MODULE GoodsReceiptProofs -------------------------
(***************************************************************************)
(* Theorems about GoodsReceipt, for any number of requests, GRNs, orders   *)
(* and serial numbers: the types, and that the goods of a GRN enter stock  *)
(* at most once, and always with an invoice, under any interleaving.       *)
(***************************************************************************)
EXTENDS GoodsReceiptModes, SumTheorems

(* Steps of accept_grn behind the creation of stock items. *)
Late  == {"summary", "total", "movement", "count", "invoice", "commit"}
Heavy == {"summary", "total", "movement"}

Finite == IsFiniteSet(invoices) /\ \A r \in Requests : IsFiniteSet(view[r].bills)

(* No two transactions hold the same row or key. *)
Exclusive ==
  /\ \A l \in locks : l = <<l[1], l[2]>>
  /\ \A l, m \in locks : l[1] = m[1] => l[2] = m[2]

(* A stock item not yet committed is its transaction's only one; its       *)
(* serial number is locked, and is in no committed item.  It is there only *)
(* if some units were accepted.                                            *)
PendingStock ==
  \A r \in Requests : \A a \in view[r].stock :
    /\ pc[r] \in Late /\ a.by = r /\ a.grn = target[r] /\ view[r].accepted > 0
    /\ \A b \in view[r].stock : a = b
    /\ SerialOf[a.grn] # NoSerial =>
         /\ <<SerialKey(SerialOf[a.grn]), r>> \in locks
         /\ \A b \in stock : SerialOf[b.grn] # SerialOf[a.grn]

PendingMoves ==
  \A r \in Requests : \A m \in view[r].moves :
    pc[r] \in {"count", "invoice", "commit"} /\ m.by = r /\ view[r].stock # {}

(* So is an invoice; and its GRN has no committed one. *)
PendingBill ==
  \A r \in Requests : \A b \in view[r].bills :
    /\ pc[r] = "commit" /\ b.by = r /\ b.grn = target[r] /\ b.accepted = view[r].accepted
    /\ \A c \in view[r].bills : b = c
    /\ <<BillKey(b.grn), r>> \in locks
    /\ \A c \in invoices : c.grn # b.grn

(* What a transaction has got done by the step it has reached. *)
Progress ==
  \A r \in Requests :
    /\ pc[r] \in Late =>
         view[r].stock # {} \/ view[r].grn.stocked \/ view[r].accepted <= 0
    /\ pc[r] \in Heavy => view[r].stock # {}
    /\ pc[r] = "commit" => view[r].bills # {}

(* A GRN marked as stocked, or loaded as stocked, has an invoice. *)
StockedHasBill ==
  /\ \A g \in Grns : grn[g].stocked => \E b \in invoices : b.grn = g
  /\ \A r \in Requests : view[r].grn.stocked => \E b \in invoices : b.grn = target[r]

BilledOnce == \A b, c \in invoices : b.grn = c.grn => b = c

(* What a request has committed. *)
Whole ==
  /\ \A a \in stock : pc[a.by] = "done"
  /\ \A a \in stock : \E b \in invoices : b.by = a.by /\ b.grn = a.grn /\ b.accepted > 0
  /\ \A b \in invoices : b.accepted > 0 => \E a \in stock : a.by = b.by
  /\ \A m \in ledger : \E a \in stock : a.by = m.by
  /\ \A a, b \in stock : a.by = b.by => a = b

SerialOnce ==
  \A a, b \in stock : a # b /\ SerialOf[a.grn] = SerialOf[b.grn] => SerialOf[a.grn] = NoSerial

Pending   == PendingStock /\ PendingMoves /\ PendingBill /\ Progress
Committed == StockedHasBill /\ BilledOnce /\ Whole /\ SerialOnce

IInv == TypeOK /\ Finite /\ Exclusive /\ Pending /\ Committed

-----------------------------------------------------------------------------
(* The blank view is a view. *)
LEMMA BlankType == Blank \in Views
  BY DEF Blank, Views, GrnRows, NewGrn, NewOrder, NoRows, Orders, Sheets, Statuses, Checks

(* The initial state has its types. *)
LEMMA TypeInit == Init => TypeOK
<1> SUFFICES ASSUME Init PROVE TypeOK
  OBVIOUS
<1>1. grn \in [Grns -> GrnRows]
  <2>1. NewGrn \in GrnRows
    BY DEF GrnRows, NewGrn, Statuses, Checks
  <2>2. [NewGrn EXCEPT !.status = "PENDING_QC"] \in GrnRows
    BY <2>1 DEF GrnRows, Statuses
  <2>3. ASSUME NEW q \in Quantities
        PROVE  [NewGrn EXCEPT !.status = "QC_PASSED", !.accepted = q] \in GrnRows
    BY ReceiptAssumption DEF GrnRows, NewGrn, Statuses, Checks
  <2>4. {NewGrn, [NewGrn EXCEPT !.status = "PENDING_QC"]} \cup
          {[NewGrn EXCEPT !.status = "QC_PASSED", !.accepted = q] : q \in Quantities}
            \subseteq GrnRows
    BY <2>1, <2>2, <2>3
  <2> QED
    BY <2>4 DEF Init
<1>2. order \in [Pos -> Orders]
  <2>1. NewOrder \in Orders
    BY DEF NewOrder, Orders
  <2> QED
    BY <2>1 DEF Init
<1>3. sums \in [Sheets -> SUBSET Totals]
  <2>1. [by |-> Before, total |-> 0] \in Totals
    BY DEF Totals
  <2>2. NoRows \in [Sheets -> SUBSET Totals]
    BY DEF NoRows
  <2> QED
    BY <2>1, <2>2 DEF Init
<1>4. view \in [Requests -> Views]
  BY BlankType DEF Init
<1> QED
  BY <1>1, <1>2, <1>3, <1>4 DEF Init, TypeOK, Steps

(* A request under way stays so, or ends and drops its locks. *)
LEMMA LocksType ==
  ASSUME TypeOK, NEW r \in Requests, NEW step \in Steps, Goto(r, step),
         \/ step \notin Ended \cup Short \cup {"new"} /\ \A l \in locks' : l \in locks \/ l[2] = r
         \/ step \in Ended /\ locks' = LocksWithout(r)
  PROVE  /\ pc' \in [Requests -> Steps]
         /\ \A l \in locks' : l[2] \in Active' /\ pc'[l[2]] \notin Short
  BY DEF TypeOK, Goto, Active, Ended, Short, Ops, LocksWithout

(* What Take adds is r's. *)
LEMMA TakeAdds ==
  ASSUME NEW r, NEW things, Take(r, things)
  PROVE  \A l \in locks' : l \in locks \/ l[2] = r
  BY DEF Take

(* The rows ReadSum computes. *)
LEMMA AddedType ==
  ASSUME TypeOK, NEW r \in Requests, NEW t \in Sheets
  PROVE  Added(r, t) \in SUBSET Totals
<1>1. view[r].accepted \in Int /\ sums[t] \in SUBSET Totals
  BY DEF TypeOK, Views
<1>2. ASSUME NEW row \in sums[t]
      PROVE  [row EXCEPT !.total = @ + view[r].accepted] \in Totals
  BY <1>1, <1>2 DEF Totals
<1>3. [by |-> r, total |-> view[r].accepted] \in Totals
  BY <1>1 DEF Totals
<1> QED
  BY <1>2, <1>3 DEF Added

(* The short endpoints' UPDATE keeps the types and the stocked flags. *)
LEMMA WriteType ==
  ASSUME TypeOK, NEW r \in Requests, Write(r)
  PROVE  grn' \in [Grns -> GrnRows] /\ \A h \in Grns : grn'[h].stocked = grn[h].stocked
<1> DEFINE g == target[r]
<1>0. g \in Grns /\ grn[g] \in GrnRows /\ grn \in [Grns -> GrnRows]
  BY DEF TypeOK
<1>1. CASE pc[r] = "qc"
  <2>1. PICK s \in {"QC_PASSED", "QC_FAILED", "PARTIALLY_ACCEPTED"}, q \in Quantities :
          grn' = [grn EXCEPT ![g].status = s, ![g].accepted = q]
    BY <1>1 DEF Write
  <2> QED
    BY <1>0, <2>1, ReceiptAssumption DEF GrnRows, Statuses
<1>2. CASE pc[r] = "submit"
  <2>1. grn' = [grn EXCEPT ![g].status = "PENDING_QC"]
    BY <1>2 DEF Write
  <2> QED
    BY <1>0, <2>1 DEF GrnRows, Statuses
<1>3. CASE pc[r] = "force"
  <2>1. grn' = [grn EXCEPT ![g].forced = TRUE, ![g].check = "SKIPPED"]
    BY <1>3 DEF Write
  <2> QED
    BY <1>0, <2>1 DEF GrnRows, Checks
<1>4. CASE pc[r] = "put-away"
  <2>1. grn' = [grn EXCEPT ![g].status = "PUT_AWAY_COMPLETE"]
    BY <1>4 DEF Write
  <2> QED
    BY <1>0, <2>1 DEF GrnRows, Statuses
<1>5. CASE pc[r] = "cancel"
  <2>1. grn' = [grn EXCEPT ![g].status = "CANCELLED"]
    BY <1>5 DEF Write
  <2> QED
    BY <1>0, <2>1 DEF GrnRows, Statuses
<1> QED
  BY <1>1, <1>2, <1>3, <1>4, <1>5 DEF Write

(* Every step keeps the types. *)
LEMMA TypeNext == TypeOK /\ Finite /\ [Next]_vars => TypeOK'
<1> SUFFICES ASSUME TypeOK, Finite, [Next]_vars PROVE TypeOK'
  OBVIOUS
<1>1. CASE UNCHANGED vars
  BY <1>1 DEF TypeOK, vars, tables, Active
<1>2. ASSUME NEW r \in Requests, Step(r)
      PROVE  TypeOK'
  <2> DEFINE g == target[r]
  <2>0. /\ g \in Grns /\ PoOf[g] \in Pos /\ view[r] \in Views /\ grn[g] \in GrnRows
        /\ order[PoOf[g]] \in Orders /\ view[r].accepted \in Int
    BY ReceiptAssumption DEF TypeOK, Views
  <2>a. ASSUME UNCHANGED <<tables, target>>, view' \in [Requests -> Views],
               NEW step \in Steps \ (Ended \cup Short \cup {"new"}), Goto(r, step),
               \A l \in locks' : l \in locks \/ l[2] = r
        PROVE  TypeOK'
    BY <2>a, LocksType DEF TypeOK, tables
  <2>1. CASE Load(r)
    <3>1. view' \in [Requests -> Views]
      BY <2>0, <2>1 DEF Load, TypeOK, Views
    <3>2. PICK step \in Ops \cup {"claim", "validate"} : step # "accept" /\ Goto(r, step)
      BY <2>1 DEF Load
    <3>3. step \in Steps
      BY <3>2 DEF Ops, Steps, Short
    <3>4. \A l \in locks : l[2] # r
      BY <2>1 DEF Load, TypeOK, Active, Ended
    <3>5. \A l \in locks' : l[2] \in Active' /\ pc'[l[2]] \notin Short
      BY <2>1, <3>2, <3>4 DEF Load, TypeOK, Active, Goto
    <3> QED
      BY <2>1, <3>1, <3>2, <3>3, <3>5 DEF Load, TypeOK, tables, Goto
  <2>2. CASE Write(r)
    <3>1. pc[r] \in Short
      BY <2>2 DEF Write, Short, Ops
    <3>2. grn' \in [Grns -> GrnRows]
      BY <2>2, WriteType
    <3>4. \A l \in locks' : l[2] \in Active' /\ pc'[l[2]] \notin Short
      BY <2>2, <3>1 DEF Write, TypeOK, Active, Goto
    <3> QED
      BY <2>2, <3>2, <3>4, BlankType DEF Write, TypeOK, Goto, Steps, Short, Ops, Ended
  <2>3. CASE Validate(r)
    <3>1. view' \in [Requests -> Views]
      BY <2>0, <2>3 DEF Validate, TypeOK, Views, GrnRows, Checks
    <3> QED
      BY <2>a, <2>3, <3>1 DEF Validate, Steps, Short, Ops, Ended
  <2>4. CASE Claim(r)
    BY <2>a, <2>4, TakeAdds DEF Claim, TypeOK, Steps, Short, Ops, Ended
  <2>5. CASE ReadOrder(r)
    <3>1. Checked(r) \in Checks
      BY <2>0 DEF Checked, Views, Checks
    <3>2. view' \in [Requests -> Views]
      BY <2>0, <2>5, <3>1 DEF ReadOrder, TypeOK, Views, GrnRows
    <3> QED
      BY <2>a, <2>5, <3>2 DEF ReadOrder, Steps, Short, Ops, Ended
  <2>6. CASE Receive(r)
    BY <2>a, <2>6, TakeAdds DEF Receive, TypeOK, Steps, Short, Ops, Ended
  <2>7. CASE SetStatus(r)
    BY <2>a, <2>7, TakeAdds DEF SetStatus, TypeOK, Steps, Short, Ops, Ended
  <2>8. CASE ReadCost(r)
    <3>1. view' \in [Requests -> Views]
      <4>1. Added(r, "cost") \in SUBSET Totals
        BY AddedType DEF Sheets
      <4>2. [view[r] EXCEPT !.sums["cost"] = Added(r, "cost")] \in Views
        BY <2>0, <4>1 DEF Views, Sheets
      <4>3. view' = view \/ view' = [view EXCEPT ![r].sums["cost"] = Added(r, "cost")]
        BY <2>8 DEF ReadCost, ReadSum
      <4> QED
        BY <4>2, <4>3 DEF TypeOK
    <3> QED
      BY <2>a, <2>8, <3>1 DEF ReadCost, ReadSum, Steps, Short, Ops, Ended
  <2>9. CASE SetCost(r)
    BY <2>a, <2>9, TakeAdds DEF SetCost, LockSum, TypeOK, Steps, Short, Ops, Ended
  <2>10. CASE CreateStock(r)
    <3>1. CASE view[r].grn.stocked \/ view[r].accepted <= 0
      BY <2>a, <2>10, <3>1 DEF CreateStock, TypeOK, Steps, Short, Ops, Ended
    <3>2. CASE ~ (view[r].grn.stocked \/ view[r].accepted <= 0)
      <4> DEFINE item ==
            [grn |-> g, count |-> IF SerialOf[g] = NoSerial THEN view[r].accepted ELSE 1, by |-> r]
      <4>1. item \in Items
        BY <2>0 DEF Items
      <4>2. view' \in [Requests -> Views]
        <5>1. view' = [view EXCEPT ![r].stock = {item}]
          BY <2>10, <3>2 DEF CreateStock
        <5> HIDE DEF item
        <5> QED
          BY <2>0, <4>1, <5>1 DEF TypeOK, Views
      <4> QED
        BY <2>a, <2>10, <3>2, <4>2, TakeAdds DEF CreateStock, Steps, Short, Ops, Ended
    <3> QED
      BY <3>1, <3>2
  <2>11. CASE ReadSummary(r)
    <3>1. view' \in [Requests -> Views]
      <4>1. Added(r, "summary") \in SUBSET Totals
        BY AddedType DEF Sheets
      <4>2. [view[r] EXCEPT !.sums["summary"] = Added(r, "summary")] \in Views
        BY <2>0, <4>1 DEF Views, Sheets
      <4> QED
        BY <2>11, <4>2 DEF ReadSummary, ReadSum, TypeOK
    <3> QED
      BY <2>a, <2>11, <3>1 DEF ReadSummary, ReadSum, Steps, Short, Ops, Ended
  <2>12. CASE SetSummary(r)
    <3>1. PICK n \in {m.number : m \in ledger} \cup {0} : view' = [view EXCEPT ![r].number = n + 1]
      BY <2>12 DEF SetSummary
    <3>2. n + 1 \in Nat
      BY <3>1 DEF TypeOK, Moves
    <3>3. view' \in [Requests -> Views]
      <4>1. [view[r] EXCEPT !.number = n + 1] \in Views
        BY <2>0, <3>2 DEF Views
      <4> QED
        BY <3>1, <4>1 DEF TypeOK
    <3> QED
      BY <2>a, <2>12, <3>3, TakeAdds DEF SetSummary, LockSum, Steps, Short, Ops, Ended
  <2>13. CASE Move(r)
    <3>1. [number |-> view[r].number, quantity |-> view[r].accepted, by |-> r] \in Moves
      BY <2>0 DEF Moves, Views
    <3>2. view' \in [Requests -> Views]
      BY <2>0, <2>13, <3>1 DEF Move, TypeOK, Views
    <3> QED
      BY <2>a, <2>13, <3>2, TakeAdds DEF Move, Steps, Short, Ops, Ended
  <2>14. CASE CountBills(r)
    <3>1. Cardinality(invoices) + 1 \in Nat
      BY FS_CardinalityType DEF Finite
    <3>2. view' \in [Requests -> Views]
      BY <2>0, <2>14, <3>1 DEF CountBills, TypeOK, Views
    <3> QED
      BY <2>a, <2>14, <3>2 DEF CountBills, Steps, Short, Ops, Ended
  <2>15. CASE Bill(r)
    <3>1. NewBill(r) \in Bills
      BY <2>0 DEF NewBill, Bills, Views, GrnRows
    <3>2. view' \in [Requests -> Views]
      BY <2>0, <2>15, <3>1 DEF Bill, TypeOK, Views
    <3> QED
      BY <2>a, <2>15, <3>2, TakeAdds DEF Bill, Steps, Short, Ops, Ended
  <2>16. CASE Commit(r)
    <3> DEFINE v == view[r]
    <3>1. grn' \in [Grns -> GrnRows]
      BY <2>0, <2>16 DEF Commit, TypeOK, GrnRows, Statuses, Changed, Views
    <3>2. Received(v.order, v.accepted) \in Orders /\ v.order \in Orders
      BY <2>0 DEF Received, Orders, Views
    <3>3. order' \in [Pos -> Orders]
      BY <2>0, <2>16, <3>2 DEF Commit, TypeOK, Orders, Changed
    <3>4. sums' \in [Sheets -> SUBSET Totals]
      BY <2>0, <2>16 DEF Commit, TypeOK, Views
    <3>5. stock' \in SUBSET Items /\ ledger' \in SUBSET Moves /\ invoices' \in SUBSET Bills
      BY <2>0, <2>16 DEF Commit, TypeOK, Views
    <3>6. pc' \in [Requests -> Steps] /\ \A l \in locks' : l[2] \in Active' /\ pc'[l[2]] \notin Short
      BY <2>16, LocksType DEF Commit, Steps, Short, Ops, Ended
    <3> QED
      BY <2>16, <3>1, <3>3, <3>4, <3>5, <3>6, BlankType DEF Commit, TypeOK
  <2>17. CASE Fail(r)
    <3>1. pc' \in [Requests -> Steps] /\ \A l \in locks' : l[2] \in Active' /\ pc'[l[2]] \notin Short
      BY <2>17, LocksType DEF Fail, Steps, Short, Ops, Ended
    <3> QED
      BY <2>17, <3>1, BlankType DEF Fail, TypeOK, tables
  <2> QED
    BY <1>2, <2>1, <2>2, <2>3, <2>4, <2>5, <2>6, <2>7, <2>8, <2>9, <2>10, <2>11, <2>12, <2>13,
       <2>14, <2>15, <2>16, <2>17 DEF Step
<1> QED
  BY <1>1, <1>2 DEF Next, AllEnded

-----------------------------------------------------------------------------
(* Locks that Take grants. *)
LEMMA TakeExclusive ==
  ASSUME TypeOK, Exclusive, NEW r \in Requests, NEW things, Take(r, things)
  PROVE  Exclusive' /\ locks \subseteq locks' /\ \A thing \in things : <<thing, r>> \in locks'
<1>1. locks' = locks \cup (things \X {r})
  BY DEF Take
<1>2. ASSUME NEW l \in locks', NEW m \in locks', l[1] = m[1]
      PROVE  l[2] = m[2]
  <2>1. ASSUME NEW a \in locks, NEW b \in things \X {r}, a[1] = b[1]
        PROVE  a[2] = b[2]
    <3>1. Free(r, b[1]) /\ b[2] = r
      BY DEF Take
    <3>2. a = <<a[1], a[2]>> /\ a[2] \in Requests
      BY DEF Exclusive, TypeOK, Active
    <3> QED
      BY <2>1, <3>1, <3>2 DEF Free
  <2> QED
    BY <1>1, <1>2, <2>1 DEF Exclusive
<1> QED
  BY <1>1, <1>2 DEF Exclusive

(* What dropping one's locks leaves. *)
LEMMA DropExclusive ==
  ASSUME Exclusive, NEW r \in Requests, locks' = LocksWithout(r)
  PROVE  Exclusive' /\ \A thing : \A q \in Requests \ {r} :
                         <<thing, q>> \in locks => <<thing, q>> \in locks'
  BY DEF Exclusive, LocksWithout

(* A step that neither writes stock, movement or invoice, nor ends. *)
LEMMA Quiet ==
  ASSUME IInv, TypeOK', NEW r \in Requests, UNCHANGED <<tables, target>>,
         NEW step \in Steps, Goto(r, step), pc[r] \notin {"invoice", "commit"} \cup Ended,
         pc[r] \in Late => step \in Late,
         step \in Late => pc[r] \in Late \/ view[r].grn.stocked \/ view[r].accepted <= 0,
         step \in Heavy => pc[r] \in Heavy,
         step \in Late => view'[r].accepted = view[r].accepted,
         pc[r] = "count" => step = "invoice", step # "commit",
         \A q \in Requests \ {r} : view'[q] = view[q],
         view'[r].stock = view[r].stock, view'[r].moves = view[r].moves,
         view'[r].bills = view[r].bills,
         \/ view'[r].grn.stocked = view[r].grn.stocked
         \/ step \notin Late /\ view'[r].grn.stocked = grn[target[r]].stocked,
         locks \subseteq locks', Exclusive'
  PROVE  IInv'
<1> USE DEF IInv
<1>1. \A q \in Requests : /\ view'[q].stock = view[q].stock /\ view'[q].moves = view[q].moves
                          /\ view'[q].bills = view[q].bills
                          /\ q # r => pc'[q] = pc[q] /\ view'[q] = view[q]
  BY DEF Goto, TypeOK
<1>2. pc'[r] = step
  BY DEF Goto, TypeOK
<1>3. Finite'
  BY <1>1 DEF Finite, tables
<1>4. PendingStock'
  BY <1>1, <1>2 DEF Pending, PendingStock, tables
<1>5. PendingMoves'
  <2>1. SUFFICES ASSUME NEW q \in Requests, NEW m \in view'[q].moves
                 PROVE  /\ pc'[q] \in {"count", "invoice", "commit"} /\ m.by = q
                        /\ view'[q].stock # {}
    BY DEF PendingMoves
  <2>2. m \in view[q].moves
    BY <1>1, <2>1
  <2>3. pc[q] \in {"count", "invoice", "commit"} /\ m.by = q /\ view[q].stock # {}
    BY <2>2 DEF Pending, PendingMoves
  <2> QED BY <1>1, <1>2, <2>3
<1>6. PendingBill'
  BY <1>1, <1>2 DEF Pending, PendingBill, tables
<1>7. Progress'
  BY <1>1, <1>2 DEF Pending, Progress
<1>8. StockedHasBill'
  <2>1. target[r] \in Grns
    BY DEF TypeOK
  <2> QED
    BY <1>1, <2>1 DEF Committed, StockedHasBill, tables
<1>9. Whole'
  <2>1. \A q \in Requests : pc[q] = "done" => pc'[q] = "done"
    BY <1>1 DEF Ended
  <2>2. \A a \in stock : a.by \in Requests
    BY DEF TypeOK, Items
  <2> QED
    BY <2>1, <2>2 DEF Committed, Whole, tables
<1>10. BilledOnce' /\ SerialOnce'
  BY DEF Committed, BilledOnce, SerialOnce, tables
<1> QED
  BY <1>3, <1>4, <1>5, <1>6, <1>7, <1>8, <1>9, <1>10 DEF Pending, Committed

(* A transaction that leaves stock, movements and invoices as they are ends. *)
LEMMA Ending ==
  ASSUME IInv, TypeOK', NEW r \in Requests, UNCHANGED <<stock, ledger, invoices, target>>,
         NEW step \in Ended, Goto(r, step), pc[r] \notin Ended,
         \A g \in Grns : grn'[g].stocked = grn[g].stocked,
         view' = [view EXCEPT ![r] = Blank], locks' = LocksWithout(r)
  PROVE  IInv'
<1> USE DEF IInv
<1>1. \A q \in Requests \ {r} : pc'[q] = pc[q] /\ view'[q] = view[q]
  BY DEF Goto, TypeOK
<1>2. /\ pc'[r] = step /\ view'[r].stock = {} /\ view'[r].moves = {} /\ view'[r].bills = {}
      /\ ~ view'[r].grn.stocked
  BY DEF Goto, TypeOK, Blank, NewGrn
<1>3. Exclusive' /\ \A thing : \A q \in Requests \ {r} :
                      <<thing, q>> \in locks => <<thing, q>> \in locks'
  BY DropExclusive
<1>4. Finite'
  BY <1>1, <1>2, FS_EmptySet DEF Finite
<1>5. PendingStock'
  BY <1>1, <1>2, <1>3 DEF Pending, PendingStock
<1>6. PendingMoves'
  BY <1>1, <1>2 DEF Pending, PendingMoves
<1>7. PendingBill'
  BY <1>1, <1>2, <1>3 DEF Pending, PendingBill
<1>8. Progress'
  BY <1>1, <1>2 DEF Pending, Progress, Late, Heavy, Ended
<1>9. StockedHasBill'
  BY <1>1, <1>2 DEF Committed, StockedHasBill
<1>10. Whole'
  <2>1. \A q \in Requests : pc[q] = "done" => pc'[q] = "done"
    BY <1>1 DEF Ended
  <2>2. \A a \in stock : a.by \in Requests
    BY DEF TypeOK, Items
  <2> QED
    BY <2>1, <2>2 DEF Committed, Whole
<1>11. BilledOnce' /\ SerialOnce'
  BY DEF Committed, BilledOnce, SerialOnce
<1> QED
  BY <1>3, <1>4, <1>5, <1>6, <1>7, <1>8, <1>9, <1>10, <1>11 DEF Pending, Committed

(* Before it creates stock items, a transaction has none, and no invoice. *)
LEMMA Early ==
  ASSUME IInv, NEW r \in Requests
  PROVE  /\ pc[r] \notin Late => view[r].stock = {}
         /\ pc[r] \notin {"count", "invoice", "commit"} => view[r].moves = {}
         /\ pc[r] # "commit" => view[r].bills = {}
  BY DEF IInv, Pending, PendingStock, PendingMoves, PendingBill

(* The creation of stock items keeps the invariant. *)
LEMMA StockStep ==
  ASSUME IInv, TypeOK', NEW r \in Requests, CreateStock(r),
         ~ (view[r].grn.stocked \/ view[r].accepted <= 0)
  PROVE  IInv'
<1> USE DEF IInv
<1> DEFINE g == target[r]
           item == [grn |-> g, by |-> r,
                    count |-> IF SerialOf[g] = NoSerial THEN view[r].accepted ELSE 1]
<1>1. /\ pc[r] = "stock" /\ UNCHANGED <<tables, target>> /\ ~ Refused(g)
      /\ Take(r, IF SerialOf[g] = NoSerial THEN {} ELSE {SerialKey(SerialOf[g])})
      /\ Goto(r, "summary")
  BY DEF CreateStock
<1>2. view' = [view EXCEPT ![r].stock = {item}]
  BY DEF CreateStock
<1>3. item.grn = g /\ item.by = r
  OBVIOUS
<1> HIDE DEF item
<1>4. \A q \in Requests \ {r} : pc'[q] = pc[q] /\ view'[q] = view[q]
  BY <1>1, <1>2 DEF Goto, TypeOK
<1>5. /\ pc'[r] = "summary" /\ view'[r].stock = {item} /\ view'[r].moves = view[r].moves
      /\ view'[r].bills = view[r].bills /\ view'[r].grn = view[r].grn
      /\ view'[r].accepted = view[r].accepted /\ view[r].accepted > 0
  BY <1>1, <1>2 DEF Goto, TypeOK, Views
<1>6. view[r].moves = {} /\ view[r].bills = {}
  BY <1>1, Early
<1>7. /\ Exclusive' /\ locks \subseteq locks'
      /\ SerialOf[g] # NoSerial => <<SerialKey(SerialOf[g]), r>> \in locks'
  BY <1>1, TakeExclusive
<1>8. Finite'
  BY <1>1, <1>4, <1>5, <1>6, FS_EmptySet DEF Finite, tables
<1>9. PendingStock'
  <2>1. SerialOf[g] # NoSerial => \A b \in stock : SerialOf[b.grn] # SerialOf[g]
    BY <1>1 DEF Refused
  <2> QED
    BY <1>1, <1>3, <1>4, <1>5, <1>7, <2>1 DEF Pending, PendingStock, Late, tables
<1>10. PendingMoves'
  BY <1>4, <1>5, <1>6 DEF Pending, PendingMoves
<1>11. PendingBill'
  BY <1>1, <1>4, <1>5, <1>6, <1>7 DEF Pending, PendingBill, tables
<1>12. Progress'
  BY <1>4, <1>5 DEF Pending, Progress
<1>13. StockedHasBill'
  BY <1>1, <1>4, <1>5 DEF Committed, StockedHasBill, tables
<1>14. Whole'
  <2>1. \A q \in Requests : pc[q] = "done" => pc'[q] = "done"
    BY <1>1, <1>4
  <2>2. \A a \in stock : a.by \in Requests
    BY DEF TypeOK, Items
  <2> QED
    BY <1>1, <2>1, <2>2 DEF Committed, Whole, tables
<1>15. BilledOnce' /\ SerialOnce'
  BY <1>1 DEF Committed, BilledOnce, SerialOnce, tables
<1> QED
  BY <1>7, <1>8, <1>9, <1>10, <1>11, <1>12, <1>13, <1>14, <1>15 DEF Pending, Committed

(* So does the movement ... *)
LEMMA MoveStep ==
  ASSUME IInv, TypeOK', NEW r \in Requests, Move(r)
  PROVE  IInv'
<1> USE DEF IInv
<1> DEFINE move == [number |-> view[r].number, quantity |-> view[r].accepted, by |-> r]
<1>1. /\ pc[r] = "movement" /\ UNCHANGED <<tables, target>> /\ Goto(r, "count")
      /\ Take(r, {MoveKey(view[r].number)})
  BY DEF Move
<1>2. view' = [view EXCEPT ![r].moves = {move}]
  BY DEF Move
<1>3. move.by = r
  OBVIOUS
<1> HIDE DEF move
<1>4. \A q \in Requests \ {r} : pc'[q] = pc[q] /\ view'[q] = view[q]
  BY <1>1, <1>2 DEF Goto, TypeOK
<1>5. /\ pc'[r] = "count" /\ view'[r].moves = {move} /\ view'[r].stock = view[r].stock
      /\ view'[r].bills = view[r].bills /\ view'[r].grn = view[r].grn
      /\ view'[r].accepted = view[r].accepted
  BY <1>1, <1>2 DEF Goto, TypeOK, Views
<1>6. view[r].bills = {} /\ view[r].stock # {}
  BY <1>1, Early DEF Pending, Progress, Heavy
<1>7. Exclusive' /\ locks \subseteq locks'
  BY <1>1, TakeExclusive
<1>8. Finite'
  BY <1>1, <1>4, <1>5 DEF Finite, tables
<1>9. PendingStock'
  BY <1>1, <1>4, <1>5, <1>7 DEF Pending, PendingStock, Late, tables
<1>10. PendingMoves'
  BY <1>3, <1>4, <1>5, <1>6 DEF Pending, PendingMoves
<1>11. PendingBill'
  BY <1>1, <1>4, <1>5, <1>6, <1>7 DEF Pending, PendingBill, tables
<1>12. Progress'
  BY <1>1, <1>4, <1>5 DEF Pending, Progress, Late, Heavy
<1>13. StockedHasBill'
  BY <1>1, <1>4, <1>5 DEF Committed, StockedHasBill, tables
<1>14. Whole'
  <2>1. \A q \in Requests : pc[q] = "done" => pc'[q] = "done"
    BY <1>1, <1>4
  <2>2. \A a \in stock : a.by \in Requests
    BY DEF TypeOK, Items
  <2> QED
    BY <1>1, <2>1, <2>2 DEF Committed, Whole, tables
<1>15. BilledOnce' /\ SerialOnce'
  BY <1>1 DEF Committed, BilledOnce, SerialOnce, tables
<1> QED
  BY <1>7, <1>8, <1>9, <1>10, <1>11, <1>12, <1>13, <1>14, <1>15 DEF Pending, Committed

(* ... and the invoice. *)
LEMMA BillStep ==
  ASSUME IInv, TypeOK', NEW r \in Requests, Bill(r)
  PROVE  IInv'
<1> USE DEF IInv
<1> DEFINE g == target[r]
           n == view[r].number
           bill == NewBill(r)
<1>1. /\ pc[r] = "invoice" /\ ~ Billed(g, n) /\ Take(r, {BillKey(g), RefKey(n)})
      /\ Goto(r, "commit") /\ UNCHANGED <<tables, target>>
  BY DEF Bill
<1>2. view' = [view EXCEPT ![r].bills = {bill}]
  BY DEF Bill
<1>3. bill.grn = g /\ bill.by = r /\ bill.accepted = view[r].accepted
  BY DEF NewBill
<1> HIDE DEF bill
<1>4. \A q \in Requests \ {r} : pc'[q] = pc[q] /\ view'[q] = view[q]
  BY <1>1, <1>2 DEF Goto, TypeOK
<1>5. /\ pc'[r] = "commit" /\ view'[r].bills = {bill} /\ view'[r].stock = view[r].stock
      /\ view'[r].moves = view[r].moves /\ view'[r].grn = view[r].grn
      /\ view'[r].accepted = view[r].accepted
  BY <1>1, <1>2 DEF Goto, TypeOK, Views
<1>6. Exclusive' /\ locks \subseteq locks' /\ <<BillKey(g), r>> \in locks'
  BY <1>1, TakeExclusive
<1>7. Finite'
  <2>1. IsFiniteSet({bill})
    BY FS_Singleton
  <2> QED
    BY <1>1, <1>4, <1>5, <2>1 DEF Finite, tables
<1>8. PendingStock'
  BY <1>1, <1>4, <1>5, <1>6 DEF Pending, PendingStock, Late, tables
<1>9. PendingMoves'
  BY <1>4, <1>5 DEF Pending, PendingMoves
<1>10. PendingBill'
  <2>1. \A c \in invoices : c.grn # g
    BY <1>1 DEF Billed
  <2> QED
    BY <1>1, <1>3, <1>4, <1>5, <1>6, <2>1 DEF Pending, PendingBill, tables
<1>11. Progress'
  BY <1>1, <1>4, <1>5 DEF Pending, Progress, Late, Heavy
<1>12. StockedHasBill'
  BY <1>1, <1>4, <1>5 DEF Committed, StockedHasBill, tables
<1>13. Whole'
  <2>1. \A q \in Requests : pc[q] = "done" => pc'[q] = "done"
    BY <1>1, <1>4
  <2>2. \A a \in stock : a.by \in Requests
    BY DEF TypeOK, Items
  <2> QED
    BY <1>1, <2>1, <2>2 DEF Committed, Whole, tables
<1>14. BilledOnce' /\ SerialOnce'
  BY <1>1 DEF Committed, BilledOnce, SerialOnce, tables
<1> QED
  BY <1>6, <1>7, <1>8, <1>9, <1>10, <1>11, <1>12, <1>13, <1>14 DEF Pending, Committed

(* What a transaction holds when it commits: an invoice of its GRN, the    *)
(* only one ever, and with it, if some units were accepted, the GRN's only *)
(* stock item.                                                             *)
LEMMA AtCommit ==
  ASSUME IInv, NEW r \in Requests, pc[r] = "commit"
  PROVE  /\ \A c \in invoices : c.grn # target[r]
         /\ \E b : view[r].bills = {b} /\ b.by = r /\ b.grn = target[r]
                   /\ b.accepted = view[r].accepted /\ <<BillKey(b.grn), r>> \in locks
         /\ view[r].accepted > 0 =>
              \E a : view[r].stock = {a} /\ a.by = r /\ a.grn = target[r]
         /\ view[r].accepted <= 0 => view[r].stock = {}
         /\ \A m \in view[r].moves : m.by = r /\ view[r].stock # {}
<1> USE DEF IInv
<1>1. PICK b \in view[r].bills : TRUE
  BY DEF Pending, Progress
<1>2. /\ b.by = r /\ b.grn = target[r] /\ <<BillKey(b.grn), r>> \in locks
      /\ b.accepted = view[r].accepted /\ view[r].bills = {b} /\ \A c \in invoices : c.grn # target[r]
  BY <1>1 DEF Pending, PendingBill
<1>3. ~ view[r].grn.stocked
  BY <1>2 DEF Committed, StockedHasBill
<1>4. ASSUME view[r].accepted > 0
      PROVE  \E a : view[r].stock = {a} /\ a.by = r /\ a.grn = target[r]
  <2>1. PICK a \in view[r].stock : TRUE
    BY <1>3, <1>4 DEF Pending, Progress, Late, TypeOK, Views
  <2>2. a.by = r /\ a.grn = target[r] /\ \A c \in view[r].stock : a = c
    BY <2>1 DEF Pending, PendingStock
  <2>3. view[r].stock = {a}
    BY <2>1, <2>2
  <2> QED BY <2>2, <2>3
<1>5. view[r].accepted <= 0 => view[r].stock = {}
  <2>1. view[r].accepted \in Int
    BY DEF TypeOK, Views
  <2>2. \A a \in view[r].stock : view[r].accepted > 0
    BY DEF Pending, PendingStock
  <2> QED BY <2>1, <2>2
<1> QED
  BY <1>2, <1>4, <1>5 DEF Pending, PendingMoves

(* The commit keeps the invariant. *)
LEMMA CommitStep ==
  ASSUME IInv, TypeOK', NEW r \in Requests, Commit(r)
  PROVE  IInv'
<1> USE DEF IInv
<1> DEFINE g == target[r]
<1>1. /\ pc[r] = "commit" /\ UNCHANGED target /\ Goto(r, "done") /\ locks' = LocksWithout(r)
      /\ view' = [view EXCEPT ![r] = Blank]
      /\ stock' = stock \cup view[r].stock /\ ledger' = ledger \cup view[r].moves
      /\ invoices' = invoices \cup view[r].bills
  BY DEF Commit
<1>2. PICK b : /\ view[r].bills = {b} /\ b.by = r /\ b.grn = g /\ <<BillKey(g), r>> \in locks
               /\ b.accepted = view[r].accepted
  <2>1. PICK b : /\ view[r].bills = {b} /\ b.by = r /\ b.grn = g
                 /\ b.accepted = view[r].accepted /\ <<BillKey(b.grn), r>> \in locks
    BY <1>1, AtCommit
  <2> QED BY <2>1
<1>3. /\ \A a \in view[r].stock : a.by = r /\ a.grn = g /\ \A c \in view[r].stock : a = c
      /\ view[r].stock # {} <=> b.accepted > 0
  <2>1. view[r].accepted > 0 => \E a : view[r].stock = {a} /\ a.by = r /\ a.grn = g
    BY <1>1, AtCommit
  <2>2. view[r].accepted <= 0 => view[r].stock = {}
    BY <1>1, AtCommit
  <2>3. view[r].accepted \in Int
    BY DEF TypeOK, Views
  <2> QED BY <1>2, <2>1, <2>2, <2>3
<1>4. /\ \A c \in invoices : c.grn # g
      /\ \A m \in view[r].moves : m.by = r /\ view[r].stock # {}
  BY <1>1, AtCommit
<1>5. \A q \in Requests \ {r} : pc'[q] = pc[q] /\ view'[q] = view[q]
  BY <1>1 DEF Goto, TypeOK
<1>6. /\ pc'[r] = "done" /\ view'[r].stock = {} /\ view'[r].moves = {} /\ view'[r].bills = {}
      /\ ~ view'[r].grn.stocked
  BY <1>1 DEF Goto, TypeOK, Blank, NewGrn
<1>7. Exclusive' /\ \A thing : \A q \in Requests \ {r} :
                      <<thing, q>> \in locks => <<thing, q>> \in locks'
  BY <1>1, DropExclusive
<1>8. \A c \in stock : c.by \in Requests \ {r} /\ c.by # r
  BY <1>1 DEF Committed, Whole, TypeOK, Items
<1>9. view[r].stock # {} /\ SerialOf[g] # NoSerial =>
        /\ <<SerialKey(SerialOf[g]), r>> \in locks
        /\ \A c \in stock : SerialOf[c.grn] # SerialOf[g]
  BY <1>3 DEF Pending, PendingStock
<1>10. Finite'
  <2>1. IsFiniteSet(invoices')
    BY <1>1, <1>2, FS_AddElement DEF Finite
  <2> QED
    BY <1>5, <1>6, <2>1, FS_EmptySet DEF Finite
<1>11. PendingStock'
  <2>1. ASSUME NEW q \in Requests \ {r}, NEW c \in view[q].stock, SerialOf[c.grn] # NoSerial,
               view[r].stock # {}
        PROVE  SerialOf[c.grn] # SerialOf[g]
    <3>1. <<SerialKey(SerialOf[c.grn]), q>> \in locks
      BY <2>1 DEF Pending, PendingStock
    <3> QED
      BY <1>9, <2>1, <3>1 DEF Exclusive
  <2> QED
    BY <1>1, <1>3, <1>5, <1>6, <1>7, <2>1 DEF Pending, PendingStock
<1>12. PendingMoves'
  BY <1>5, <1>6 DEF Pending, PendingMoves
<1>13. PendingBill'
  <2>1. ASSUME NEW q \in Requests \ {r}, NEW c \in view[q].bills
        PROVE  c.grn # g
    <3>1. <<BillKey(c.grn), q>> \in locks
      BY DEF Pending, PendingBill
    <3> QED
      BY <1>2, <3>1 DEF Exclusive
  <2> QED
    BY <1>1, <1>2, <1>5, <1>6, <1>7, <2>1 DEF Pending, PendingBill
<1>14. Progress'
  BY <1>5, <1>6 DEF Pending, Progress, Late, Heavy
<1>15. StockedHasBill'
  <2>1. \A h \in Grns \ {g} : grn'[h].stocked = grn[h].stocked
    BY DEF Commit, TypeOK
  <2> QED
    BY <1>1, <1>2, <1>5, <1>6, <2>1 DEF Committed, StockedHasBill
<1>16. BilledOnce'
  BY <1>1, <1>2, <1>4 DEF Committed, BilledOnce
<1>17. SerialOnce'
  BY <1>1, <1>3, <1>9 DEF Committed, SerialOnce
<1>18. Whole'
  <2>1. \A c \in stock' : pc'[c.by] = "done"
    BY <1>1, <1>3, <1>5, <1>6, <1>8 DEF Committed, Whole
  <2>2. \A c \in stock' :
          \E d \in invoices' : d.by = c.by /\ d.grn = c.grn /\ d.accepted > 0
    BY <1>1, <1>2, <1>3 DEF Committed, Whole
  <2>3. \A d \in invoices' : d.accepted > 0 => \E c \in stock' : c.by = d.by
    BY <1>1, <1>2, <1>3 DEF Committed, Whole
  <2>4. \A m \in ledger' : \E c \in stock' : c.by = m.by
    BY <1>1, <1>3, <1>4 DEF Committed, Whole
  <2>5. \A c, d \in stock' : c.by = d.by => c = d
    BY <1>1, <1>3, <1>8 DEF Committed, Whole
  <2> QED
    BY <2>1, <2>2, <2>3, <2>4, <2>5 DEF Whole
<1> QED
  BY <1>7, <1>10, <1>11, <1>12, <1>13, <1>14, <1>15, <1>16, <1>17, <1>18 DEF Pending, Committed

(* The initial state satisfies the invariant. *)
LEMMA IInit == Init => IInv
<1> SUFFICES ASSUME Init PROVE IInv
  OBVIOUS
<1>1. \A r \in Requests : /\ pc[r] = "new" /\ view[r].stock = {} /\ view[r].moves = {}
                          /\ view[r].bills = {} /\ ~ view[r].grn.stocked
  BY DEF Init, Blank, NewGrn
<1>2. \A g \in Grns : ~ grn[g].stocked
  <2>1. \A g \in Grns : grn[g] \in
          {NewGrn, [NewGrn EXCEPT !.status = "PENDING_QC"]} \cup
            {[NewGrn EXCEPT !.status = "QC_PASSED", !.accepted = q] : q \in Quantities}
    BY DEF Init
  <2>2. ~ NewGrn.stocked /\ ~ [NewGrn EXCEPT !.status = "PENDING_QC"].stocked
    BY DEF NewGrn
  <2>3. ASSUME NEW q \in Quantities
        PROVE  ~ [NewGrn EXCEPT !.status = "QC_PASSED", !.accepted = q].stocked
    BY DEF NewGrn
  <2> QED
    BY <2>1, <2>2, <2>3
<1>3. Finite
  BY <1>1, FS_EmptySet DEF Init, Finite
<1>4. Pending
  BY <1>1 DEF Pending, PendingStock, PendingMoves, PendingBill, Progress, Late, Heavy
<1>5. Committed
  BY <1>1, <1>2 DEF Init, Committed, StockedHasBill, BilledOnce, Whole, SerialOnce
<1> QED
  BY <1>3, <1>4, <1>5, TypeInit DEF Init, IInv, Exclusive

(* Every step keeps it. *)
LEMMA INext == IInv /\ [Next]_vars => IInv'
<1> SUFFICES ASSUME IInv, [Next]_vars PROVE IInv'
  OBVIOUS
<1>1. TypeOK'
  BY TypeNext DEF IInv
<1>2. CASE UNCHANGED vars
  <2>1. Pending' /\ Committed'
    BY <1>2 DEF IInv, vars, tables, Pending, PendingStock, PendingMoves, PendingBill, Progress,
       Committed, StockedHasBill, BilledOnce, Whole, SerialOnce
  <2> QED
    BY <1>1, <1>2, <2>1 DEF IInv, vars, tables, Finite, Exclusive
<1>3. ASSUME NEW r \in Requests, Step(r)
      PROVE  IInv'
  <2> DEFINE g == target[r]
  <2>0. TypeOK /\ Exclusive /\ view[r] \in Views /\ g \in Grns
    BY DEF IInv, TypeOK
  <2>1. CASE Load(r)
    <3>1. /\ pc[r] = "new" /\ UNCHANGED <<tables, locks, target>>
          /\ view' = [view EXCEPT ![r].grn = grn[g]]
      BY <2>1 DEF Load
    <3>2. PICK step \in (Ops \ {"accept"}) \cup {"claim", "validate"} : Goto(r, step)
      BY <2>1 DEF Load
    <3>3. step \in Steps /\ step \notin Late
      BY <3>2 DEF Ops, Steps, Short, Late
    <3>4. /\ \A q \in Requests \ {r} : view'[q] = view[q]
          /\ view'[r].stock = view[r].stock /\ view'[r].moves = view[r].moves
          /\ view'[r].bills = view[r].bills /\ view'[r].grn.stocked = grn[g].stocked
      BY <2>0, <3>1 DEF TypeOK, Views
    <3>5. locks \subseteq locks' /\ Exclusive'
      BY <2>0, <3>1 DEF Exclusive
    <3> QED
      BY <1>1, <3>1, <3>2, <3>3, <3>4, <3>5, Quiet DEF Ended, Late, Heavy
  <2>2. CASE Write(r)
    <3>1. /\ pc[r] \in Short /\ Goto(r, "done") /\ view' = [view EXCEPT ![r] = Blank]
          /\ UNCHANGED <<stock, ledger, invoices, locks, target>>
      BY <2>2 DEF Write, Short, Ops
    <3>2. \A h \in Grns : grn'[h].stocked = grn[h].stocked
      BY <2>0, <2>2, WriteType
    <3>3. locks' = LocksWithout(r)
      BY <2>0, <3>1 DEF TypeOK, LocksWithout
    <3> QED
      BY <1>1, <3>1, <3>2, <3>3, Ending DEF Ended, Short, Ops
  <2>3. CASE Validate(r)
    <3>1. /\ pc[r] = "validate" /\ UNCHANGED <<tables, locks, target>> /\ Goto(r, "claim")
          /\ view' = [view EXCEPT ![r].check = "VALIDATED", ![r].accepted = grn[g].accepted]
      BY <2>3 DEF Validate
    <3>2. /\ \A q \in Requests \ {r} : view'[q] = view[q]
          /\ view'[r].stock = view[r].stock /\ view'[r].moves = view[r].moves
          /\ view'[r].bills = view[r].bills /\ view'[r].grn = view[r].grn
      BY <2>0, <3>1 DEF TypeOK, Views
    <3> QED
      BY <1>1, <2>0, <3>1, <3>2, Quiet DEF Ended, Late, Heavy, Steps, Exclusive
  <2>4. CASE Claim(r)
    <3>1. /\ pc[r] = "claim" /\ UNCHANGED <<tables, target, view>> /\ Goto(r, "read")
          /\ locks' = locks \/ Take(r, {Row(g)})
      BY <2>4 DEF Claim
    <3>2. locks \subseteq locks' /\ Exclusive'
      BY <2>0, <3>1, TakeExclusive DEF Exclusive
    <3> QED
      BY <1>1, <3>1, <3>2, Quiet DEF Ended, Late, Heavy, Steps
  <2>5. CASE ReadOrder(r)
    <3>1. pc[r] = "read" /\ UNCHANGED <<tables, locks, target>> /\ Goto(r, "receive")
      BY <2>5 DEF ReadOrder
    <3>2. /\ \A q \in Requests \ {r} : view'[q] = view[q]
          /\ view'[r].stock = view[r].stock /\ view'[r].moves = view[r].moves
          /\ view'[r].bills = view[r].bills /\ view'[r].grn = view[r].grn
      BY <2>0, <2>5 DEF ReadOrder, TypeOK, Views
    <3> QED
      BY <1>1, <2>0, <3>1, <3>2, Quiet DEF Ended, Late, Heavy, Steps, Exclusive
  <2>6. CASE Receive(r)
    <3>1. /\ pc[r] = "receive" /\ UNCHANGED <<tables, target, view>> /\ Goto(r, "status")
          /\ Take(r, {OrderRow(PoOf[g])})
      BY <2>6 DEF Receive
    <3> QED
      BY <1>1, <2>0, <3>1, TakeExclusive, Quiet DEF Ended, Late, Heavy, Steps
  <2>7. CASE SetStatus(r)
    <3>1. /\ pc[r] = "status" /\ UNCHANGED <<tables, target, view>> /\ Goto(r, "cost")
          /\ Take(r, {Row(g)})
      BY <2>7 DEF SetStatus
    <3> QED
      BY <1>1, <2>0, <3>1, TakeExclusive, Quiet DEF Ended, Late, Heavy, Steps
  <2>a. ASSUME NEW t \in Sheets, NEW set, NEW skip, ReadSum(r, t, set, skip)
        PROVE  /\ UNCHANGED <<tables, locks, target>> /\ (Goto(r, set) \/ Goto(r, skip))
               /\ \A q \in Requests \ {r} : view'[q] = view[q]
               /\ view'[r].stock = view[r].stock /\ view'[r].moves = view[r].moves
               /\ view'[r].bills = view[r].bills /\ view'[r].grn = view[r].grn
               /\ view'[r].accepted = view[r].accepted
    BY <2>0, <2>a DEF ReadSum, TypeOK, Views
  <2>8. CASE ReadCost(r)
    <3>1. pc[r] = "cost" /\ "cost" \in Sheets
      BY <2>8 DEF ReadCost, Sheets
    <3>2. \/ ReadSum(r, "cost", "average", "stock")
          \/ Goto(r, "stock") /\ UNCHANGED <<tables, locks, target, view>>
      BY <2>8 DEF ReadCost
    <3>3. /\ UNCHANGED <<tables, locks, target>>
          /\ \A q \in Requests \ {r} : view'[q] = view[q]
          /\ view'[r].stock = view[r].stock /\ view'[r].moves = view[r].moves
          /\ view'[r].bills = view[r].bills /\ view'[r].grn = view[r].grn
      BY <2>a, <3>1, <3>2
    <3>4. PICK step \in {"average", "stock"} : Goto(r, step)
      BY <2>a, <3>1, <3>2
    <3> QED
      BY <1>1, <2>0, <3>1, <3>3, <3>4, Quiet DEF Ended, Late, Heavy, Steps, Exclusive
  <2>9. CASE SetCost(r)
    <3>1. pc[r] = "average" /\ UNCHANGED <<tables, target, view>> /\ Goto(r, "stock")
      BY <2>9 DEF SetCost
    <3>2. locks \subseteq locks' /\ Exclusive'
      BY <2>0, <2>9, TakeExclusive DEF SetCost, LockSum
    <3> QED
      BY <1>1, <3>1, <3>2, Quiet DEF Ended, Late, Heavy, Steps
  <2>10. CASE CreateStock(r)
    <3>1. CASE view[r].grn.stocked \/ view[r].accepted <= 0
      <4>1. pc[r] = "stock" /\ UNCHANGED <<tables, locks, target, view>> /\ Goto(r, "count")
        BY <2>10, <3>1 DEF CreateStock
      <4> QED
        BY <1>1, <2>0, <3>1, <4>1, Quiet DEF Ended, Late, Heavy, Steps, Exclusive
    <3> QED
      BY <1>1, <2>10, <3>1, StockStep
  <2>11. CASE ReadSummary(r)
    <3>1. pc[r] = "summary" /\ ReadSum(r, "summary", "total", "count") /\ "summary" \in Sheets
      BY <2>11 DEF ReadSummary, Sheets
    <3>2. PICK step \in {"total", "count"} : Goto(r, step)
      BY <2>a, <3>1
    <3> QED
      BY <1>1, <2>0, <2>a, <3>1, <3>2, Quiet DEF Ended, Late, Heavy, Steps, Exclusive
  <2>12. CASE SetSummary(r)
    <3>1. pc[r] = "total" /\ UNCHANGED <<tables, target>> /\ Goto(r, "movement")
      BY <2>12 DEF SetSummary
    <3>2. locks \subseteq locks' /\ Exclusive'
      BY <2>0, <2>12, TakeExclusive DEF SetSummary, LockSum
    <3>3. /\ \A q \in Requests \ {r} : view'[q] = view[q]
          /\ view'[r].stock = view[r].stock /\ view'[r].moves = view[r].moves
          /\ view'[r].bills = view[r].bills /\ view'[r].grn = view[r].grn
          /\ view'[r].accepted = view[r].accepted
      BY <2>0, <2>12 DEF SetSummary, TypeOK, Views
    <3> QED
      BY <1>1, <3>1, <3>2, <3>3, Quiet DEF Ended, Late, Heavy, Steps
  <2>13. CASE Move(r)
    BY <1>1, <2>13, MoveStep
  <2>14. CASE CountBills(r)
    <3>1. pc[r] = "count" /\ UNCHANGED <<tables, locks, target>> /\ Goto(r, "invoice")
      BY <2>14 DEF CountBills
    <3>2. /\ \A q \in Requests \ {r} : view'[q] = view[q]
          /\ view'[r].stock = view[r].stock /\ view'[r].moves = view[r].moves
          /\ view'[r].bills = view[r].bills /\ view'[r].grn = view[r].grn
          /\ view'[r].accepted = view[r].accepted
      BY <2>0, <2>14 DEF CountBills, TypeOK, Views
    <3> QED
      BY <1>1, <2>0, <3>1, <3>2, Quiet DEF Ended, Late, Heavy, Steps, Exclusive
  <2>15. CASE Bill(r)
    BY <1>1, <2>15, BillStep
  <2>16. CASE Commit(r)
    BY <1>1, <2>16, CommitStep
  <2>17. CASE Fail(r)
    <3>1. pc[r] \notin Ended /\ Goto(r, "failed") /\ locks' = LocksWithout(r)
          /\ UNCHANGED <<tables, target>> /\ view' = [view EXCEPT ![r] = Blank]
      BY <2>17 DEF Fail, Active
    <3> QED
      BY <1>1, <3>1, Ending DEF Ended, tables
  <2> QED
    BY <1>3, <2>1, <2>2, <2>3, <2>4, <2>5, <2>6, <2>7, <2>8, <2>9, <2>10, <2>11, <2>12, <2>13,
       <2>14, <2>15, <2>16, <2>17 DEF Step
<1> QED
  BY <1>2, <1>3 DEF Next, AllEnded

(* The invariant holds throughout. *)
THEOREM Invariance == Spec => []IInv
  BY IInit, INext, PTL DEF Spec

-----------------------------------------------------------------------------
(* Tables and requests have their types. *)
THEOREM TypeCorrect == Spec => []TypeOK
<1>1. IInv => TypeOK
  BY DEF IInv
<1> QED
  BY <1>1, Invariance, PTL

(* The goods of a GRN enter stock at most once, and no serial number       *)
(* twice, however many requests accept it at the same time.                *)
THEOREM GoodsStockedOnce == Spec => []StockedOnce
<1>1. IInv => StockedOnce
  <2> SUFFICES ASSUME IInv, NEW a \in stock, NEW b \in stock, a # b
               PROVE  /\ a.grn # b.grn
                      /\ SerialOf[a.grn] = SerialOf[b.grn] => SerialOf[a.grn] = NoSerial
    BY DEF StockedOnce
  <2>1. PICK c \in invoices : c.by = a.by /\ c.grn = a.grn
    BY DEF IInv, Committed, Whole
  <2>2. PICK d \in invoices : d.by = b.by /\ d.grn = b.grn
    BY DEF IInv, Committed, Whole
  <2>3. a.by # b.by
    BY DEF IInv, Committed, Whole
  <2>4. a.grn # b.grn
    BY <2>1, <2>2, <2>3 DEF IInv, Committed, BilledOnce
  <2> QED
    BY <2>4 DEF IInv, Committed, SerialOnce
<1> QED
  BY <1>1, Invariance, PTL

(* A transaction that has committed stock items has committed an invoice   *)
(* for some units, and the other way round; and no movement without them.  *)
THEOREM AcceptancesWhole == Spec => []AcceptIsWhole
<1>1. IInv => AcceptIsWhole
  BY DEF IInv, Committed, Whole, AcceptIsWhole
<1> QED
  BY <1>1, Invariance, PTL

-----------------------------------------------------------------------------
(* Why nothing goes wrong when requests come one at a time: what the only  *)
(* request under way has read is what the tables still hold.               *)
Known     == {"receive", "status", "cost", "average", "stock"} \cup Late
Accepting == {"validate", "claim", "read"} \cup Known
Costed    == {"average", "stock"} \cup Late
Summed    == Late \ {"summary"}

Accepted == {"ACCEPTED", "PUT_AWAY_COMPLETE"}

(* How many stock items a GRN gets. *)
Units(g) == IF SerialOf[g] = NoSerial THEN grn[g].accepted ELSE 1

UpToDate(r) ==
  LET v == view[r] IN
  /\ pc[r] = "new" => v = Blank
  /\ pc[r] \in Short \cup Accepting => v.grn = grn[target[r]]
  /\ pc[r] \in Short => Allowed(pc[r], v.grn.status)
  /\ pc[r] \in Accepting => Allowed("accept", v.grn.status)
  /\ pc[r] \in Accepting => v.check = "NONE" \/ v.accepted = v.grn.accepted
  /\ pc[r] \in Known => v.accepted = v.grn.accepted /\ v.order = order[PoOf[target[r]]]
  /\ pc[r] \in Accepting => v.sums = NoRows \/ (pc[r] \in Costed /\ v.accepted > 0)
  /\ pc[r] \in Costed /\ v.accepted > 0 => v.sums["cost"] = Added(r, "cost")
  /\ pc[r] \in Late => \A a \in v.stock : a.count = Units(target[r])
  /\ pc[r] \in Summed /\ v.accepted > 0 => v.sums["summary"] = Added(r, "summary")
  /\ pc[r] = "commit" => \A b \in v.bills : b.quantity = v.accepted

Current == \A r \in Requests : UpToDate(r)

(* Goods in stock are of GRNs that stay accepted; a sheet has one row.     *)
Rows ==
  /\ \A a \in stock : grn[a.grn].status \in Accepted /\ a.count = Units(a.grn)
  /\ \A g \in Grns : grn[g].stocked => grn[g].status \in Accepted
  /\ \A t \in Sheets : \A a, b \in sums[t] : a = b

(* The sheets count what was accepted of the GRNs in stock. *)
InStock == [item \in stock |-> grn[item.grn].accepted]

Books ==
  /\ IsFiniteSet(stock)
  /\ LinesAgree
  /\ \A t \in Sheets : SumFunctionOnSet(Total(t), sums[t]) = SumFunctionOnSet(InStock, stock)

AloneInv == OneActive /\ Current /\ Rows /\ Books

(* Every request is at one of these steps. *)
LEMMA StepsAre == Steps = {"new"} \cup Short \cup Accepting \cup Ended
BY DEF Steps, Short, Ops, Accepting, Known, Late, Ended

LEMMA Apart ==
  /\ Short \cap Accepting = {} /\ Short \cap Ended = {} /\ Accepting \cap Ended = {}
  /\ "new" \notin Short \cup Accepting \cup Ended
  /\ Late \subseteq Costed /\ Costed \subseteq Known /\ Known \subseteq Accepting
  /\ Summed \subseteq Late /\ "commit" \in Summed
BY DEF Short, Ops, Accepting, Known, Late, Ended, Costed, Summed

(* Tables that have not been written are as they were; so are those in     *)
(* which only a GRN that has nothing in stock was.                         *)
LEMMA BooksStay ==
  ASSUME TypeOK, Books, UNCHANGED <<order, stock, sums, invoices>>,
         \A a \in stock : grn'[a.grn].accepted = grn[a.grn].accepted
  PROVE  Books'
<1>1. InStock' = InStock
  BY DEF InStock
<1>2. \A t \in Sheets : Total(t)' = Total(t)
  BY DEF Total
<1>3. LinesAgree'
  BY DEF Books, LinesAgree, InvoicedFor, Quantity
<1> QED BY <1>1, <1>2, <1>3 DEF Books

(* A request that has ended, or not begun, knows nothing that could change. *)
LEMMA RestUpToDate ==
  ASSUME Current, NEW q \in Requests, pc[q] \in Ended \cup {"new"},
         pc'[q] = pc[q], view'[q] = view[q]
  PROVE  UpToDate(q)'
BY Apart DEF Current, UpToDate

LEMMA EndedUpToDate ==
  ASSUME NEW r \in Requests, pc'[r] \in Ended
  PROVE  UpToDate(r)'
BY Apart DEF UpToDate

(* While a request is under way, no other is. *)
LEMMA OnlyOne ==
  ASSUME TypeOK, NEW r \in Requests, OneActive, r \in Active
  PROVE  \A q \in Requests \ {r} : pc[q] \in Ended \cup {"new"}
BY DEF OneActive, Active

(* A step that writes no table keeps everything if it keeps its request    *)
(* up to date.                                                             *)
LEMMA AloneQuiet ==
  ASSUME TypeOK, AloneInv, OneActive', NEW r \in Requests, r \in Active \/ r \in Active',
         UNCHANGED <<tables, target>>, UpToDate(r)',
         \A q \in Requests \ {r} : pc'[q] = pc[q] /\ view'[q] = view[q]
  PROVE  AloneInv'
<1>1. \A q \in Requests \ {r} : pc[q] \in Ended \cup {"new"}
  BY DEF AloneInv, OneActive, Active
<1>2. Current'
  BY <1>1, RestUpToDate DEF AloneInv, Current
<1>3. Rows'
  BY DEF AloneInv, Rows, Units, tables
<1>4. Books'
  BY BooksStay DEF AloneInv, tables
<1> QED BY <1>2, <1>3, <1>4 DEF AloneInv

(* A sheet of one row, or none, never makes scalar_one_or_none raise.      *)
LEMMA AtMostOne ==
  ASSUME NEW S, \A a, b \in S : a = b
  PROVE  ~ (Cardinality(S) > 1)
<1>1. CASE S = {}
  BY <1>1, FS_EmptySet
<1>2. CASE S # {}
  <2>1. PICK a : S = {a}
    BY <1>2
  <2>2. Cardinality(S) = 1
    BY <2>1, FS_Singleton, Zenon
  <2> QED BY <2>2
<1> QED BY <1>1, <1>2

(* Added depends on the accepted quantity and the sheet only. *)
LEMMA AddedStays ==
  ASSUME NEW r, NEW t, sums' = sums, view'[r].accepted = view[r].accepted
  PROVE  Added(r, t)' = Added(r, t)
BY DEF Added

(* What a request is on its way to keeps it up to date, step by step.      *)
LEMMA LoadAlone ==
  ASSUME TypeOK, AloneInv, NEW r \in Requests, Load(r)
  PROVE  UpToDate(r)'
<1> DEFINE g == target[r]
<1>0. pc[r] = "new" /\ view[r] = Blank /\ g \in Grns
  BY DEF Load, AloneInv, Current, UpToDate, TypeOK
<1>1. /\ UNCHANGED <<tables, target>>
      /\ view' = [view EXCEPT ![r].grn = grn[g]]
  BY DEF Load
<1>2. view'[r].grn = grn'[g] /\ view'[r].check = "NONE" /\ view'[r].sums = NoRows
  BY <1>0, <1>1 DEF TypeOK, tables, Blank
<1>3. PICK o \in Ops : /\ Allowed(o, grn[g].status)
                        /\ \/ o # "accept" /\ Goto(r, o)
                           \/ o = "accept" /\ Goto(r, "claim")
                           \/ o = "accept" /\ ~ grn[g].forced /\ Goto(r, "validate")
  BY DEF Load
<1>4. CASE pc'[r] \in Short /\ Allowed(pc'[r], grn[g].status)
  BY <1>1, <1>2, <1>4, Apart DEF UpToDate, tables
<1>5. CASE pc'[r] \in {"claim", "validate"} /\ Allowed("accept", grn[g].status)
  <2>1. pc'[r] \notin Short \cup Known \cup {"new"} /\ pc'[r] \in Accepting
    BY <1>5 DEF Short, Ops, Accepting, Known, Late
  <2> QED BY <1>1, <1>2, <1>5, <2>1, Apart DEF UpToDate, tables
<1> QED BY <1>3, <1>4, <1>5 DEF Goto, TypeOK, Short

(* The steps before the sheets are read. *)
LEMMA EarlyAlone ==
  ASSUME TypeOK, AloneInv, NEW r \in Requests,
         Validate(r) \/ Claim(r) \/ ReadOrder(r) \/ Receive(r) \/ SetStatus(r)
  PROVE  UpToDate(r)'
<1> DEFINE g == target[r]
<1>0. /\ g \in Grns /\ view[r] \in Views
      /\ UNCHANGED <<tables, target>>
      /\ pc[r] \in {"validate", "claim", "read", "receive", "status"}
      /\ pc'[r] \in {"claim", "read", "receive", "status", "cost"}
  BY DEF TypeOK, Validate, Claim, ReadOrder, Receive, SetStatus, Goto
<1>1. pc[r] \in Accepting /\ pc'[r] \in Accepting
  BY <1>0 DEF Accepting, Known
<1>2. UpToDate(r)
  BY DEF AloneInv, Current
<1>3. /\ view[r].grn = grn[g] /\ Allowed("accept", view[r].grn.status)
      /\ view[r].check = "NONE" \/ view[r].accepted = view[r].grn.accepted
      /\ view[r].sums = NoRows
  <2>1. pc[r] \notin Costed
    BY <1>0 DEF Costed, Late
  <2> QED BY <1>1, <1>2, <2>1 DEF UpToDate
<1>4. pc'[r] \notin Costed \cup Short \cup {"new"}
  BY <1>0 DEF Costed, Late, Short, Ops
<1>5. SUFFICES /\ view'[r].grn = view[r].grn /\ view'[r].sums = view[r].sums
               /\ view'[r].check = "NONE" \/ view'[r].accepted = view[r].grn.accepted
               /\ pc'[r] \in Known => /\ view'[r].accepted = view[r].grn.accepted
                                      /\ view'[r].order = order[PoOf[g]]
  BY <1>0, <1>1, <1>3, <1>4, Apart DEF UpToDate, tables
<1>6. CASE Validate(r)
  <2>1. view' = [view EXCEPT ![r].check = "VALIDATED", ![r].accepted = grn[g].accepted]
        /\ pc'[r] = "claim"
    BY <1>6 DEF Validate, Goto, TypeOK
  <2>2. /\ view'[r].grn = view[r].grn /\ view'[r].accepted = grn[g].accepted
        /\ view'[r].sums = view[r].sums
    BY <1>0, <2>1 DEF TypeOK, Views
  <2> QED BY <1>3, <2>1, <2>2 DEF Known, Late
<1>7. CASE Claim(r)
  BY <1>3, <1>7 DEF Claim, Goto, TypeOK, Known, Late
<1>8. CASE ReadOrder(r)
  <2>1. /\ view'[r].grn = view[r].grn /\ view'[r].order = order[PoOf[g]]
        /\ view'[r].sums = view[r].sums
        /\ view'[r].accepted = IF view[r].check = "NONE" THEN grn[g].accepted ELSE view[r].accepted
    BY <1>0, <1>8 DEF ReadOrder, TypeOK, Views
  <2> QED BY <1>3, <2>1
<1>9. CASE Receive(r) \/ SetStatus(r)
  <2>1. view' = view /\ pc[r] \in Known
    BY <1>9 DEF Receive, SetStatus, Known
  <2> QED BY <1>2, <1>3, <2>1 DEF UpToDate
<1> QED BY <1>6, <1>7, <1>8, <1>9

(* Two sheets are read, each when it has a row or none. *)
LEMMA SumAlone ==
  ASSUME TypeOK, AloneInv, NEW r \in Requests, NEW t \in Sheets, NEW set, NEW skip,
         ReadSum(r, t, set, skip)
  PROVE  /\ Goto(r, set) /\ UNCHANGED <<tables, locks, target>>
         /\ view' = [view EXCEPT ![r].sums[t] = Added(r, t)]
BY AtMostOne DEF AloneInv, Rows, ReadSum

(* A step of an acceptance that has read its order leaves that as it was.  *)
LEMMA KnownAlone ==
  ASSUME AloneInv, NEW r \in Requests, pc[r] \in Known, pc'[r] \in Known,
         UNCHANGED <<tables, target>>,
         view'[r].grn = view[r].grn, view'[r].accepted = view[r].accepted,
         view'[r].order = view[r].order, view'[r].check = view[r].check,
         view'[r].sums = NoRows \/ (pc'[r] \in Costed /\ view[r].accepted > 0),
         pc'[r] \in Costed /\ view[r].accepted > 0 => view'[r].sums["cost"] = Added(r, "cost"),
         pc'[r] \in Late => \A a \in view'[r].stock : a.count = Units(target[r]),
         pc'[r] \in Summed /\ view[r].accepted > 0 =>
           view'[r].sums["summary"] = Added(r, "summary"),
         pc'[r] = "commit" => \A b \in view'[r].bills : b.quantity = view[r].accepted
  PROVE  UpToDate(r)'
<1>1. UpToDate(r) /\ pc[r] \in Accepting /\ pc'[r] \in Accepting
  BY Apart DEF AloneInv, Current
<1>2. pc'[r] # "new" /\ pc'[r] \notin Short
  BY <1>1, Apart
<1>3. Added(r, "cost")' = Added(r, "cost") /\ Added(r, "summary")' = Added(r, "summary")
  BY AddedStays DEF tables
<1>4. Units(target[r])' = Units(target[r])
  BY DEF Units, tables
<1> QED BY <1>1, <1>2, <1>3, <1>4 DEF UpToDate, tables

LEMMA LateAlone ==
  ASSUME IInv, TypeOK, AloneInv, NEW r \in Requests,
         \/ ReadCost(r) \/ SetCost(r) \/ CreateStock(r) \/ ReadSummary(r) \/ SetSummary(r)
         \/ Move(r) \/ CountBills(r) \/ Bill(r)
  PROVE  UpToDate(r)'
<1> DEFINE g == target[r]
<1>0. g \in Grns /\ view[r] \in Views /\ UpToDate(r)
  BY DEF TypeOK, AloneInv, Current
<1>a. /\ view[r].accepted \in Int /\ (pc[r] \in Heavy => view[r].accepted > 0)
      /\ view[r].accepted <= 0 => view[r].stock = {}
  <2>1. pc[r] \in Heavy => view[r].stock # {}
    BY DEF IInv, Pending, Progress
  <2>2. \A a \in view[r].stock : view[r].accepted > 0
    BY DEF IInv, Pending, PendingStock
  <2>3. view[r].accepted \in Int
    BY <1>0 DEF Views
  <2> QED BY <2>1, <2>2, <2>3
<1>b. /\ view[r].sums = NoRows \/ (pc[r] \in Costed /\ view[r].accepted > 0)
      /\ pc[r] \in Accepting
  BY <1>0 DEF UpToDate, ReadCost, SetCost, CreateStock, ReadSummary, SetSummary, Move, CountBills,
              Bill, Accepting, Known, Late
<1>1. CASE ReadCost(r)
  <2>1. /\ pc[r] = "cost" /\ UNCHANGED <<tables, target>> /\ pc'[r] \in {"average", "stock"}
        /\ \/ /\ view[r].accepted > 0
              /\ view' = [view EXCEPT ![r].sums["cost"] = Added(r, "cost")]
           \/ ~ (view[r].accepted > 0) /\ view' = view
    <3>1. CASE view[r].accepted > 0
      <4>1. ReadSum(r, "cost", "average", "stock") /\ pc[r] = "cost" /\ "cost" \in Sheets
        BY <1>1, <3>1 DEF ReadCost, Sheets
      <4> QED BY <3>1, <4>1, SumAlone DEF Goto, TypeOK
    <3>2. CASE ~ (view[r].accepted > 0)
      BY <1>1, <3>2 DEF ReadCost, Goto, TypeOK
    <3> QED BY <3>1, <3>2
  <2>2. /\ view'[r].grn = view[r].grn /\ view'[r].accepted = view[r].accepted
        /\ view'[r].order = view[r].order /\ view'[r].check = view[r].check
        /\ view[r].accepted > 0 => view'[r].sums["cost"] = Added(r, "cost")
        /\ ~ (view[r].accepted > 0) => view'[r].sums = view[r].sums
    BY <1>0, <2>1 DEF TypeOK, Views, Sheets
  <2>3. pc[r] \in Known /\ pc'[r] \in Known \ Late /\ pc'[r] \in Costed
    BY <2>1 DEF Known, Late, Costed
  <2>4. ~ (view[r].accepted > 0) => view[r].sums = NoRows
    BY <1>b
  <2> QED BY <2>1, <2>2, <2>3, <2>4, Apart, KnownAlone
<1>2. CASE SetCost(r)
  <2>1. pc[r] = "average" /\ pc'[r] = "stock" /\ UNCHANGED <<tables, target, view>>
    BY <1>2 DEF SetCost, Goto, TypeOK
  <2>2. pc[r] \in Costed \ Late /\ pc'[r] \in Costed \ Late
    BY <2>1 DEF Costed, Late
  <2> QED BY <1>0, <1>b, <2>1, <2>2, Apart, KnownAlone DEF UpToDate
<1>3. CASE CreateStock(r)
  <2>1. pc[r] = "stock" /\ pc[r] \in Costed \ Late /\ UNCHANGED <<tables, target>>
    BY <1>3 DEF CreateStock, Costed, Late
  <2>2. ~ view[r].grn.stocked
    <3>1. view[r].grn = grn[g] /\ Allowed("accept", grn[g].status)
      BY <1>0, <2>1, Apart DEF UpToDate
    <3> QED BY <1>0, <3>1 DEF Allowed, AloneInv, Rows, Accepted
  <2>3. view[r].accepted = grn[g].accepted
        /\ (view[r].accepted > 0 => view[r].sums["cost"] = Added(r, "cost"))
    BY <1>0, <2>1, Apart DEF UpToDate
  <2>4. CASE view[r].accepted <= 0
    <3>1. pc'[r] = "count" /\ view' = view /\ pc'[r] \in Late /\ pc'[r] # "commit"
      BY <1>3, <2>4 DEF CreateStock, Goto, TypeOK, Late
    <3>2. view[r].stock = {}
      BY <1>a, <2>4
    <3> QED BY <1>a, <1>b, <2>1, <2>4, <3>1, <3>2, Apart, KnownAlone
  <2>5. CASE ~ (view[r].accepted <= 0)
    <3> DEFINE item ==
          [grn |-> g, count |-> IF SerialOf[g] = NoSerial THEN view[r].accepted ELSE 1, by |-> r]
    <3>1. pc'[r] = "summary" /\ view' = [view EXCEPT ![r].stock = {item}]
      BY <1>3, <2>2, <2>5 DEF CreateStock, Goto, TypeOK
    <3>2. item.count = Units(g)
      BY <2>3 DEF Units
    <3> HIDE DEF item
    <3>3. /\ view'[r].grn = view[r].grn /\ view'[r].accepted = view[r].accepted
          /\ view'[r].order = view[r].order /\ view'[r].check = view[r].check
          /\ view'[r].sums = view[r].sums /\ view'[r].stock = {item}
      BY <1>0, <3>1 DEF TypeOK, Views
    <3>4. pc'[r] \in Late \ Summed /\ pc'[r] # "commit"
      BY <3>1 DEF Late, Summed
    <3> QED BY <1>a, <1>b, <2>1, <2>3, <2>5, <3>2, <3>3, <3>4, Apart, KnownAlone
  <2> QED BY <2>4, <2>5
<1>4. CASE ReadSummary(r)
  <2>1. /\ pc[r] = "summary" /\ pc'[r] = "total" /\ UNCHANGED <<tables, target>>
        /\ view' = [view EXCEPT ![r].sums["summary"] = Added(r, "summary")]
    BY <1>4, SumAlone DEF ReadSummary, Sheets, Goto, TypeOK
  <2>2. /\ view'[r].grn = view[r].grn /\ view'[r].accepted = view[r].accepted
        /\ view'[r].order = view[r].order /\ view'[r].check = view[r].check
        /\ view'[r].stock = view[r].stock
        /\ view'[r].sums["cost"] = view[r].sums["cost"]
        /\ view'[r].sums["summary"] = Added(r, "summary")
    BY <1>0, <2>1 DEF TypeOK, Views, Sheets
  <2>3. pc[r] \in Late /\ pc'[r] \in Late /\ pc'[r] # "commit" /\ pc[r] \in Heavy
    BY <2>1 DEF Late, Heavy
  <2> QED BY <1>0, <1>a, <2>1, <2>2, <2>3, Apart, KnownAlone DEF UpToDate
<1>5. CASE SetSummary(r) \/ Move(r) \/ CountBills(r) \/ Bill(r)
  <2>1. /\ pc[r] \in Summed /\ pc'[r] \in Summed /\ UNCHANGED <<tables, target>>
        /\ pc'[r] = "commit" => Bill(r)
    BY <1>5 DEF SetSummary, Move, CountBills, Bill, Goto, TypeOK, Summed, Late
  <2>2. /\ view'[r].grn = view[r].grn /\ view'[r].accepted = view[r].accepted
        /\ view'[r].order = view[r].order /\ view'[r].check = view[r].check
        /\ view'[r].stock = view[r].stock /\ view'[r].sums = view[r].sums
    <3>1. CASE SetSummary(r) \/ CountBills(r)
      <4>1. PICK n : view' = [view EXCEPT ![r].number = n]
        BY <3>1 DEF SetSummary, CountBills
      <4> QED BY <1>0, <4>1 DEF TypeOK, Views
    <3>2. CASE Move(r)
      BY <1>0, <3>2 DEF Move, TypeOK, Views
    <3>3. CASE Bill(r)
      BY <1>0, <3>3 DEF Bill, TypeOK, Views
    <3> QED BY <1>5, <3>1, <3>2, <3>3
  <2>3. Bill(r) => \A b \in view'[r].bills : b.quantity = view[r].grn.accepted
    <3>1. NewBill(r).quantity = view[r].grn.accepted
      BY DEF NewBill
    <3>2. Bill(r) => view'[r].bills = {NewBill(r)}
      BY <1>0 DEF Bill, TypeOK, Views
    <3> QED BY <3>1, <3>2
  <2>4. view[r].accepted = view[r].grn.accepted
    BY <1>0, <2>1, Apart DEF UpToDate
  <2> QED BY <1>0, <1>b, <2>1, <2>2, <2>3, <2>4, Apart, KnownAlone DEF UpToDate
<1> QED BY <1>1, <1>2, <1>3, <1>4, <1>5

(* The short endpoints check the status they have loaded; nobody else has  *)
(* changed it when they write, so an accepted GRN stays accepted.          *)
LEMMA WriteAlone ==
  ASSUME TypeOK, AloneInv, OneActive', NEW r \in Requests, Write(r)
  PROVE  AloneInv'
<1> DEFINE g == target[r]
<1>0. /\ g \in Grns /\ pc[r] \in Short /\ pc'[r] = "done" /\ r \in Active
      /\ UNCHANGED <<order, stock, sums, ledger, invoices, target>>
      /\ \A q \in Requests \ {r} : pc'[q] = pc[q] /\ view'[q] = view[q]
  BY DEF TypeOK, Write, Goto, Short, Ops, Active, Ended
<1>1. Allowed(pc[r], grn[g].status)
  BY <1>0 DEF AloneInv, Current, UpToDate
<1>2. \A h \in Grns : grn[h].status \in Accepted =>
        grn'[h].status \in Accepted /\ grn'[h].accepted = grn[h].accepted
  <2>1. SUFFICES ASSUME grn[g].status \in Accepted
                 PROVE  grn'[g].status \in Accepted /\ grn'[g].accepted = grn[g].accepted
    <3>1. \A h \in Grns \ {g} : grn'[h] = grn[h]
      BY DEF Write, TypeOK
    <3> QED BY <3>1
  <2>2. pc[r] \in {"force", "put-away"}
    BY <1>0, <1>1, <2>1 DEF Allowed, Accepted, Short, Ops
  <2>3. CASE pc[r] = "force"
    <3>1. grn' = [grn EXCEPT ![g].forced = TRUE, ![g].check = "SKIPPED"]
      BY <2>3 DEF Write
    <3> QED BY <1>0, <2>1, <3>1 DEF TypeOK, GrnRows
  <2>4. CASE pc[r] = "put-away"
    <3>1. grn' = [grn EXCEPT ![g].status = "PUT_AWAY_COMPLETE"]
      BY <2>4 DEF Write
    <3> QED BY <1>0, <2>1, <3>1 DEF TypeOK, GrnRows, Accepted
  <2> QED BY <2>2, <2>3, <2>4
<1>3. \A h \in Grns : grn'[h].stocked = grn[h].stocked
  BY WriteType
<1>4. \A a \in stock : a.grn \in Grns
  BY DEF TypeOK, Items
<1>5. Rows'
  BY <1>0, <1>2, <1>3, <1>4 DEF AloneInv, Rows, Units
<1>6. Books'
  BY <1>0, <1>2, <1>4, BooksStay DEF AloneInv, Rows
<1>7. Current'
  <2>1. \A q \in Requests \ {r} : pc[q] \in Ended \cup {"new"}
    BY <1>0, OnlyOne DEF AloneInv
  <2>2. UpToDate(r)'
    BY <1>0, EndedUpToDate DEF Ended
  <2> QED BY <1>0, <2>1, <2>2, RestUpToDate DEF AloneInv, Current
<1> QED BY <1>5, <1>6, <1>7 DEF AloneInv

(* The commit adds one invoice and its units to the line; and, if they are *)
(* some, one stock item and the same number of units to both sheets.       *)
LEMMA CommitAlone ==
  ASSUME IInv, IInv', AloneInv, OneActive', NEW r \in Requests, Commit(r)
  PROVE  AloneInv'
<1> DEFINE g == target[r]
           v == view[r]
           n == v.accepted
<1> USE DEF IInv
<1>0. /\ g \in Grns /\ PoOf[g] \in Pos /\ pc[r] = "commit" /\ pc'[r] = "done" /\ r \in Active
      /\ target' = target /\ n \in Int /\ v \in Views /\ grn[g] \in GrnRows
      /\ \A q \in Requests \ {r} : pc'[q] = pc[q] /\ view'[q] = view[q]
  BY ReceiptAssumption DEF TypeOK, Commit, Goto, Active, Ended, Views
<1>1. /\ v.grn = grn[g] /\ n = v.grn.accepted /\ v.order = order[PoOf[g]]
      /\ Allowed("accept", v.grn.status)
      /\ n > 0 => v.sums["cost"] = Added(r, "cost") /\ v.sums["summary"] = Added(r, "summary")
      /\ v.sums = NoRows \/ n > 0
      /\ \A a \in v.stock : a.count = Units(g)
      /\ \A b \in v.bills : b.quantity = n
  <2>1. pc[r] \in Late /\ pc[r] \in Summed
    BY <1>0 DEF Late, Summed
  <2> QED BY <1>0, <2>1, Apart DEF AloneInv, Current, UpToDate
<1>2. PICK b : v.bills = {b} /\ b.by = r /\ b.grn = g /\ b.quantity = n
  <2>1. PICK b : v.bills = {b} /\ b.by = r /\ b.grn = g
    BY <1>0, AtCommit
  <2> QED BY <1>1, <2>1
<1>3. /\ \A a \in v.stock : v.stock = {a} /\ a.by = r /\ a.grn = g /\ a.count = Units(g)
      /\ n > 0 => v.stock # {}
      /\ ~ (n > 0) => v.stock = {}
  <2>1. n > 0 => \E a : v.stock = {a} /\ a.by = r /\ a.grn = g
    BY <1>0, AtCommit
  <2>2. n <= 0 => v.stock = {}
    BY <1>0, AtCommit
  <2> QED BY <1>0, <1>1, <2>1, <2>2
<1>4. \A c \in invoices : c.grn # g
  BY <1>0, AtCommit
<1>5. \A c \in stock : c.grn \in Grns \ {g}
  BY <1>4 DEF Committed, Whole, TypeOK, Items
<1>6. /\ stock' = stock \cup v.stock /\ invoices' = invoices \cup {b}
      /\ grn'[g].status = "ACCEPTED" /\ grn'[g].accepted = n
      /\ \A h \in Grns \ {g} : grn'[h] = grn[h]
  BY <1>0, <1>1, <1>2, <1>3 DEF Commit, TypeOK, GrnRows
<1>7. order'[PoOf[g]] = [received |-> order[PoOf[g]].received + n,
                         status |-> Received(order[PoOf[g]], n).status]
      /\ \A p \in Pos \ {PoOf[g]} : order'[p] = order[p]
  BY <1>0, <1>1 DEF Commit, TypeOK, Received, Changed
<1>9. Current'
  <2>1. \A q \in Requests \ {r} : pc[q] \in Ended \cup {"new"}
    BY <1>0, OnlyOne DEF AloneInv
  <2>2. UpToDate(r)'
    BY <1>0, EndedUpToDate DEF Ended
  <2> QED BY <1>0, <2>1, <2>2, RestUpToDate DEF AloneInv, Current
<1>10. \A h \in Grns : grn'[h].stocked => grn'[h].status \in Accepted
  BY <1>6 DEF AloneInv, Rows, Accepted
<1>11. LinesAgree'
  <2>1. \A p \in Pos : /\ IsFiniteSet({c \in invoices : PoOf[c.grn] = p})
                       /\ order[p].received = InvoicedFor(p)
                       /\ order[p] \in Orders
    BY FS_Subset DEF Finite, TypeOK, AloneInv, Books, LinesAgree
  <2>2. \A c \in invoices : Quantity[c] \in Int /\ Quantity'[c] = Quantity[c]
    BY <1>6 DEF Quantity, TypeOK, Bills
  <2>3. Quantity'[b] = n
    BY <1>2, <1>6 DEF Quantity
  <2>4. InvoicedFor(PoOf[g])' = InvoicedFor(PoOf[g]) + n
    <3> DEFINE S == {c \in invoices : PoOf[c.grn] = PoOf[g]}
    <3>1. b \notin S /\ {c \in invoices' : PoOf[c.grn] = PoOf[g]} = S \cup {b}
      BY <1>2, <1>4, <1>6
    <3>2. IsFiniteSet(S)
      BY <1>0, <2>1
    <3>4. \A c \in S : Quantity[c] \in Int
      BY <2>2
    <3>5. \A c \in S : Quantity'[c] = Quantity[c]
      BY <2>2
    <3>6. b \notin S /\ n \in Int
      BY <1>0, <3>1
    <3> HIDE DEF S, n
    <3>3. SumFunctionOnSet(Quantity', S \cup {b}) = SumFunctionOnSet(Quantity, S) + n
      <4>1. \A h : h[b] \in Int /\ (\A c \in S : h[c] = Quantity[c]) =>
              SumFunctionOnSet(h, S \cup {b}) = SumFunctionOnSet(Quantity, S) + h[b]
        BY <3>2, <3>4, <3>6, SumAdded
      <4> QED BY <2>3, <3>5, <3>6, <4>1
    <3> QED BY <1>0, <3>1, <3>3 DEF InvoicedFor, S
  <2>5. ASSUME NEW p \in Pos \ {PoOf[g]}
        PROVE  InvoicedFor(p)' = InvoicedFor(p)
    <3> DEFINE S == {c \in invoices : PoOf[c.grn] = p}
    <3>1. {c \in invoices' : PoOf[c.grn] = p} = S
      BY <1>2, <1>6, <2>5
    <3>2. SumFunctionOnSet(Quantity', S) = SumFunctionOnSet(Quantity, S)
      BY <2>1, <2>2, SumAgrees
    <3> QED BY <3>1, <3>2 DEF InvoicedFor
  <2>6. ASSUME NEW p \in Pos
        PROVE  /\ order'[p].received = InvoicedFor(p)'
               /\ order'[p].status = "FULLY_RECEIVED" <=> order'[p].received >= Ordered
    <3>1. CASE p = PoOf[g]
      <4>1. order'[p].received = order[p].received + n
            /\ order'[p].status = IF order[p].received + n >= Ordered
                                    THEN "FULLY_RECEIVED" ELSE "PARTIALLY_RECEIVED"
        BY <1>7, <3>1 DEF Received
      <4> QED BY <1>0, <2>1, <2>4, <3>1, <4>1, ReceiptAssumption
    <3>2. CASE p # PoOf[g]
      <4>1. order'[p] = order[p]
        BY <1>7, <3>2
      <4> QED BY <2>5, <3>2, <4>1 DEF AloneInv, Books, LinesAgree
    <3> QED BY <3>1, <3>2
  <2> QED BY <2>6 DEF LinesAgree
<1>12. CASE n > 0
  <2>1. PICK a : v.stock = {a} /\ a.by = r /\ a.grn = g /\ a.count = Units(g)
    BY <1>3, <1>12
  <2>2. \A t \in Sheets :
          \/ sums[t] = {} /\ sums'[t] = {[by |-> r, total |-> n]}
          \/ \E row \in sums[t] : sums[t] = {row} /\ sums'[t] = {[row EXCEPT !.total = @ + n]}
    <3>1. SUFFICES ASSUME NEW t \in Sheets
                   PROVE  \/ sums[t] = {} /\ sums'[t] = {[by |-> r, total |-> n]}
                          \/ \E row \in sums[t] :
                               sums[t] = {row} /\ sums'[t] = {[row EXCEPT !.total = @ + n]}
      OBVIOUS
    <3>2. v.sums[t] = Added(r, t)
      BY <1>1, <1>12 DEF Sheets
    <3>3. sums'[t] = {row \in sums[t] : \A new \in v.sums[t] : new.by # row.by} \cup v.sums[t]
      BY DEF Commit
    <3>4. CASE sums[t] = {}
      BY <3>2, <3>3, <3>4 DEF Added
    <3>5. CASE sums[t] # {}
      <4>1. PICK row \in sums[t] : sums[t] = {row}
        BY <3>5 DEF AloneInv, Rows
      <4>2. row \in Totals
        BY <4>1 DEF TypeOK
      <4>3. v.sums[t] = {[row EXCEPT !.total = @ + n]}
        BY <3>2, <4>1 DEF Added
      <4>4. [row EXCEPT !.total = @ + n].by = row.by
        BY <4>2 DEF Totals
      <4>5. {old \in sums[t] : \A new \in v.sums[t] : new.by # old.by} = {}
        BY <4>1, <4>3, <4>4
      <4> QED BY <3>3, <4>1, <4>3, <4>5
    <3> QED BY <3>4, <3>5
  <2>3. IsFiniteSet(stock')
    BY <1>6, <2>1, FS_AddElement DEF AloneInv, Books
  <2>4. SumFunctionOnSet(InStock', stock') = SumFunctionOnSet(InStock, stock) + n
         /\ SumFunctionOnSet(InStock, stock) \in Int
    <3>1. a \notin stock /\ IsFiniteSet(stock)
      BY <1>5, <2>1 DEF AloneInv, Books
    <3>2. \A c \in stock : InStock[c] \in Int /\ InStock'[c] = InStock[c]
      BY <1>5, <1>6 DEF InStock, TypeOK, GrnRows
    <3>3. InStock'[a] = n
      BY <1>6, <2>1 DEF InStock
    <3> HIDE DEF n
    <3>4. \A h : h[a] \in Int /\ (\A c \in stock : h[c] = InStock[c]) =>
            SumFunctionOnSet(h, stock \cup {a}) = SumFunctionOnSet(InStock, stock) + h[a]
      BY <3>1, <3>2, SumAdded
    <3>5. SumFunctionOnSet(InStock', stock \cup {a}) = SumFunctionOnSet(InStock, stock) + n
      BY <1>0, <3>2, <3>3, <3>4
    <3> QED BY <1>6, <2>1, <3>1, <3>2, <3>5, SumType
  <2>5. ASSUME NEW t \in Sheets
         PROVE  SumFunctionOnSet(Total(t)', sums'[t]) = SumFunctionOnSet(Total(t), sums[t]) + n
    <3>1. CASE sums[t] = {} /\ sums'[t] = {[by |-> r, total |-> n]}
      <4> DEFINE x == [by |-> r, total |-> n]
      <4>1. Total(t)'[x] = n
        BY <3>1 DEF Total
      <4>2. SumFunctionOnSet(Total(t)', {x}) = n
        BY <1>0, <4>1, SumOfOne
      <4> QED BY <1>0, <3>1, <4>2, SumOfNone
    <3>2. ASSUME NEW row \in sums[t], sums[t] = {row}, sums'[t] = {[row EXCEPT !.total = @ + n]}
          PROVE  SumFunctionOnSet(Total(t)', sums'[t]) = SumFunctionOnSet(Total(t), sums[t]) + n
      <4> DEFINE x == [row EXCEPT !.total = @ + n]
      <4>1. row.total \in Int /\ x.total = row.total + n
        BY <3>2 DEF TypeOK, Totals
      <4>2. Total(t)'[x] = row.total + n /\ Total(t)[row] = row.total
        BY <3>2, <4>1 DEF Total
      <4> HIDE DEF x
      <4>3. SumFunctionOnSet(Total(t)', {x}) = row.total + n
        <5>1. Total(t)'[x] \in Int
          BY <1>0, <4>1, <4>2
        <5>2. SumFunctionOnSet(Total(t)', {x}) = Total(t)'[x]
          BY <5>1, SumOfOne
        <5> QED BY <4>2, <5>2
      <4>4. SumFunctionOnSet(Total(t), {row}) = row.total
        <5>1. Total(t)[row] = row.total /\ row.total \in Int
          BY <4>1, <4>2
        <5> QED BY <5>1, SumOfOne
      <4> QED BY <3>2, <4>3, <4>4 DEF x
    <3> QED BY <2>2, <3>1, <3>2
  <2>6. Books'
    BY <1>11, <2>3, <2>4, <2>5 DEF AloneInv, Books
  <2>7. \A c \in stock' : grn'[c.grn].status \in Accepted /\ c.count = Units(c.grn)'
    BY <1>1, <1>5, <1>6, <2>1 DEF AloneInv, Rows, Accepted, Units
  <2>8. \A t \in Sheets : \A c, d \in sums'[t] : c = d
    BY <2>2
  <2> QED BY <1>9, <1>10, <2>6, <2>7, <2>8 DEF AloneInv, Rows
<1>13. CASE ~ (n > 0)
  <2>1. stock' = stock
    BY <1>3, <1>6, <1>13
  <2>2. \A t \in Sheets : sums'[t] = sums[t] /\ Total(t)' = Total(t)
    BY <1>1, <1>13 DEF Commit, NoRows, Total
  <2>3. \A c \in stock : grn'[c.grn] = grn[c.grn]
    BY <1>5, <1>6
  <2>4. InStock' = InStock
    BY <2>1, <2>3 DEF InStock
  <2>5. Books'
    BY <1>11, <2>1, <2>2, <2>4 DEF AloneInv, Books
  <2>6. \A c \in stock' : grn'[c.grn].status \in Accepted /\ c.count = Units(c.grn)'
    BY <2>1, <2>3 DEF AloneInv, Rows, Units
  <2>7. \A t \in Sheets : \A c, d \in sums'[t] : c = d
    BY <2>2 DEF AloneInv, Rows
  <2> QED BY <1>9, <1>10, <2>5, <2>6, <2>7 DEF AloneInv, Rows
<1> QED BY <1>12, <1>13

(* Nothing has been received at first. *)
LEMMA AloneInit == Init => AloneInv
<1> SUFFICES ASSUME Init PROVE AloneInv
  OBVIOUS
<1>1. OneActive
  BY DEF Init, OneActive, Active
<1>2. Current
  BY Apart DEF Init, Current, UpToDate
<1>3. Rows
  <2>1. \A g \in Grns : ~ grn[g].stocked
    <3>1. \A g \in Grns : grn[g] \in
            {NewGrn, [NewGrn EXCEPT !.status = "PENDING_QC"]} \cup
              {[NewGrn EXCEPT !.status = "QC_PASSED", !.accepted = q] : q \in Quantities}
      BY DEF Init
    <3>2. ~ NewGrn.stocked /\ ~ [NewGrn EXCEPT !.status = "PENDING_QC"].stocked
      BY DEF NewGrn
    <3>3. ASSUME NEW q \in Quantities
          PROVE  ~ [NewGrn EXCEPT !.status = "QC_PASSED", !.accepted = q].stocked
      BY DEF NewGrn
    <3> QED BY <3>1, <3>2, <3>3
  <2>2. ASSUME NEW t \in Sheets PROVE \A a, b \in sums[t] : a = b
    <3>1. sums[t] = {} \/ sums[t] = {[by |-> Before, total |-> 0]}
      BY DEF Init, NoRows
    <3> QED BY <3>1, Zenon
  <2>3. stock = {}
    BY DEF Init
  <2> QED BY <2>1, <2>2, <2>3 DEF Rows
<1>4. LinesAgree
  <2>1. \A p \in Pos : order[p] = NewOrder
    BY DEF Init
  <2>2. \A p \in Pos : InvoicedFor(p) = 0
    <3>1. \A p \in Pos : {bill \in invoices : PoOf[bill.grn] = p} = {}
      BY DEF Init
    <3> QED BY <3>1, SumOfNone DEF InvoicedFor
  <2> QED BY <2>1, <2>2, ReceiptAssumption DEF LinesAgree, NewOrder
<1>5. \A t \in Sheets : SumFunctionOnSet(Total(t), sums[t]) = SumFunctionOnSet(InStock, stock)
  <2>1. SUFFICES ASSUME NEW t \in Sheets PROVE SumFunctionOnSet(Total(t), sums[t]) = 0
    BY SumOfNone DEF Init
  <2>2. CASE sums[t] = {}
    BY <2>2, SumOfNone
  <2>3. CASE sums[t] = {[by |-> Before, total |-> 0]}
    <3> DEFINE x == [by |-> Before, total |-> 0]
    <3>1. Total(t)[x] = 0
      BY <2>3 DEF Total
    <3> HIDE DEF x
    <3>2. SumFunctionOnSet(Total(t), {x}) = 0
      BY <3>1, SumOfOne
    <3> QED BY <2>3, <3>2 DEF x
  <2> QED BY <2>2, <2>3 DEF Init, NoRows
<1>6. Books
  BY <1>4, <1>5, FS_EmptySet DEF Init, Books
<1> QED BY <1>1, <1>2, <1>3, <1>6 DEF AloneInv

(* When requests come one at a time, every step keeps it so. *)
LEMMA AloneNext == IInv /\ AloneInv /\ [Next]_vars /\ OneActive' => AloneInv'
<1> SUFFICES ASSUME IInv, AloneInv, [Next]_vars, OneActive' PROVE AloneInv'
  OBVIOUS
<1>0. TypeOK /\ IInv'
  BY INext DEF IInv
<1>1. CASE UNCHANGED vars
  <2>1. Current'
    <3>1. ASSUME NEW r \in Requests PROVE UpToDate(r)'
      <4>1. UpToDate(r)
        BY DEF AloneInv, Current
      <4>2. Units(target[r])' = Units(target[r])
        BY <1>1 DEF vars, tables, Units
      <4>3. Added(r, "cost")' = Added(r, "cost") /\ Added(r, "summary")' = Added(r, "summary")
        BY <1>1, AddedStays DEF vars, tables
      <4> QED BY <1>1, <4>1, <4>2, <4>3 DEF vars, tables, UpToDate
    <3> QED BY <3>1 DEF Current
  <2>2. Rows'
    BY <1>1 DEF vars, tables, AloneInv, Rows, Units
  <2>3. Books'
    BY <1>0, <1>1, BooksStay DEF vars, tables, AloneInv
  <2> QED BY <2>1, <2>2, <2>3 DEF AloneInv
<1>2. ASSUME NEW r \in Requests, Step(r)
      PROVE  AloneInv'
  <2>1. CASE Commit(r)
    BY <1>0, <2>1, CommitAlone
  <2>2. CASE Write(r)
    BY <1>0, <2>2, WriteAlone
  <2>3. CASE Fail(r)
    <3>1. /\ r \in Active /\ pc'[r] \in Ended /\ UNCHANGED <<tables, target>>
          /\ \A q \in Requests \ {r} : pc'[q] = pc[q] /\ view'[q] = view[q]
      BY <1>0, <2>3 DEF Fail, Goto, TypeOK, Ended
    <3> QED BY <1>0, <3>1, EndedUpToDate, AloneQuiet
  <2>4. CASE Load(r)
    <3>1. /\ r \in Active' /\ UNCHANGED <<tables, target>>
          /\ \A q \in Requests \ {r} : pc'[q] = pc[q] /\ view'[q] = view[q]
      BY <1>0, <2>4 DEF Load, Goto, TypeOK, Active, Ended, Ops
    <3> QED BY <1>0, <2>4, <3>1, LoadAlone, AloneQuiet
  <2>5. CASE Validate(r) \/ Claim(r) \/ ReadOrder(r) \/ Receive(r) \/ SetStatus(r)
    <3>1. r \in Active /\ UNCHANGED <<tables, target>>
      BY <2>5 DEF Validate, Claim, ReadOrder, Receive, SetStatus, Active, Ended
    <3>2. \A q \in Requests \ {r} : pc'[q] = pc[q] /\ view'[q] = view[q]
      BY <1>0, <2>5 DEF Validate, Claim, ReadOrder, Receive, SetStatus, Goto, TypeOK
    <3> QED BY <1>0, <2>5, <3>1, <3>2, EarlyAlone, AloneQuiet
  <2>6. CASE \/ ReadCost(r) \/ SetCost(r) \/ CreateStock(r) \/ ReadSummary(r) \/ SetSummary(r)
             \/ Move(r) \/ CountBills(r) \/ Bill(r)
    <3>1. r \in Active /\ UNCHANGED <<tables, target>>
      BY <2>6 DEF ReadCost, SetCost, CreateStock, ReadSummary, ReadSum, SetSummary, Move,
                  CountBills, Bill, Active, Ended
    <3>2. \A q \in Requests \ {r} : pc'[q] = pc[q] /\ view'[q] = view[q]
      BY <1>0, <2>6 DEF ReadCost, SetCost, CreateStock, ReadSummary, ReadSum, SetSummary, Move,
                        CountBills, Bill, Goto, TypeOK
    <3> QED BY <1>0, <2>6, <3>1, <3>2, LateAlone, AloneQuiet
  <2> QED
    BY <1>2, <2>1, <2>2, <2>3, <2>4, <2>5, <2>6 DEF Step
<1> QED BY <1>1, <1>2 DEF Next, AllEnded

(* The invariants hold in every mode. *)
LEMMA AloneInvariance == ModesSpec => [](IInv /\ (alone => AloneInv))
<1>1. ModesInit => IInv /\ (alone => AloneInv)
  BY IInit, AloneInit DEF ModesInit
<1>2. ASSUME IInv, alone => AloneInv, [ModesNext]_<<vars, alone>>
      PROVE  IInv' /\ (alone' => AloneInv')
  <2>1. [Next]_vars /\ alone' = alone
    BY <1>2 DEF ModesNext
  <2>2. CASE UNCHANGED vars
    <3>1. OneActive' <=> OneActive
      BY <2>2 DEF vars, OneActive, Active
    <3> QED BY <1>2, <2>1, <3>1, INext, AloneNext DEF AloneInv
  <2>3. CASE ModesNext
    BY <1>2, <2>1, <2>3, INext, AloneNext DEF ModesNext
  <2> QED BY <1>2, <2>2, <2>3
<1> QED BY <1>1, <1>2, PTL DEF ModesSpec

(* Where requests do not overlap, each line has received what was invoiced *)
(* for it, and cost and summary count the stock items, if every unit of a  *)
(* GRN whose serial numbers were scanned has one.                          *)
THEOREM AloneBooks == ModesSpec => []SerialBooksAgree
<1>1. IInv /\ AloneInv => LinesAgree /\ (EachScanned => SheetsAgree)
  <2> SUFFICES ASSUME IInv, AloneInv, EachScanned PROVE SheetsAgree
    BY DEF AloneInv, Books
  <2>1. \A a \in stock : Count[a] = InStock[a]
    BY DEF AloneInv, Rows, Units, EachScanned, Count, InStock
  <2>2. SumFunctionOnSet(Count, stock) = SumFunctionOnSet(InStock, stock)
    BY <2>1, SumAgrees DEF AloneInv, Books
  <2> QED BY <2>2 DEF AloneInv, Books, SheetsAgree
<1>2. IInv /\ (alone => AloneInv) => SerialBooksAgree
  BY <1>1 DEF SerialBooksAgree
<1> QED BY <1>2, AloneInvariance, PTL

(* Where requests do not overlap, a GRN whose goods are in stock is never  *)
(* cancelled.                                                              *)
THEOREM AloneCancelled == ModesSpec => []SerialCancelledHasNothing
<1>1. AloneInv => CancelledHasNothing
  BY DEF AloneInv, Rows, Accepted, CancelledHasNothing
<1>2. IInv /\ (alone => AloneInv) => SerialCancelledHasNothing
  BY <1>1 DEF SerialCancelledHasNothing
<1> QED BY <1>2, AloneInvariance, PTL
==============================================================================
