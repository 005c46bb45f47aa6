---------------------------- MODULE GoodsReceipt ----------------------------
(***************************************************************************)
(* Goods of one product received in one warehouse: the life of goods       *)
(* receipt notes (app/api/v1/endpoints/grn.py) and what accepting one      *)
(* writes: the received quantity of its purchase order's line, the product *)
(* cost (app/services/costing_service.py), stock items, the inventory      *)
(* summary and a stock movement (app/services/grn_service.py), and a       *)
(* vendor invoice.                                                         *)
(*                                                                         *)
(* Every request is one READ COMMITTED transaction.  A SELECT sees what is *)
(* committed; an object once loaded keeps the values it was loaded with;   *)
(* an UPDATE sets the changed columns to values computed from them, after  *)
(* waiting for the row's lock; an INSERT waits for an uncommitted row with *)
(* the same unique key and fails after a committed one.  A flush happens   *)
(* at db.commit(), and before a SELECT.  A failed flush ends the session:  *)
(* the exception handlers of accept_grn swallow it, but nothing the        *)
(* request wrote before or after is kept (Abort).                          *)
(*                                                                         *)
(* The product has no variant, so the unique keys of product_costs and     *)
(* inventory_summary, with their NULL variant_id, never reject a second    *)
(* row.  A GRN has one item, with at most one serial number; a purchase    *)
(* order has one line.                                                     *)
(***************************************************************************)
EXTENDS Integers, FiniteSets, FiniteSetsExt

CONSTANTS
  Requests,    \* identities of HTTP requests, each served once
  Pos,         \* purchase orders
  Grns,        \* goods receipt notes
  PoOf,        \* the purchase order of each GRN
  Serials,     \* barcodes that may be scanned
  SerialOf,    \* the one scanned for each GRN
  NoSerial,    \* nothing was scanned
  Printed,     \* po_serials: the barcodes printed for each purchase order
  Quantities,  \* quantities a quality check may accept: any it is given,
               \* and 0 for an item it is not given
  Ordered,     \* quantity_ordered of each line
  MaxActive,   \* requests under way at once
  Before       \* creator of a row older than these receipts

ASSUME ReceiptAssumption ==
  /\ PoOf \in [Grns -> Pos]
  /\ NoSerial \notin Serials /\ SerialOf \in [Grns -> Serials \cup {NoSerial}]
  /\ Printed \subseteq Serials \X Pos
  /\ Quantities \subseteq Int /\ Ordered \in Nat \ {0}
  /\ MaxActive \in Nat \ {0}
  /\ Before \notin Requests

VARIABLES
  grn,       \* the GRN rows, each with the quantity and serial of its item
  order,     \* quantity received on each order's line, and its status
  stock,     \* stock_items
  sums,      \* product_costs and inventory_summary rows of the product
  ledger,    \* stock_movements
  invoices,  \* vendor_invoices
  locks,     \* rows and unique keys a running transaction holds
  pc,        \* what each request does next
  target,    \* the GRN it works on
  view       \* what it has read, and written but not committed

tables == <<grn, order, stock, sums, ledger, invoices>>
vars   == <<tables, locks, pc, target, view>>

Statuses == {"DRAFT", "PENDING_QC", "QC_PASSED", "QC_FAILED", "PARTIALLY_ACCEPTED",
             "ACCEPTED", "PUT_AWAY_COMPLETE", "CANCELLED"}
Checks   == {"NONE", "VALIDATED", "SKIPPED"}
Ops      == {"submit", "qc", "force", "accept", "put-away", "cancel"}
Ended    == {"done", "failed"}
Short    == Ops \ {"accept"}
Steps    == {"new", "validate", "claim", "read", "receive", "status", "cost", "average",
             "stock", "summary", "total", "movement", "count", "invoice", "commit"} \cup Short \cup Ended

Sheets  == {"cost", "summary"}
GrnRows == [status : Statuses, forced : BOOLEAN, check : Checks, accepted : Int,
            stocked : BOOLEAN]
Orders  == [received : Int, status : {"APPROVED", "PARTIALLY_RECEIVED", "FULLY_RECEIVED"}]
Items   == [grn : Grns, count : Int, by : Requests]
Totals  == [by : Requests \cup {Before}, total : Int]
Moves   == [number : Nat, quantity : Int, by : Requests]
Bills   == [grn : Grns, reference : Nat, quantity : Int, accepted : Int, by : Requests]
Views   == [grn : GrnRows, check : Checks, accepted : Int, order : Orders, number : Nat,
            stock : SUBSET Items, sums : [Sheets -> SUBSET Totals], moves : SUBSET Moves,
            bills : SUBSET Bills]

NewGrn   == [status |-> "DRAFT", forced |-> FALSE, check |-> "NONE", accepted |-> 0,
             stocked |-> FALSE]
NewOrder == [received |-> 0, status |-> "APPROVED"]
NoRows   == [t \in Sheets |-> {}]
Blank    == [grn |-> NewGrn, check |-> "NONE", accepted |-> 0, order |-> NewOrder, number |-> 0,
             stock |-> {}, sums |-> NoRows, moves |-> {}, bills |-> {}]

(* GRNs that have been created, submitted or checked, but not accepted; a  *)
(* product that was received before, or never.                             *)
Init ==
  /\ grn \in [Grns -> {NewGrn, [NewGrn EXCEPT !.status = "PENDING_QC"]} \cup
                       {[NewGrn EXCEPT !.status = "QC_PASSED", !.accepted = q] : q \in Quantities}]
  /\ order = [p \in Pos |-> NewOrder]
  /\ sums \in {NoRows, [t \in Sheets |-> {[by |-> Before, total |-> 0]}]}
  /\ stock = {} /\ ledger = {} /\ invoices = {} /\ locks = {}
  /\ pc = [r \in Requests |-> "new"]
  /\ target \in [Requests -> Grns]
  /\ view = [r \in Requests |-> Blank]

-----------------------------------------------------------------------------
Goto(r, step) == pc' = [pc EXCEPT ![r] = step]

Active == {r \in Requests : pc[r] \notin Ended \cup {"new"}}

(* No other transaction holds the row or key; r holds it from now on. *)
Free(r, thing) == \A q \in Requests : <<thing, q>> \in locks => q = r
Take(r, things) ==
  /\ \A thing \in things : Free(r, thing)
  /\ locks' = locks \cup (things \X {r})

(* Mutant: locks outlive their transaction. *)
BugLocksWithout(r) == locks

LocksWithout(r) == {l \in locks : l[2] # r}

Row(g)       == <<"grn", g>>
OrderRow(p)  == <<"order", p>>
SerialKey(s) == <<"serial", s>>
SumRow(t, row) == <<t, row.by>>
MoveKey(n)   == <<"movement", n>>
BillKey(g)   == <<"invoice", g>>
RefKey(n)    == <<"reference", n>>

(* Mutant: an accepted GRN may be cancelled. *)
BugAllowed(o, status) ==
  \/ o = "force"
  \/ o = "submit" /\ status = "DRAFT"
  \/ o = "qc" /\ status = "PENDING_QC"
  \/ o = "accept" /\ status \in {"QC_PASSED", "PARTIALLY_ACCEPTED"}
  \/ o = "put-away" /\ status = "ACCEPTED"
  \/ o = "cancel" /\ status # "PUT_AWAY_COMPLETE"

(* The status check each endpoint makes on the GRN it has loaded. *)
Allowed(o, status) ==
  \/ o = "force"
  \/ o = "submit" /\ status = "DRAFT"
  \/ o = "qc" /\ status = "PENDING_QC"
  \/ o = "accept" /\ status \in {"QC_PASSED", "PARTIALLY_ACCEPTED"}
  \/ o = "put-away" /\ status = "ACCEPTED"
  \/ o = "cancel" /\ status \notin {"ACCEPTED", "PUT_AWAY_COMPLETE"}

(* The endpoint loads the GRN.  accept_grn validates serials unless the    *)
(* GRN is forced or the caller asks to skip.                               *)
Load(r) ==
  LET row == grn[target[r]] IN
  /\ pc[r] = "new" /\ Cardinality(Active) < MaxActive
  /\ \E o \in Ops :
       /\ Allowed(o, row.status)
       /\ \/ o # "accept" /\ Goto(r, o)
          \/ o = "accept" /\ Goto(r, "claim")
          \/ o = "accept" /\ ~ row.forced /\ Goto(r, "validate")
  /\ view' = [view EXCEPT ![r].grn = row]
  /\ UNCHANGED <<tables, locks, target>>

(* The short endpoints: one UPDATE, whatever the row holds by now, and the *)
(* commit.  The quality check takes result and quantity from its caller.   *)
Write(r) ==
  LET g == target[r] IN
  /\ Free(r, Row(g))
  /\ \/ pc[r] = "submit" /\ grn' = [grn EXCEPT ![g].status = "PENDING_QC"]
     \/ /\ pc[r] = "qc"
        /\ \E s \in {"QC_PASSED", "QC_FAILED", "PARTIALLY_ACCEPTED"}, q \in Quantities :
             grn' = [grn EXCEPT ![g].status = s, ![g].accepted = q]
     \/ pc[r] = "force" /\ grn' = [grn EXCEPT ![g].forced = TRUE, ![g].check = "SKIPPED"]
     \/ pc[r] = "put-away" /\ grn' = [grn EXCEPT ![g].status = "PUT_AWAY_COMPLETE"]
     \/ pc[r] = "cancel" /\ grn' = [grn EXCEPT ![g].status = "CANCELLED"]
  /\ Goto(r, "done")
  /\ view' = [view EXCEPT ![r] = Blank]
  /\ UNCHANGED <<order, stock, sums, ledger, invoices, locks, target>>

-----------------------------------------------------------------------------
(* validate_grn_serials: a scanned serial must be one of the order's, and  *)
(* not yet received against it.                                            *)
Valid(g) ==
  \/ SerialOf[g] = NoSerial
  \/ /\ <<SerialOf[g], PoOf[g]>> \in Printed
     /\ \A item \in stock : SerialOf[item.grn] = SerialOf[g] => PoOf[item.grn] # PoOf[g]

Validate(r) ==
  LET g == target[r] IN
  /\ pc[r] = "validate" /\ Valid(g)
  /\ view' = [view EXCEPT ![r].check = "VALIDATED", ![r].accepted = grn[g].accepted]
  /\ Goto(r, "claim")
  /\ UNCHANGED <<tables, locks, target>>

(* The validation status to store. *)
Checked(r) == IF view[r].check = "NONE" THEN "SKIPPED" ELSE view[r].check

(* The SELECT of the items flushes the validation status first: the GRN    *)
(* row is locked from here, unless it was loaded with that status.         *)
Claim(r) ==
  /\ pc[r] = "claim"
  /\ IF Checked(r) # view[r].grn.check THEN Take(r, {Row(target[r])}) ELSE UNCHANGED locks
  /\ Goto(r, "read")
  /\ UNCHANGED <<tables, target, view>>

(* The items, unless validation has loaded them; the order and its line.   *)
ReadOrder(r) ==
  LET g == target[r] IN
  /\ pc[r] = "read"
  /\ view' = [view EXCEPT ![r].order = order[PoOf[g]],
                          ![r].accepted = IF view[r].check = "NONE" THEN grn[g].accepted ELSE @,
                          ![r].check = Checked(r)]
  /\ Goto(r, "receive")
  /\ UNCHANGED <<tables, locks, target>>

(* Mutant: the accepted quantity replaces the received one. *)
BugReceived(o, q) ==
  [received |-> q,
   status   |-> IF q >= Ordered THEN "FULLY_RECEIVED" ELSE "PARTIALLY_RECEIVED"]

(* The line and the order's status after q more. *)
Received(o, q) ==
  [received |-> o.received + q,
   status   |-> IF o.received + q >= Ordered THEN "FULLY_RECEIVED" ELSE "PARTIALLY_RECEIVED"]

(* UPDATE of the line, from the quantity read before its lock. *)
Receive(r) ==
  /\ pc[r] = "receive" /\ Take(r, {OrderRow(PoOf[target[r]])})
  /\ Goto(r, "status")
  /\ UNCHANGED <<tables, target, view>>

(* db.commit() flushes the two statuses. *)
SetStatus(r) ==
  /\ pc[r] = "status" /\ Take(r, {Row(target[r])})
  /\ Goto(r, "cost")
  /\ UNCHANGED <<tables, target, view>>

(* The row of a sheet with the accepted quantity added; or a new row.      *)
Added(r, t) ==
  LET q == view[r].accepted IN
  IF sums[t] = {} THEN {[by |-> r, total |-> q]}
  ELSE {[row EXCEPT !.total = @ + q] : row \in sums[t]}

(* Two rows make scalar_one_or_none raise: accept_grn logs it and goes on. *)
ReadSum(r, t, set, skip) ==
  /\ IF Cardinality(sums[t]) > 1 THEN Goto(r, skip) /\ UNCHANGED view
     ELSE Goto(r, set) /\ view' = [view EXCEPT ![r].sums[t] = Added(r, t)]
  /\ UNCHANGED <<tables, locks, target>>

LockSum(r, t) == Take(r, {SumRow(t, row) : row \in view[r].sums[t]})

(* update_cost_on_grn_acceptance, unless nothing was accepted, computes    *)
(* the new quantity and average ...                                        *)
ReadCost(r) ==
  /\ pc[r] = "cost"
  /\ IF view[r].accepted > 0 THEN ReadSum(r, "cost", "average", "stock")
     ELSE Goto(r, "stock") /\ UNCHANGED <<tables, locks, target, view>>

(* ... and flushes them. *)
SetCost(r) ==
  /\ pc[r] = "average" /\ LockSum(r, "cost")
  /\ Goto(r, "stock")
  /\ UNCHANGED <<tables, target, view>>

(* The unique key of stock_items refuses a serial number in stock. *)
Refused(g) ==
  SerialOf[g] # NoSerial /\ \E item \in stock : SerialOf[item.grn] = SerialOf[g]

(* One item per accepted unit, or the one whose serial was scanned.        *)
(* create_stock_items_from_grn raises, and accept_grn goes on, if the GRN  *)
(* was loaded as stocked.  Where nothing was accepted it makes no item,    *)
(* and marks the GRN as stocked.                                           *)
CreateStock(r) ==
  LET g == target[r]
      s == SerialOf[g] IN
  /\ pc[r] = "stock"
  /\ IF view[r].grn.stocked \/ view[r].accepted <= 0
     THEN Goto(r, "count") /\ UNCHANGED <<locks, view>>
     ELSE /\ ~ Refused(g)
          /\ Take(r, IF s = NoSerial THEN {} ELSE {SerialKey(s)})
          /\ view' = [view EXCEPT ![r].stock =
               {[grn |-> g, count |-> IF s = NoSerial THEN view[r].accepted ELSE 1, by |-> r]}]
          /\ Goto(r, "summary")
  /\ UNCHANGED <<tables, target>>

(* _update_inventory_summary finds the row. *)
ReadSummary(r) == pc[r] = "summary" /\ ReadSum(r, "summary", "total", "count")

(* Its SELECT of the largest movement number flushes the row first. *)
SetSummary(r) ==
  /\ pc[r] = "total" /\ LockSum(r, "summary")
  /\ \E n \in {m.number : m \in ledger} \cup {0} :
       /\ \A m \in ledger : m.number <= n
       /\ view' = [view EXCEPT ![r].number = n + 1]
  /\ Goto(r, "movement")
  /\ UNCHANGED <<tables, target>>

(* The movement is inserted, and the GRN marked as stocked. *)
Move(r) ==
  LET n == view[r].number IN
  /\ pc[r] = "movement" /\ \A m \in ledger : m.number # n
  /\ Take(r, {MoveKey(n)})
  /\ view' = [view EXCEPT ![r].moves = {[number |-> n, quantity |-> view[r].accepted, by |-> r]}]
  /\ Goto(r, "count")
  /\ UNCHANGED <<tables, target>>

(* The reference of the vendor invoice comes from a count of invoices. *)
CountBills(r) ==
  /\ pc[r] = "count"
  /\ view' = [view EXCEPT ![r].number = Cardinality(invoices) + 1]
  /\ Goto(r, "invoice")
  /\ UNCHANGED <<tables, locks, target>>

(* Mutant: an invoice number may be used twice. *)
BugBilled(g, n) == \E bill \in invoices : bill.reference = n

(* invoice_number is "AUTO-" and the GRN's number; both keys are unique. *)
Billed(g, n) == \E bill \in invoices : bill.grn = g \/ bill.reference = n

(* Its value is that of the GRN as loaded; the quantity accepted, which it *)
(* does not store, is the one that went into line and stock.               *)
NewBill(r) ==
  [grn |-> target[r], reference |-> view[r].number, quantity |-> view[r].grn.accepted,
   accepted |-> view[r].accepted, by |-> r]

(* Mutant: an invoice that is refused is skipped, and the rest is kept. *)
BugBill(r) ==
  LET g == target[r]
      n == view[r].number IN
  /\ pc[r] = "invoice"
  /\ IF Billed(g, n) THEN UNCHANGED <<locks, view>>
     ELSE /\ Take(r, {BillKey(g), RefKey(n)})
          /\ view' = [view EXCEPT ![r].bills = {NewBill(r)}]
  /\ Goto(r, "commit")
  /\ UNCHANGED <<tables, target>>

(* The invoice is inserted. *)
Bill(r) ==
  LET g == target[r]
      n == view[r].number IN
  /\ pc[r] = "invoice" /\ ~ Billed(g, n)
  /\ Take(r, {BillKey(g), RefKey(n)})
  /\ view' = [view EXCEPT ![r].bills = {NewBill(r)}]
  /\ Goto(r, "commit")
  /\ UNCHANGED <<tables, target>>

(* What the column holds after an UPDATE that sets only changed columns. *)
Changed(new, loaded, now) == IF new = loaded THEN now ELSE new

(* conn.commit() of accept_grn *)
Commit(r) ==
  LET g == target[r]
      v == view[r]
      o == Received(v.order, v.accepted) IN
  /\ pc[r] = "commit"
  /\ grn' = [grn EXCEPT ![g].status = "ACCEPTED",
                        ![g].check = Changed(v.check, v.grn.check, @),
                        ![g].stocked = @ \/ v.moves # {} \/ v.accepted <= 0]
  /\ order' = [order EXCEPT ![PoOf[g]] =
       [received |-> o.received, status |-> Changed(o.status, v.order.status, @.status)]]
  /\ stock' = stock \cup v.stock
  /\ sums' = [t \in Sheets |->
       {row \in sums[t] : \A new \in v.sums[t] : new.by # row.by} \cup v.sums[t]]
  /\ ledger' = ledger \cup v.moves
  /\ invoices' = invoices \cup v.bills
  /\ locks' = LocksWithout(r)
  /\ Goto(r, "done")
  /\ view' = [view EXCEPT ![r] = Blank]
  /\ UNCHANGED target

(* A refused insert, an invalid serial, a deadlock, a lost connection. *)
Fail(r) ==
  /\ r \in Active
  /\ locks' = LocksWithout(r)
  /\ Goto(r, "failed")
  /\ view' = [view EXCEPT ![r] = Blank]
  /\ UNCHANGED <<tables, target>>

Step(r) ==
  \/ Load(r) \/ Write(r) \/ Validate(r) \/ Claim(r) \/ ReadOrder(r) \/ Receive(r)
  \/ SetStatus(r) \/ ReadCost(r) \/ SetCost(r) \/ CreateStock(r) \/ ReadSummary(r)
  \/ SetSummary(r) \/ Move(r) \/ CountBills(r) \/ Bill(r) \/ Commit(r) \/ Fail(r)

(* No request is left, or none of those left is allowed. *)
AllEnded == Active = {} /\ UNCHANGED vars

Next == (\E r \in Requests : Step(r)) \/ AllEnded

Spec == Init /\ [][Next]_vars

-----------------------------------------------------------------------------
(* The state has the types of the tables and the request handlers. *)
TypeOK ==
  /\ grn \in [Grns -> GrnRows] /\ order \in [Pos -> Orders]
  /\ stock \in SUBSET Items /\ sums \in [Sheets -> SUBSET Totals]
  /\ ledger \in SUBSET Moves /\ invoices \in SUBSET Bills
  /\ \A l \in locks : l[2] \in Active /\ pc[l[2]] \notin Short
  /\ pc \in [Requests -> Steps]
  /\ target \in [Requests -> Grns]
  /\ view \in [Requests -> Views]

(* The goods of a GRN enter stock once, and no serial number twice, though *)
(* accept_grn checks the GRN's status and the serials without a lock: of   *)
(* two requests that accept the same GRN, whatever they interleave with,   *)
(* the unique invoice makes one take back all it wrote.                    *)
StockedOnce ==
  \A a, b \in stock : a # b =>
    a.grn # b.grn /\ (SerialOf[a.grn] = SerialOf[b.grn] => SerialOf[a.grn] = NoSerial)

(* An acceptance of some units leaves stock items and an invoice, or       *)
(* neither, though accept_grn goes on after an error in either; one of no  *)
(* units never leaves stock items; and a stock movement is only left with  *)
(* both.  (An acceptance of no units does leave an invoice.)               *)
AcceptIsWhole ==
  /\ {item.by : item \in stock} = {bill.by : bill \in {b \in invoices : b.accepted > 0}}
  /\ {m.by : m \in ledger} \subseteq {item.by : item \in stock}

Quantity == [bill \in invoices |-> bill.quantity]
Count    == [item \in stock |-> item.count]
Total(t) == [row \in sums[t] |-> row.total]

InvoicedFor(p) == SumFunctionOnSet(Quantity, {bill \in invoices : PoOf[bill.grn] = p})

(* Each line has received what its GRNs were invoiced for, and the order's *)
(* status follows.                                                         *)
LinesAgree ==
  \A p \in Pos :
    /\ order[p].received = InvoicedFor(p)
    /\ order[p].status = "FULLY_RECEIVED" <=> order[p].received >= Ordered

(* Product cost and inventory summary count the items in stock. *)
SheetsAgree ==
  \A t \in Sheets : SumFunctionOnSet(Total(t), sums[t]) = SumFunctionOnSet(Count, stock)

(* The books of what was received agree. *)
BooksAgree == LinesAgree /\ SheetsAgree

(* Nothing of a cancelled GRN is in stock. *)
CancelledHasNothing ==
  \A item \in stock : grn[item.grn].status # "CANCELLED"
=============================================================================
