--------------------------- MODULE CustomerCredit ---------------------------
(***************************************************************************)
(* The credit of one customer that has a credit limit: orders entered in   *)
(* the office and on the website raise credit_used, and payments, receipts *)
(* and cancellations lower it (app/services/order_service.py,              *)
(* app/api/v1/endpoints/orders.py and customers.py).                       *)
(*                                                                         *)
(* Every request is one READ COMMITTED transaction, and nothing is read    *)
(* with a lock.  An object once loaded keeps the values it was loaded      *)
(* with: credit_used is set to a value computed from the one loaded.       *)
(* Order numbers are the date and a count of the day's orders, and unique, *)
(* so a number waits for an uncommitted order that has it, and fails after *)
(* a committed one.  What other requests see of a request they see when it *)
(* commits, so what follows its last SELECT is one step.                   *)
(*                                                                         *)
(* The payment gateway (app/api/v1/endpoints/payments.py) and the courier  *)
(* (shipping.py) change orders too, and leave credit_used alone.           *)
(*                                                                         *)
(* Statuses from which an order can be cancelled are one, OPEN.  How       *)
(* prices make up a total is data.                                         *)
(***************************************************************************)
EXTENDS Integers, FiniteSets, FiniteSetsExt

CONSTANTS
  Requests,   \* requests that may be under way at once; each serves many
  Limit,      \* credit_limit
  Amounts,    \* totals of orders, amounts of payments
  MaxOrders,  \* bound on the orders of a day
  MaxDays,    \* bound on the days
  MaxMoney    \* bound on what the office is paid for an order, and received in all

ASSUME CreditAssumption ==
  /\ Limit \in Nat /\ Amounts \subseteq Nat
  /\ MaxOrders \in Nat /\ MaxDays \in Nat \ {0} /\ MaxMoney \in Nat

VARIABLES
  used,      \* credit_used of the customer
  orders,    \* the orders, by number
  receipts,  \* PAYMENT entries of the customer's ledger, summed
  today,     \* the date, in UTC
  locks,     \* numbers of orders that are inserted and not committed
  pc,        \* what each request does next
  view       \* what it has been asked for and has read

tables == <<used, orders, receipts>>
vars   == <<tables, today, locks, pc, view>>

Days     == 1 .. MaxDays
Numbers  == Days \X (1 .. MaxOrders)
Statuses == {"NONE", "OTHER", "OPEN", "DELIVERED", "CANCELLED"}  \* OTHER: another customer's
Ops      == {"none", "office", "web", "other", "cancel", "status", "payment", "receipt"}
Steps    == {"idle", "customer", "count", "check", "insert", "credit", "write"}

OrderRows == [status : Statuses, total : Nat, paid : Nat]
Views     == [op : Ops, number : Nat \X Nat, amount : Nat, status : Statuses, loaded : OrderRows,
              used : Nat]

NoRow == [status |-> "NONE", total |-> 0, paid |-> 0]
Blank == [op |-> "none", number |-> <<0, 0>>, amount |-> 0, status |-> "NONE", loaded |-> NoRow, used |-> 0]

Init ==
  /\ used = 0 /\ orders = [n \in Numbers |-> NoRow] /\ receipts = 0
  /\ today = 1 /\ locks = {} /\ pc = [r \in Requests |-> "idle"] /\ view = [r \in Requests |-> Blank]

-----------------------------------------------------------------------------
Goto(r, step) == pc' = [pc EXCEPT ![r] = step]

(* Mutant: numbers stay reserved for transactions that are over. *)
BugDone(r) == Goto(r, "idle") /\ view' = [view EXCEPT ![r] = Blank] /\ UNCHANGED locks

(* The transaction is over. *)
Done(r) ==
  /\ Goto(r, "idle") /\ view' = [view EXCEPT ![r] = Blank]
  /\ locks' = {l \in locks : l[2] # r}

(* A refused order, a number that is taken, a lost connection. *)
Fail(r) == pc[r] # "idle" /\ Done(r) /\ UNCHANGED tables

(* What a column holds after an UPDATE that sets only changed columns. *)
Changed(new, loaded, now) == IF new = loaded THEN now ELSE new

(* max(Decimal("0"), credit_used - amount) *)
Lowered(credit, amount) == IF amount > credit THEN 0 ELSE credit - amount

Exist   == {n \in Numbers : orders[n].status # "NONE"}
Mine    == {n \in Exist : orders[n].status # "OTHER"}
Of(day) == {n \in Exist : n[1] = day}

-----------------------------------------------------------------------------
(* An order in the office (endpoint create_order), on the website          *)
(* (create_d2c_order, which finds the customer by phone number first), or  *)
(* of another customer.                                                    *)
StartOrder(r) ==
  /\ \E a \in Amounts, op \in {"office", "web", "other"} :
       /\ view' = [view EXCEPT ![r].op = op, ![r].amount = a]
       /\ Goto(r, IF op = "web" THEN "customer" ELSE "count")
  /\ UNCHANGED <<tables, locks>>

(* The customer is loaded.  A SELECT of a row that is loaded already       *)
(* changes nothing, so the website's order keeps what it read first.       *)
ReadCustomer(r) ==
  /\ pc[r] = "customer"
  /\ view' = [view EXCEPT ![r].used = used]
  /\ Goto(r, CASE view[r].op = "web" -> "count" [] view[r].op = "office" -> "check"
               [] OTHER -> "write")
  /\ UNCHANGED <<tables, locks>>

(* generate_order_number *)
Count(r) ==
  /\ pc[r] = "count" /\ Cardinality(Of(today)) < MaxOrders
  /\ view' = [view EXCEPT ![r].number = <<today, Cardinality(Of(today)) + 1>>]
  /\ Goto(r, CASE view[r].op = "web" -> "check" [] view[r].op = "office" -> "customer"
               [] OTHER -> "insert")
  /\ UNCHANGED <<tables, locks>>

(* Mutant: the order itself is left out of the check. *)
BugWithinLimit(credit, amount) == credit <= Limit

WithinLimit(credit, amount) == credit + amount <= Limit

(* Credit limit check *)
Check(r) ==
  /\ pc[r] = "check" /\ WithinLimit(view[r].used, view[r].amount)
  /\ Goto(r, "insert")
  /\ UNCHANGED <<tables, locks, view>>

(* Mutant: order_number is not unique; a second order is inserted after.   *)
BugInsert(r) ==
  LET day == view[r].number[1]
      n   == <<day, Cardinality(Of(day)) + 1>> IN
  /\ pc[r] = "insert" /\ n \in Numbers
  /\ \A l \in locks : l[1] # n
  /\ locks' = locks \cup {<<n, r>>}
  /\ view' = [view EXCEPT ![r].number = n]
  /\ Goto(r, "credit")
  /\ UNCHANGED tables

(* The order is inserted. *)
Insert(r) ==
  LET n == view[r].number IN
  /\ pc[r] = "insert" /\ orders[n] = NoRow
  /\ \A l \in locks : l[1] # n
  /\ locks' = locks \cup {<<n, r>>}
  /\ Goto(r, "credit")
  /\ UNCHANGED <<tables, view>>

(* GAP I: Increment credit_used when order is created; and the commit. *)
Create(r) ==
  LET v == view[r] IN
  /\ pc[r] = "credit"
  /\ orders' = [orders EXCEPT ![v.number] = [status |-> IF v.op = "other" THEN "OTHER" ELSE "OPEN",
                                             total |-> v.amount, paid |-> 0]]
  /\ used' = IF v.op = "other" THEN used ELSE v.used + v.amount
  /\ Done(r)
  /\ UNCHANGED receipts

-----------------------------------------------------------------------------
(* Mutant: an order may be cancelled again. *)
BugCancellable(status) == status # "DELIVERED"

(* cancel_order refuses a delivered or cancelled order. *)
Cancellable(status) == status \notin {"DELIVERED", "CANCELLED"}

(* The requests about an order load it, then its customer.                 *)
(* update_order_status accepts any status for any order.                   *)
StartChange(r) ==
  /\ \E n \in Mine, op \in {"cancel", "status", "payment"}, a \in Amounts,
        s \in {"OPEN", "DELIVERED", "CANCELLED"} :
       /\ op = "cancel" => Cancellable(orders[n].status) /\ s = "CANCELLED"
       /\ op = "payment" => orders[n].paid + a <= MaxMoney
       /\ view' = [view EXCEPT ![r].op = op, ![r].number = n, ![r].loaded = orders[n],
                               ![r].amount = IF op = "payment" THEN a ELSE orders[n].total,
                               ![r].status = IF op = "payment" THEN "NONE" ELSE s]
  /\ Goto(r, "customer")
  /\ UNCHANGED <<tables, locks>>

StartReceipt(r) ==
  /\ \E a \in Amounts \ {0} :
       /\ receipts + a <= MaxMoney
       /\ view' = [view EXCEPT ![r].op = "receipt", ![r].amount = a]
  /\ Goto(r, "customer")
  /\ UNCHANGED <<tables, locks>>

(* Mutant: a cancellation gives no credit back. *)
BugReleases(v) == v.op \in {"payment", "receipt"}

(* The requests that lower credit_used. *)
Releases(v) == v.op \in {"payment", "receipt"} \/ v.status = "CANCELLED"

(* So for a status.  OPEN stands for several: one is written over another. *)
Statused(new, loaded, now) ==
  {Changed(new, loaded, now)} \cup (IF new = "OPEN" THEN {"OPEN"} ELSE {})

(* The order, the customer and the ledger are written, and the commit. *)
Write(r) ==
  LET v == view[r]
      n == v.number IN
  /\ pc[r] = "write"
  /\ used' = IF Releases(v) THEN Changed(Lowered(v.used, v.amount), v.used, used) ELSE used
  /\ CASE v.op = "receipt" -> UNCHANGED orders
       [] v.op = "payment" -> orders' = [orders EXCEPT ![n].paid =
                                           Changed(v.loaded.paid + v.amount, v.loaded.paid, @)]
       [] OTHER -> \E s \in Statused(v.status, v.loaded.status, orders[n].status) :
                     orders' = [orders EXCEPT ![n].status = s]
  /\ receipts' = IF v.op = "receipt" THEN receipts + v.amount ELSE receipts
  /\ Done(r)

Start(r) == pc[r] = "idle" /\ (StartOrder(r) \/ StartChange(r) \/ StartReceipt(r))

Step(r) ==
  \/ Start(r) \/ ReadCustomer(r) \/ Count(r) \/ Check(r) \/ Insert(r) \/ Create(r) \/ Write(r)
  \/ Fail(r)

Serve == (\E r \in Requests : Step(r)) /\ UNCHANGED today

-----------------------------------------------------------------------------
(* The gateway's answer is verified, or it reports an order paid: the      *)
(* order's total, or what the gateway was paid, replaces what was paid.    *)
Gateway ==
  /\ \E n \in Mine, a \in Amounts :
       \/ orders' = [orders EXCEPT ![n].status = "OPEN", ![n].paid = orders[n].total]
       \/ orders' = [orders EXCEPT ![n].paid = a]
  /\ UNCHANGED <<used, receipts, today, locks, pc, view>>

(* The courier's webhook; so do the requests of the warehouse.             *)
Courier ==
  /\ \E n \in Mine, s \in {"OPEN", "DELIVERED", "CANCELLED"} :
       orders' = [orders EXCEPT ![n].status = s]
  /\ UNCHANGED <<used, receipts, today, locks, pc, view>>

Elsewhere == Gateway \/ Courier

Midnight ==
  /\ today < MaxDays /\ today' = today + 1
  /\ UNCHANGED <<tables, locks, pc, view>>

Next == Serve \/ Elsewhere \/ Midnight

Spec == Init /\ [][Next]_vars

-----------------------------------------------------------------------------
(* The state has the types of the tables and the request handlers, and     *)
(* only a request that is inserting holds a number.                        *)
TypeOK ==
  /\ used \in Nat /\ orders \in [Numbers -> OrderRows] /\ receipts \in Nat
  /\ today \in Days
  /\ \A l \in locks : l[1] \in Numbers /\ l[2] \in Requests /\ pc[l[2]] = "credit"
  /\ pc \in [Requests -> Steps] /\ view \in [Requests -> Views]

Live      == {n \in Mine : orders[n].status # "CANCELLED"}
Total     == [n \in Numbers |-> orders[n].total]
Paid      == [n \in Numbers |-> orders[n].paid]
Unpaid    == [n \in Numbers |-> Lowered(orders[n].total, orders[n].paid)]

(* credit_used never exceeds the limit, whatever overlaps.                 *)
UsedWithinLimit == used <= Limit

(* While only the office enters orders, and no midnight passes in one,     *)
(* credit_used is the total of the customer's orders, and so these stay    *)
(* within the limit, though no row is locked: of two orders that read the  *)
(* same credit one fails, because its number, counted before the customer  *)
(* was read, is taken.  Numbers of two dates differ.                       *)
OrdersCounted == used = SumFunctionOnSet(Total, Live)

(* While orders, cancellations, payments and receipts go through the       *)
(* office and the website, credit_used never exceeds what the customer has *)
(* yet to pay for orders that are not cancelled, so no order is refused    *)
(* for less.                                                               *)
NeverOvercharged == used <= SumFunctionOnSet(Unpaid, Live)

Outstanding == SumFunctionOnSet(Total, Live) - SumFunctionOnSet(Paid, Mine) - receipts

(* "Credit Limit | Maximum outstanding allowed": what has been ordered,    *)
(* less all that has been paid, is within the limit.                       *)
OutstandingWithinLimit == Outstanding <= Limit
=============================================================================
