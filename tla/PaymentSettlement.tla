------------------------- MODULE PaymentSettlement -------------------------
(***************************************************************************)
(* How an order comes to be paid: through the payment gateway (Razorpay),  *)
(* whose page, webhook and refunds reach app/api/v1/endpoints/payments.py, *)
(* or in the office (OrderService.add_payment).                            *)
(*                                                                         *)
(* The gateway's answers to the page are signed, and the page normally     *)
(* sends the order it was opened for.  Webhook events arrive in any order, *)
(* and more than once unless the handler's answer, 200 whatever happens,   *)
(* arrives.  verify and the webhook's handlers are each one UPDATE         *)
(* statement; the other requests read the order first.                     *)
(*                                                                         *)
(* Two things the code does not check are kept apart (Unchecked): verify   *)
(* updates the order its request names, whichever order the payment was    *)
(* made for, and an event without a signature header is handled too ("we'll*)
(* log and continue for testing").                                         *)
(*                                                                         *)
(* Two statements can never succeed, and what comes with them is rolled    *)
(* back: the handler of payment.captured selects customers.name, which is  *)
(* not a column, and both refund handlers write `:name::text', which is    *)
(* not read as a parameter.  So payment.captured and refunds change no row *)
(* and are left out.                                                       *)
(*                                                                         *)
(* All orders have the same total, and amounts are in paise; a gateway     *)
(* order stands also for the one payment that can succeed for it.          *)
(***************************************************************************)
EXTENDS Integers, FiniteSets, FiniteSetsExt

CONSTANTS
  Orders,    \* orders that are to be paid
  GOrders,   \* the gateway's orders
  Requests,  \* requests that may be under way at once; each serves many
  Total,     \* total_amount of an order
  Amounts,   \* what a page asks for, what the office receives at a time,
             \* and what an event without a signature says was paid
  MaxCash,   \* bound on what the office receives for an order
  None       \* no order, no gateway order

ASSUME PaymentAssumption ==
  /\ Total \in Nat \ {0} /\ Amounts \subseteq Nat /\ MaxCash \in Nat
  /\ None \notin Orders \cup GOrders

VARIABLES
  orders,    \* the rows of orders
  cash,      \* the order's rows of payments, summed
  gateway,   \* the gateway's orders
  answered,  \* the webhook events: what the handler made of each
  requests   \* the requests under way, and what they have read

vars == <<orders, cash, gateway, answered, requests>>

Statuses == {"NEW", "CONFIRMED", "CANCELLED"}
Payments == {"PENDING", "PARTIALLY_PAID", "PAID", "FAILED"}
Events   == {"payment.failed", "order.paid"} \X GOrders

OrderRows   == [status : Statuses, payment : Payments, paid : Nat, gorder : GOrders \cup {None}]
GatewayRows == [of : Orders \cup {None}, amount : Nat, failed : BOOLEAN,
                state : {"none", "created", "authorized", "captured"}]
Views       == [op : {"idle", "create", "payment"}, order : Orders \cup {None},
                amount : Nat, payment : Payments, paid : Nat]

NewRow == [status |-> "NEW", payment |-> "PENDING", paid |-> 0, gorder |-> None]
Idle   == [op |-> "idle", order |-> None, amount |-> 0, payment |-> "PENDING", paid |-> 0]

Init ==
  /\ orders = [o \in Orders |-> NewRow] /\ cash = [o \in Orders |-> 0]
  /\ gateway = [g \in GOrders |-> [of |-> None, amount |-> 0, failed |-> FALSE, state |-> "none"]]
  /\ answered = [e \in Events |-> "no"]
  /\ requests = [r \in Requests |-> Idle]

-----------------------------------------------------------------------------
(* A request loads the order.  create_payment_order refuses a paid one.    *)
Load(r) ==
  /\ requests[r] = Idle
  /\ \E o \in Orders, a \in Amounts, op \in {"create", "payment"} :
       /\ op = "create" => orders[o].payment # "PAID" /\ a > 0
       /\ op = "payment" => cash[o] + a <= MaxCash
       /\ requests' = [requests EXCEPT ![r] = [op |-> op, order |-> o, amount |-> a,
                                payment |-> orders[o].payment, paid |-> orders[o].paid]]
  /\ UNCHANGED <<orders, cash, gateway, answered>>

(* The request fails before it has an effect, here or at the gateway. *)
Fail(r) ==
  /\ requests[r] # Idle
  /\ requests' = [requests EXCEPT ![r] = Idle]
  /\ UNCHANGED <<orders, cash, gateway, answered>>

(* int(amount * 100): the product of the float may fall just short of the  *)
(* number of paise, 19.99 becomes 1998.  Razorpay takes no order of 0.     *)
Paise(a) == {p \in {a - 1, a} : p > 0}

(* Razorpay creates an order, and the order is updated. *)
CreateOrder(r, g) ==
  LET v == requests[r] IN
  /\ v.op = "create" /\ gateway[g].state = "none"
  /\ \E p \in Paise(v.amount) :
       gateway' = [gateway EXCEPT ![g] = [of |-> v.order, amount |-> p, failed |-> FALSE,
                                         state |-> "created"]]
  /\ orders' = [orders EXCEPT ![v.order].gorder = g]
  /\ requests' = [requests EXCEPT ![r] = Idle]
  /\ UNCHANGED <<cash, answered>>

(* Mutant: a status that no other code knows. *)
BugPaymentStatus(paid, loaded) ==
  IF paid >= Total THEN "PAID" ELSE IF paid > 0 THEN "PARTIAL" ELSE loaded

PaymentStatus(paid, loaded) ==
  IF paid >= Total THEN "PAID" ELSE IF paid > 0 THEN "PARTIALLY_PAID" ELSE loaded

(* What a column holds after an UPDATE that sets only changed columns.     *)
Changed(new, loaded, now) == IF new = loaded THEN now ELSE new

(* OrderService.add_payment *)
AddPayment(r) ==
  LET v    == requests[r]
      paid == v.paid + v.amount IN
  /\ v.op = "payment"
  /\ cash' = [cash EXCEPT ![v.order] = @ + v.amount]
  /\ orders' = [orders EXCEPT ![v.order].paid = Changed(paid, v.paid, @),
                  ![v.order].payment = Changed(PaymentStatus(paid, v.payment), v.payment, @)]
  /\ requests' = [requests EXCEPT ![r] = Idle]
  /\ UNCHANGED <<gateway, answered>>

(* The office confirms, cancels or reopens the order (update_order_status).*)
SetStatus(o) ==
  /\ \E s \in Statuses : orders' = [orders EXCEPT ![o].status = s]
  /\ UNCHANGED <<cash, gateway, answered, requests>>

-----------------------------------------------------------------------------
(* The gateway: an attempt to pay fails, an attempt is authorized, the     *)
(* payment is captured.                                                    *)
Attempt(g) ==
  /\ gateway[g].state \in {"created", "authorized"}
  /\ \/ gateway[g].state = "created" /\ gateway' = [gateway EXCEPT ![g].failed = TRUE]
     \/ gateway[g].state = "created" /\ gateway' = [gateway EXCEPT ![g].state = "authorized"]
     \/ gateway[g].state = "authorized" /\ gateway' = [gateway EXCEPT ![g].state = "captured"]
  /\ UNCHANGED <<orders, cash, answered, requests>>

Authorized == {g \in GOrders : gateway[g].state \in {"authorized", "captured"}}
Captured   == {g \in GOrders : gateway[g].state = "captured"}

(* The events the gateway has to report. *)
Sent(e) == IF e[1] = "order.paid" THEN e[2] \in Captured ELSE gateway[e[2]].failed

(* Mutant: the answer of the page is taken without its signature.          *)
BugVerified == {g \in GOrders : gateway[g].state # "none"}

(* The payments whose signature verify_payment accepts. *)
Verified == Authorized

(* Mutant: amount_paid is not updated. *)
BugPaidInFull(row) == [row EXCEPT !.payment = "PAID", !.status = "CONFIRMED"]

PaidInFull(row) == [row EXCEPT !.payment = "PAID", !.status = "CONFIRMED", !.paid = Total]

(* verify_payment, for the order the request names, and any number of      *)
(* times: the page keeps its signed answer.                                *)
Verify(g, o) ==
  /\ g \in Verified
  /\ orders' = [orders EXCEPT ![o] = PaidInFull(@)]
  /\ UNCHANGED <<cash, gateway, answered, requests>>

-----------------------------------------------------------------------------
(* _handle_payment_failed *)
PaymentFailed(row) == [row EXCEPT !.payment = "FAILED"]

(* Mutant: the amount is added to what has been paid. *)
BugOrderPaid(row, amount) ==
  [row EXCEPT !.payment = "PAID", !.paid = @ + amount,
              !.status = IF @ = "NEW" THEN "CONFIRMED" ELSE @]

(* Mutant: only an order that is still to be paid is marked as paid.       *)
BugPendingPaid(row, amount) ==
  IF row.payment = "FAILED" THEN row
  ELSE [row EXCEPT !.payment = "PAID", !.paid = amount,
                   !.status = IF @ = "NEW" THEN "CONFIRMED" ELSE @]

(* _handle_order_paid *)
OrderPaid(row, amount) ==
  [row EXCEPT !.payment = "PAID", !.paid = amount,
              !.status = IF @ = "NEW" THEN "CONFIRMED" ELSE @]

(* The rows that are updated: WHERE razorpay_order_id = :order_id.         *)
Concerned(g) == {o \in Orders : orders[o].gorder = g}

(* The orders after the handler of an event. *)
Updated(e, amount) ==
  [o \in Orders |-> IF o \notin Concerned(e[2]) THEN orders[o]
                    ELSE IF e[1] = "order.paid" THEN OrderPaid(orders[o], amount)
                    ELSE PaymentFailed(orders[o])]

(* razorpay_webhook: the handler succeeds, and the event is done with.     *)
Handle(e) ==
  /\ orders' = Updated(e, gateway[e[2]].amount)
  /\ answered' = [answered EXCEPT ![e] = "done"]
  /\ UNCHANGED <<cash, gateway, requests>>

(* The handler raises; "Return 200 to prevent Razorpay from retrying".     *)
Lose(e) ==
  /\ answered' = [answered EXCEPT ![e] = "lost"]
  /\ UNCHANGED <<orders, cash, gateway, requests>>

(* An event arrives for the first time. *)
Webhook(e) == answered[e] = "no" /\ Sent(e) /\ (Handle(e) \/ Lose(e))

(* The answer did not arrive, and the gateway sends the event again.       *)
Duplicate(e) == answered[e] = "done" /\ Handle(e)

(* An event without a signature header is handled as well, whatever it     *)
(* says.                                                                   *)
Unsigned(e) ==
  /\ \E a \in Amounts : orders' = Updated(e, a)
  /\ UNCHANGED <<cash, gateway, answered, requests>>

Once ==
  \/ \E r \in Requests :
       Load(r) \/ Fail(r) \/ AddPayment(r) \/ \E g \in GOrders : CreateOrder(r, g)
  \/ \E o \in Orders : SetStatus(o)
  \/ \E g \in GOrders : Attempt(g) \/ \E o \in Orders : gateway[g].of = o /\ Verify(g, o)
  \/ \E e \in Events : Webhook(e)

(* What the page and the gateway do of their own accord. *)
Genuine == Once \/ \E e \in Events : Duplicate(e)

(* What the handlers accept besides. *)
Unchecked ==
  \/ \E g \in GOrders, o \in Orders : gateway[g].of # o /\ Verify(g, o)
  \/ \E e \in Events : Unsigned(e)

Next == Genuine \/ Unchecked

(* "At least once": the gateway reports what it has to report until it is  *)
(* answered.  Nothing makes a page call verify.                            *)
Fairness == \A e \in Events : WF_vars(Webhook(e))

Spec == Init /\ [][Next]_vars /\ Fairness

-----------------------------------------------------------------------------
(* The state has the types of the tables, and a gateway order the row of   *)
(* an order refers to was made for it.                                     *)
TypeOK ==
  /\ orders \in [Orders -> OrderRows] /\ cash \in [Orders -> Nat]
  /\ gateway \in [GOrders -> GatewayRows]
  /\ answered \in [Events -> {"no", "done", "lost"}]
  /\ requests \in [Requests -> Views]
  /\ \A o \in Orders : orders[o].gorder # None => gateway[orders[o].gorder].of = o

(* A payment for an order that is marked as paid was authorized, or the    *)
(* office has received its total.                                          *)
PaidWasPaid ==
  \A o \in Orders : orders[o].payment = "PAID" =>
    \/ \E g \in Authorized : gateway[g].of = o
    \/ cash[o] >= Total

(* What came in for an order: in the office and through the gateway.       *)
Amount      == [g \in GOrders |-> gateway[g].amount]
Received(o) == cash[o] + SumFunctionOnSet(Amount, {g \in Authorized : gateway[g].of = o})

(* amount_paid never exceeds what came in by more than the paisa that a    *)
(* page's order may fall short of what it asked for.                       *)
NothingInvented == \A o \in Orders : orders[o].paid <= Received(o) + 1

(* A paid order stays paid until a payment for it is reported as failed:   *)
(* what the office receives and what the gateway reports agree.            *)
PaidUntilFailed ==
  \A o \in Orders : orders[o].payment = "PAID" => orders'[o].payment \in {"PAID", "FAILED"}

(* "Idempotent: Safe to receive duplicate events": an event that has been  *)
(* handled does not undo a payment when it is received again.              *)
DuplicatesSafe ==
  [][\A e \in Events : Duplicate(e) =>
       \A o \in Orders : orders[o].payment = "PAID" => orders'[o].payment = "PAID"]_vars

(* A captured payment gets its order marked as paid, unless the handler of *)
(* the event failed or another payment of the order was started.           *)
CapturedIsSeen ==
  \A g \in GOrders, o \in Orders :
    (g \in Captured /\ gateway[g].of = o /\ answered[<<"order.paid", g>>] = "no")
      ~> \/ orders[o].payment = "PAID" \/ orders[o].gorder # g
         \/ answered[<<"order.paid", g>>] = "lost"
=============================================================================
