---------------------- MODULE PaymentSettlementProofs ----------------------
(***************************************************************************)
(* Proofs about PaymentSettlement, for any orders, gateway orders,         *)
(* requests and amounts, and whatever overlaps, is repeated or is lost:    *)
(* the state keeps its type, and, but for what is not checked, an order is *)
(* marked as paid only if money for it came in.                            *)
(***************************************************************************)
EXTENDS PaymentModes, SumTheorems

(* A payment for the order was authorized. *)
Backed(o) == \E g \in Authorized : gateway[g].of = o

(* A gateway order that exists was made for an order, a request that is    *)
(* under way is about one, and a payment that was reported was captured.   *)
Linked ==
  /\ \A g \in GOrders : gateway[g].of = None <=> gateway[g].state = "none"
  /\ \A r \in Requests : requests[r].op # "idle" => requests[r].order \in Orders
  /\ \A g \in GOrders : answered[<<"order.paid", g>>] # "no" => g \in Captured

(* Without an authorized payment, amount_paid, also as a request has read  *)
(* it, is covered by what the office received.                             *)
Covered ==
  /\ \A o \in Orders : Backed(o) \/ orders[o].paid <= cash[o]
  /\ \A r \in Requests : requests[r].op = "payment" =>
       Backed(requests[r].order) \/ requests[r].paid <= cash[requests[r].order]

(* What every step keeps, and what every genuine step keeps besides.       *)
TInv   == TypeOK /\ Linked
Paying == Covered /\ PaidWasPaid

IInv == TInv /\ (mode # "open" => Paying)

(* What the assumption says of the constants. *)
LEMMA Constants ==
  /\ Total \in Nat /\ Total > 0 /\ None \notin Orders /\ None \notin GOrders
  /\ \A a \in Amounts : a \in Nat
BY PaymentAssumption

(* Nothing is paid at first. *)
LEMMA InitInv == Init => TInv /\ Paying
<1> SUFFICES ASSUME Init PROVE TInv /\ Paying
  OBVIOUS
<1>1. NewRow \in OrderRows /\ Idle \in Views
  BY DEF NewRow, OrderRows, Idle, Views, Statuses, Payments
<1>2. TypeOK
  BY <1>1 DEF Init, TypeOK, GatewayRows, NewRow
<1>3. Linked
  BY DEF Init, Linked, Events, Idle
<1>4. Covered /\ PaidWasPaid
  BY DEF Init, Covered, PaidWasPaid, Idle, NewRow
<1> QED BY <1>2, <1>3, <1>4 DEF TInv, Paying

(* A step that leaves the gateway and the requests alone, or ends one,     *)
(* keeps what concerns them.                                               *)
LEMMA LoadInv ==
  ASSUME TInv, NEW r \in Requests, Load(r)
  PROVE  TInv' /\ (Paying => Paying')
<1>1. PICK o \in Orders, a \in Amounts, op \in {"create", "payment"} :
        requests' = [requests EXCEPT ![r] = [op |-> op, order |-> o, amount |-> a,
                                payment |-> orders[o].payment, paid |-> orders[o].paid]]
  BY DEF Load
<1>2. UNCHANGED <<orders, cash, gateway, answered>>
  BY DEF Load
<1>3. orders[o].payment \in Payments /\ orders[o].paid \in Nat /\ a \in Nat
  BY Constants DEF TInv, TypeOK, OrderRows
<1>4. TypeOK'
  <2>1. requests' \in [Requests -> Views]
    BY <1>1, <1>3 DEF TInv, TypeOK, Views, Payments
  <2> QED BY <1>2, <2>1 DEF TInv, TypeOK
<1>5. Linked'
  BY <1>1, <1>2 DEF TInv, TypeOK, Linked, Captured
<1>6. Paying => Covered'
  BY <1>1, <1>2 DEF Paying, TInv, TypeOK, Covered, Backed, Authorized
<1>7. Paying => PaidWasPaid'
  BY <1>2 DEF Paying, TInv, PaidWasPaid, Authorized
<1> QED BY <1>4, <1>5, <1>6, <1>7 DEF TInv, Paying

LEMMA FailInv ==
  ASSUME TInv, NEW r \in Requests, Fail(r)
  PROVE  TInv' /\ (Paying => Paying')
<1>1. requests' = [requests EXCEPT ![r] = Idle] /\ UNCHANGED <<orders, cash, gateway, answered>>
  BY DEF Fail
<1>2. Idle \in Views /\ Idle.op = "idle"
  BY DEF Idle, Views, Payments
<1>3. TypeOK'
  BY <1>1, <1>2 DEF TInv, TypeOK
<1>4. Linked'
  BY <1>1, <1>2 DEF TInv, TypeOK, Linked, Captured
<1>5. Paying => Covered'
  BY <1>1, <1>2 DEF Paying, TInv, TypeOK, Covered, Backed, Authorized
<1>6. Paying => PaidWasPaid'
  BY <1>1 DEF Paying, TInv, PaidWasPaid, Authorized
<1> QED BY <1>3, <1>4, <1>5, <1>6 DEF TInv, Paying

(* A new gateway order: nobody refers to one that does not exist.          *)
LEMMA CreateOrderInv ==
  ASSUME TInv, NEW r \in Requests, NEW g \in GOrders, CreateOrder(r, g)
  PROVE  TInv' /\ (Paying => Paying')
<1> DEFINE o == requests[r].order
<1>0. PICK paise \in Paise(requests[r].amount) :
        gateway' = [gateway EXCEPT ![g] = [of |-> o, amount |-> paise, failed |-> FALSE,
                                          state |-> "created"]]
  BY DEF CreateOrder
<1> DEFINE row == [of |-> o, amount |-> paise, failed |-> FALSE, state |-> "created"]
<1>1. /\ gateway' = [gateway EXCEPT ![g] = row]
      /\ orders' = [orders EXCEPT ![o].gorder = g]
      /\ requests' = [requests EXCEPT ![r] = Idle]
      /\ UNCHANGED <<cash, answered>>
      /\ gateway[g].state = "none" /\ requests[r].op = "create"
  BY <1>0 DEF CreateOrder
<1>2. o \in Orders /\ paise \in Nat /\ gateway[g].of = None
  <2>1. o \in Orders /\ requests[r].amount \in Nat /\ gateway[g].of = None
    BY <1>1 DEF TInv, TypeOK, Linked, Views
  <2> QED BY <2>1 DEF Paise
<1>3. Idle \in Views /\ Idle.op = "idle"
  BY DEF Idle, Views, Payments
<1>4. \A p \in Orders : orders[p].gorder # g
  BY <1>2, Constants DEF TInv, TypeOK
<1>5. gateway \in [GOrders -> GatewayRows] /\ orders \in [Orders -> OrderRows]
  BY DEF TInv, TypeOK
<1>6. /\ gateway' \in [GOrders -> GatewayRows]
      /\ orders' \in [Orders -> OrderRows]
  BY <1>1, <1>2, <1>5 DEF GatewayRows, OrderRows
<1>7. /\ orders'[o].gorder = g
      /\ \A p \in Orders \ {o} : orders'[p] = orders[p]
      /\ orders'[o].payment = orders[o].payment /\ orders'[o].paid = orders[o].paid
      /\ gateway'[g] = row
      /\ \A h \in GOrders \ {g} : gateway'[h] = gateway[h]
  BY <1>1, <1>2, <1>5 DEF OrderRows
<1>8. TypeOK'
  <2>1. requests' \in [Requests -> Views]
    BY <1>1, <1>3 DEF TInv, TypeOK
  <2>2. \A p \in Orders : orders'[p].gorder # None => gateway'[orders'[p].gorder].of = p
    <3> TAKE p \in Orders
    <3>1. CASE p = o
      BY <3>1, <1>7
    <3>2. CASE p # o
      BY <3>2, <1>4, <1>6, <1>7 DEF TInv, TypeOK, OrderRows
    <3> QED BY <3>1, <3>2
  <2> QED BY <1>1, <1>6, <2>1, <2>2 DEF TInv, TypeOK
<1>9. Authorized' = Authorized /\ Captured' = Captured
  BY <1>1, <1>7 DEF Authorized, Captured
<1>10. \A p \in Orders : Backed(p)' <=> Backed(p)
  BY <1>1, <1>7, <1>9 DEF Backed, Authorized
<1>11. Linked'
  BY <1>1, <1>2, <1>3, <1>7, <1>9, Constants DEF TInv, TypeOK, Linked
<1>12. Paying => Covered'
  BY <1>1, <1>3, <1>7, <1>10 DEF Paying, TInv, TypeOK, Linked, Covered
<1>13. Paying => PaidWasPaid'
  BY <1>1, <1>7, <1>10 DEF Paying, TInv, PaidWasPaid, Backed
<1> QED BY <1>8, <1>11, <1>12, <1>13 DEF TInv, Paying

(* A payment received in the office: if no payment was authorized, what    *)
(* the request read and adds to is covered by the payments.                *)
LEMMA AddPaymentInv ==
  ASSUME TInv, NEW r \in Requests, AddPayment(r)
  PROVE  TInv' /\ (Paying => Paying')
<1> DEFINE v == requests[r]
           o == v.order
           amount == Changed(v.paid + v.amount, v.paid, orders[o].paid)
           status == Changed(PaymentStatus(v.paid + v.amount, v.payment), v.payment,
                             orders[o].payment)
<1>1. /\ cash' = [cash EXCEPT ![o] = @ + v.amount]
      /\ orders' = [orders EXCEPT ![o].paid = amount, ![o].payment = status]
      /\ requests' = [requests EXCEPT ![r] = Idle]
      /\ UNCHANGED <<gateway, answered>> /\ v.op = "payment"
  BY DEF AddPayment
<1>2. o \in Orders /\ v.amount \in Nat /\ v.paid \in Nat /\ v.payment \in Payments
  BY <1>1 DEF TInv, TypeOK, Linked, Views
<1>3. Idle \in Views /\ Idle.op = "idle"
  BY DEF Idle, Views, Payments
<1>4. orders \in [Orders -> OrderRows] /\ cash \in [Orders -> Nat]
  BY DEF TInv, TypeOK
<1>5. status \in Payments /\ amount \in Nat /\ amount \in {v.paid + v.amount, orders[o].paid}
  <2>1. orders[o].payment \in Payments /\ orders[o].paid \in Nat
    BY <1>2, <1>4 DEF OrderRows
  <2>2. PaymentStatus(v.paid + v.amount, v.payment) \in Payments
    BY <1>2 DEF PaymentStatus, Payments
  <2>3. v.paid + v.amount \in Nat
    BY <1>2
  <2> QED BY <2>1, <2>2, <2>3 DEF Changed
<1>6. /\ orders' \in [Orders -> OrderRows] /\ cash' \in [Orders -> Nat]
      /\ \A p \in Orders \ {o} : orders'[p] = orders[p] /\ cash'[p] = cash[p]
      /\ orders'[o].payment = status /\ orders'[o].paid = amount
      /\ orders'[o].gorder = orders[o].gorder
      /\ cash'[o] = cash[o] + v.amount
  <2>1. orders'[o] = [orders[o] EXCEPT !.paid = amount, !.payment = status]
    BY <1>1, <1>2, <1>4
  <2>2. orders'[o] \in OrderRows
    <3>1. PICK old \in OrderRows : old = orders[o]
      BY <1>2, <1>4
    <3>2. PICK paid \in Nat : paid = amount
      BY <1>5
    <3>3. PICK payment \in Payments : payment = status
      BY <1>5
    <3>4. [old EXCEPT !.paid = paid, !.payment = payment] \in OrderRows
      BY DEF OrderRows
    <3> QED BY <2>1, <3>1, <3>2, <3>3, <3>4
  <2>3. cash' \in [Orders -> Nat] /\ cash'[o] = cash[o] + v.amount
    BY <1>1, <1>2, <1>4
  <2>4. orders[o] \in OrderRows
    BY <1>2, <1>4
  <2> HIDE DEF v, amount, status
  <2>5. /\ orders'[o].payment = status /\ orders'[o].paid = amount
        /\ orders'[o].gorder = orders[o].gorder
    BY <2>1, <2>4 DEF OrderRows
  <2> QED BY <1>1, <1>2, <1>4, <2>2, <2>3, <2>5
<1>7. TypeOK'
  <2>1. requests' \in [Requests -> Views]
    BY <1>1, <1>3 DEF TInv, TypeOK
  <2>2. \A p \in Orders : orders'[p].gorder = orders[p].gorder
    BY <1>6
  <2>3. UNCHANGED <<gateway, answered>>
    BY <1>1
  <2>4. orders' \in [Orders -> OrderRows] /\ cash' \in [Orders -> Nat]
    BY <1>6
  <2> HIDE DEF v, o, amount, status
  <2> QED BY <2>1, <2>2, <2>3, <2>4 DEF TInv, TypeOK
<1>8. \A p \in Orders : Backed(p)' <=> Backed(p)
  BY <1>1 DEF Backed, Authorized
<1>9. Linked'
  BY <1>1, <1>3 DEF TInv, TypeOK, Linked, Captured
<1>10. Paying => Covered'
  <2> SUFFICES ASSUME Paying PROVE Covered'
    OBVIOUS
  <2>1. Backed(o) \/ v.paid <= cash[o]
    BY <1>1 DEF Paying, Covered
  <2>2. \A p \in Orders : Backed(p)' \/ orders'[p].paid <= cash'[p]
    <3> TAKE p \in Orders
    <3>1. CASE p = o
      <4>1. Backed(o) \/ orders[o].paid <= cash[o]
        BY <1>2 DEF Paying, Covered
      <4>2. orders[o].paid \in Nat /\ cash[o] \in Nat /\ cash'[o] = cash[o] + v.amount
        BY <1>2, <1>4, <1>6 DEF OrderRows
      <4>3. orders'[o].paid \in {v.paid + v.amount, orders[o].paid}
        BY <1>5, <1>6
      <4> HIDE DEF v, amount, status
      <4> QED BY <3>1, <2>1, <1>2, <1>8, <4>1, <4>2, <4>3
    <3>2. CASE p # o
      BY <3>2, <1>6, <1>8 DEF Paying, TInv, Covered
    <3> QED BY <3>1, <3>2
  <2>3. \A p \in Orders : cash[p] \in Nat /\ cash'[p] \in Nat /\ cash[p] <= cash'[p]
    BY <1>2, <1>4, <1>6
  <2>4. ASSUME NEW q \in Requests, requests'[q].op = "payment"
        PROVE  (Backed(requests[q].order) \/ requests[q].paid <= cash[requests[q].order])'
    <3>1. q # r /\ requests'[q] = requests[q]
      BY <2>4, <1>1, <1>3 DEF Paying, TInv, TypeOK
    <3>2. requests[q].order \in Orders /\ requests[q].paid \in Nat
      BY <3>1, <2>4 DEF Paying, TInv, TypeOK, Linked, Views
    <3>3. Backed(requests[q].order) \/ requests[q].paid <= cash[requests[q].order]
      BY <3>1, <2>4 DEF Paying, TInv, Covered
    <3>4. cash[requests[q].order] \in Nat /\ cash'[requests[q].order] \in Nat
            /\ cash[requests[q].order] <= cash'[requests[q].order]
      BY <2>3, <3>2
    <3>5. CASE Backed(requests[q].order)
      BY <3>5, <3>1, <1>1 DEF Backed, Authorized
    <3>6. CASE requests[q].paid <= cash[requests[q].order]
      BY <3>6, <3>1, <3>2, <3>4
    <3> QED BY <3>3, <3>5, <3>6
  <2> QED BY <2>2, <2>4 DEF Covered
<1>11. Paying => PaidWasPaid'
  <2> SUFFICES ASSUME Paying, NEW p \in Orders, orders'[p].payment = "PAID"
               PROVE  Backed(p)' \/ cash'[p] >= Total
    BY DEF PaidWasPaid, Backed
  <2>1. CASE p # o
    BY <2>1, <1>6, <1>8 DEF Paying, PaidWasPaid, Backed
  <2>2. CASE p = o /\ orders[o].payment = "PAID"
    BY <2>2, <1>2, <1>4, <1>6, <1>8, Constants DEF Paying, PaidWasPaid, Backed
  <2>3. CASE p = o /\ orders[o].payment # "PAID"
    <3>1. PaymentStatus(v.paid + v.amount, v.payment) = "PAID" /\ v.payment # "PAID"
      BY <2>3, <1>6 DEF Changed
    <3>2. v.paid + v.amount >= Total
      BY <3>1 DEF PaymentStatus
    <3>3. Backed(o) \/ v.paid <= cash[o]
      BY <1>1 DEF Paying, Covered
    <3> QED BY <2>3, <3>2, <3>3, <1>2, <1>4, <1>6, <1>8, Constants
  <2> QED BY <2>1, <2>2, <2>3
<1> QED BY <1>7, <1>9, <1>10, <1>11 DEF TInv, Paying

(* What is paid is as before, or backed by an authorized payment.          *)
PaidBacked ==
  \A o \in Orders :
    /\ Backed(o) \/ orders'[o].paid = orders[o].paid
    /\ Backed(o) \/ orders'[o].payment \in {orders[o].payment, "FAILED"}

(* A step that changes only orders, each to a row of the right type, with  *)
(* the same gateway order.                                                 *)
LEMMA OrdersInv ==
  ASSUME TInv, orders' \in [Orders -> OrderRows],
         UNCHANGED <<cash, gateway, requests>>,
         answered' \in [Events -> {"no", "done", "lost"}],
         \A g \in GOrders : answered'[<<"order.paid", g>>] # "no" => g \in Captured,
         \A o \in Orders : orders'[o].gorder = orders[o].gorder
  PROVE  TInv' /\ (PaidBacked /\ Paying => Paying')
<1>1. TypeOK'
  BY DEF TInv, TypeOK
<1>2. \A o \in Orders : Backed(o)' <=> Backed(o)
  BY DEF Backed, Authorized
<1>3. Linked'
  BY DEF TInv, Linked, Captured
<1>4. PaidBacked /\ Paying => Covered'
  <2>1. \A r \in Requests : Backed(requests[r].order)' <=> Backed(requests[r].order)
    BY DEF Backed, Authorized
  <2> QED BY <1>2, <2>1 DEF PaidBacked, Paying, Covered
<1>5. PaidBacked /\ Paying => PaidWasPaid'
  BY <1>2 DEF PaidBacked, Paying, PaidWasPaid, Backed
<1> QED BY <1>1, <1>3, <1>4, <1>5 DEF TInv, Paying

LEMMA SetStatusInv ==
  ASSUME TInv, NEW o \in Orders, SetStatus(o)
  PROVE  TInv' /\ (Paying => Paying')
<1>1. PICK s \in Statuses : orders' = [orders EXCEPT ![o].status = s]
  BY DEF SetStatus
<1>2. orders \in [Orders -> OrderRows]
  BY DEF TInv, TypeOK
<1>3. /\ orders' \in [Orders -> OrderRows]
      /\ \A p \in Orders : /\ orders'[p].gorder = orders[p].gorder
                           /\ orders'[p].paid = orders[p].paid
                           /\ orders'[p].payment = orders[p].payment
  BY <1>1, <1>2 DEF OrderRows
<1>4. PaidBacked
  BY <1>3 DEF PaidBacked
<1> QED BY <1>3, <1>4, OrdersInv DEF SetStatus, TInv, TypeOK, Linked

(* The page's answer is signed, so its payment was authorized; for the     *)
(* order it was made for if the request names that one.                    *)
LEMMA VerifyInv ==
  ASSUME TInv, NEW g \in GOrders, NEW o \in Orders, Verify(g, o)
  PROVE  TInv' /\ (gateway[g].of = o /\ Paying => Paying')
<1>1. /\ g \in Authorized /\ orders' = [orders EXCEPT ![o] = PaidInFull(@)]
      /\ UNCHANGED <<cash, gateway, answered, requests>>
  BY DEF Verify, Verified
<1>2. orders \in [Orders -> OrderRows]
  BY DEF TInv, TypeOK
<1>3. gateway[g].of = o => Backed(o)
  BY <1>1 DEF Backed
<1>4. PaidInFull(orders[o]) \in OrderRows /\ PaidInFull(orders[o]).gorder = orders[o].gorder
  BY <1>2, Constants DEF PaidInFull, OrderRows, Statuses, Payments
<1>5. orders' \in [Orders -> OrderRows] /\ orders'[o] = PaidInFull(orders[o])
        /\ \A p \in Orders \ {o} : orders'[p] = orders[p]
  BY <1>1, <1>2, <1>4
<1>6. gateway[g].of = o => PaidBacked
  BY <1>3, <1>5 DEF PaidBacked
<1>7. \A p \in Orders : orders'[p].gorder = orders[p].gorder
  BY <1>4, <1>5
<1> QED BY <1>1, <1>5, <1>6, <1>7, OrdersInv DEF TInv, TypeOK, Linked

(* An event about a captured payment, or about a failed attempt, or one    *)
(* that says anything.                                                     *)
LEMMA UpdatedInv ==
  ASSUME TInv, NEW e \in Events, NEW a \in Nat, orders' = Updated(e, a),
         UNCHANGED <<cash, gateway, requests>>,
         answered' \in [Events -> {"no", "done", "lost"}],
         \A g \in GOrders : answered'[<<"order.paid", g>>] # "no" => g \in Captured
  PROVE  /\ TInv'
         /\ (e[1] = "order.paid" => e[2] \in Captured) /\ Paying => Paying'
<1>1. \A o \in Orders : orders'[o] =
        IF o \notin Concerned(e[2]) THEN orders[o]
        ELSE IF e[1] = "order.paid" THEN OrderPaid(orders[o], a)
        ELSE PaymentFailed(orders[o])
  BY DEF Updated
<1>2. e[2] \in GOrders
  BY DEF Events
<1>3. ASSUME NEW o \in Orders
      PROVE  /\ orders'[o] \in OrderRows /\ orders'[o].gorder = orders[o].gorder
             /\ (e[1] = "order.paid" => e[2] \in Captured) =>
                  /\ Backed(o) \/ orders'[o].paid = orders[o].paid
                  /\ Backed(o) \/ orders'[o].payment \in {orders[o].payment, "FAILED"}
  <2>1. orders[o] \in OrderRows
    BY DEF TInv, TypeOK
  <2>2. CASE o \notin Concerned(e[2])
    BY <1>1, <2>1, <2>2
  <2>3. CASE o \in Concerned(e[2]) /\ e[1] = "order.paid"
    <3>1. gateway[e[2]].of = o
      BY <2>3, <1>2, Constants DEF Concerned, TInv, TypeOK
    <3>2. e[2] \in Captured => Backed(o)
      BY <3>1, <1>2 DEF Backed, Authorized, Captured
    <3>3. orders'[o] = OrderPaid(orders[o], a)
      BY <1>1, <2>3
    <3>4. orders'[o] \in OrderRows /\ orders'[o].gorder = orders[o].gorder
      BY <3>3, <2>1 DEF OrderPaid, OrderRows, Statuses, Payments
    <3> QED BY <2>3, <3>2, <3>4
  <2>4. CASE o \in Concerned(e[2]) /\ e[1] # "order.paid"
    <3>1. orders'[o] = PaymentFailed(orders[o])
      BY <1>1, <2>4
    <3> QED BY <3>1, <2>1 DEF PaymentFailed, OrderRows, Payments
  <2> QED BY <2>2, <2>3, <2>4
<1>4. orders' \in [Orders -> OrderRows]
  BY <1>3 DEF Updated
<1>5. (e[1] = "order.paid" => e[2] \in Captured) => PaidBacked
  BY <1>3 DEF PaidBacked
<1> QED BY <1>3, <1>4, <1>5, OrdersInv

LEMMA HandleInv ==
  ASSUME TInv, NEW e \in Events, Handle(e), e[1] = "order.paid" => e[2] \in Captured
  PROVE  TInv' /\ (Paying => Paying')
<1>1. /\ orders' = Updated(e, gateway[e[2]].amount) /\ answered' = [answered EXCEPT ![e] = "done"]
      /\ UNCHANGED <<cash, gateway, requests>>
  BY DEF Handle
<1>2. e[2] \in GOrders /\ e = <<e[1], e[2]>>
  BY DEF Events
<1>3. gateway[e[2]].amount \in Nat
  BY <1>2 DEF TInv, TypeOK, GatewayRows
<1>4. /\ answered' \in [Events -> {"no", "done", "lost"}]
      /\ \A g \in GOrders : answered'[<<"order.paid", g>>] # "no" => g \in Captured
  BY <1>1, <1>2 DEF TInv, TypeOK, Linked, Events
<1> QED BY <1>1, <1>3, <1>4, UpdatedInv

LEMMA UnsignedInv ==
  ASSUME TInv, NEW e \in Events, Unsigned(e)
  PROVE  TInv'
<1>1. PICK a \in Amounts : orders' = Updated(e, a)
  BY DEF Unsigned
<1> QED BY <1>1, Constants, UpdatedInv DEF Unsigned, TInv, TypeOK, Linked

LEMMA LoseInv ==
  ASSUME TInv, NEW e \in Events, Lose(e), e[1] = "order.paid" => e[2] \in Captured
  PROVE  TInv' /\ (Paying => Paying')
<1>1. answered' = [answered EXCEPT ![e] = "lost"] /\ UNCHANGED <<orders, cash, gateway, requests>>
  BY DEF Lose
<1>2. /\ answered' \in [Events -> {"no", "done", "lost"}]
      /\ \A g \in GOrders : answered'[<<"order.paid", g>>] # "no" => g \in Captured
  BY <1>1 DEF TInv, TypeOK, Linked, Events
<1>3. PaidBacked
  BY <1>1 DEF PaidBacked
<1> QED BY <1>1, <1>2, <1>3, OrdersInv DEF TInv, TypeOK

(* What is authorized stays authorized, what is captured stays captured.   *)
LEMMA AttemptInv ==
  ASSUME TInv, NEW g \in GOrders, Attempt(g)
  PROVE  TInv' /\ (Paying => Paying')
<1>1. /\ UNCHANGED <<orders, cash, answered, requests>>
      /\ gateway[g].state \in {"created", "authorized"}
      /\ \/ gateway' = [gateway EXCEPT ![g].failed = TRUE]
         \/ gateway[g].state = "created" /\ gateway' = [gateway EXCEPT ![g].state = "authorized"]
         \/ gateway[g].state = "authorized" /\ gateway' = [gateway EXCEPT ![g].state = "captured"]
  BY DEF Attempt
<1>2. gateway \in [GOrders -> GatewayRows]
  BY DEF TInv, TypeOK
<1>3. /\ gateway' \in [GOrders -> GatewayRows]
      /\ \A h \in GOrders :
           /\ gateway'[h].of = gateway[h].of
           /\ gateway'[h].state = "none" <=> gateway[h].state = "none"
           /\ gateway[h].state \in {"authorized", "captured"} =>
                gateway'[h].state \in {"authorized", "captured"}
           /\ gateway[h].state = "captured" => gateway'[h].state = "captured"
  <2>1. PICK old \in GatewayRows : old = gateway[g]
    BY <1>2
  <2>2. PICK new \in GatewayRows :
          /\ gateway' = [gateway EXCEPT ![g] = new]
          /\ new.of = old.of
          /\ \/ new.state = old.state
             \/ old.state = "created" /\ new.state = "authorized"
             \/ old.state = "authorized" /\ new.state = "captured"
    <3>1. CASE gateway' = [gateway EXCEPT ![g].failed = TRUE]
      <4>1. [old EXCEPT !.failed = TRUE] \in GatewayRows
        BY DEF GatewayRows
      <4>2. gateway' = [gateway EXCEPT ![g] = [old EXCEPT !.failed = TRUE]]
        BY <2>1, <3>1
      <4> QED BY <4>1, <4>2 DEF GatewayRows
    <3>2. CASE old.state = "created" /\ gateway' = [gateway EXCEPT ![g].state = "authorized"]
      <4>1. [old EXCEPT !.state = "authorized"] \in GatewayRows
        BY DEF GatewayRows
      <4>2. gateway' = [gateway EXCEPT ![g] = [old EXCEPT !.state = "authorized"]]
        BY <2>1, <3>2
      <4> QED BY <3>2, <4>1, <4>2 DEF GatewayRows
    <3>3. CASE old.state = "authorized" /\ gateway' = [gateway EXCEPT ![g].state = "captured"]
      <4>1. [old EXCEPT !.state = "captured"] \in GatewayRows
        BY DEF GatewayRows
      <4>2. gateway' = [gateway EXCEPT ![g] = [old EXCEPT !.state = "captured"]]
        BY <2>1, <3>3
      <4> QED BY <3>3, <4>1, <4>2 DEF GatewayRows
    <3> QED BY <1>1, <2>1, <3>1, <3>2, <3>3
  <2>3. gateway' \in [GOrders -> GatewayRows] /\ gateway'[g] = new
          /\ \A h \in GOrders \ {g} : gateway'[h] = gateway[h]
    BY <1>2, <2>2
  <2> QED BY <2>1, <2>2, <2>3
<1>4. TypeOK'
  BY <1>1, <1>3 DEF TInv, TypeOK, OrderRows
<1>5. Authorized \subseteq Authorized' /\ Captured \subseteq Captured'
  BY <1>3 DEF Authorized, Captured
<1>6. ASSUME NEW o PROVE Backed(o) => Backed(o)'
  BY <1>3, <1>5 DEF Backed, Authorized
<1>7. Linked'
  BY <1>1, <1>3, <1>5 DEF TInv, Linked
<1>8. Paying => Covered'
  BY <1>1, <1>6 DEF Paying, TInv, Covered
<1>9. Paying => PaidWasPaid'
  BY <1>1, <1>6 DEF Paying, TInv, PaidWasPaid, Backed
<1> QED BY <1>4, <1>7, <1>8, <1>9 DEF TInv, Paying

(* A genuine step keeps what is paid covered. *)
LEMMA GenuineInv ==
  ASSUME TInv, Genuine
  PROVE  TInv' /\ (Paying => Paying')
<1>1. CASE Once
  <2>1. ASSUME NEW r \in Requests,
               Load(r) \/ Fail(r) \/ AddPayment(r) \/ \E g \in GOrders : CreateOrder(r, g)
        PROVE  TInv' /\ (Paying => Paying')
    BY <2>1, LoadInv, FailInv, AddPaymentInv, CreateOrderInv
  <2>2. ASSUME NEW o \in Orders, SetStatus(o) PROVE TInv' /\ (Paying => Paying')
    BY <2>2, SetStatusInv
  <2>3. ASSUME NEW g \in GOrders,
               Attempt(g) \/ \E o \in Orders : gateway[g].of = o /\ Verify(g, o)
        PROVE  TInv' /\ (Paying => Paying')
    BY <2>3, AttemptInv, VerifyInv
  <2>4. ASSUME NEW e \in Events, Webhook(e) PROVE TInv' /\ (Paying => Paying')
    <3>1. e[1] = "order.paid" => e[2] \in Captured
      BY <2>4 DEF Webhook, Sent
    <3> QED BY <2>4, <3>1, HandleInv, LoseInv DEF Webhook
  <2> QED BY <1>1, <2>1, <2>2, <2>3, <2>4 DEF Once
<1>2. ASSUME NEW e \in Events, Duplicate(e) PROVE TInv' /\ (Paying => Paying')
  <2>1. e[1] = "order.paid" => e[2] \in Captured
    BY <1>2 DEF Duplicate, TInv, Linked, Events
  <2> QED BY <1>2, <2>1, HandleInv DEF Duplicate
<1> QED BY <1>1, <1>2 DEF Genuine

LEMMA StutterInv ==
  ASSUME TInv, UNCHANGED vars
  PROVE  TInv' /\ (Paying => Paying')
<1>1. TypeOK' /\ Linked'
  BY DEF vars, TInv, TypeOK, Linked, Captured
<1>2. Paying => Covered' /\ PaidWasPaid'
  BY DEF vars, Paying, Covered, Backed, Authorized, PaidWasPaid
<1> QED BY <1>1, <1>2 DEF TInv, Paying

(* Every step keeps the types and the links. *)
LEMMA StepTInv == TInv /\ [Next]_vars => TInv'
<1> SUFFICES ASSUME TInv, [Next]_vars PROVE TInv'
  OBVIOUS
<1>1. CASE Genuine
  BY <1>1, GenuineInv
<1>2. CASE Unchecked
  BY <1>2, VerifyInv, UnsignedInv DEF Unchecked
<1>3. CASE UNCHANGED vars
  BY <1>3, StutterInv
<1> QED BY <1>1, <1>2, <1>3 DEF Next

(* The orders, the gateway's orders, the events and the requests keep      *)
(* their types, and an order refers only to gateway orders made for it,    *)
(* whatever is sent.                                                       *)
THEOREM TypeCorrect == Spec => []TypeOK
<1>1. Init => TInv
  BY InitInv
<1>2. TInv => TypeOK
  BY DEF TInv
<1> QED BY <1>1, StepTInv, <1>2, PTL DEF Spec

(* In a behaviour without unchecked steps what is paid stays covered.      *)
LEMMA StepInv ==
  ASSUME IInv, [ModesNext]_<<vars, mode>>
  PROVE  IInv'
<1>1. CASE ModesNext
  <2>1. mode' = mode /\ (Genuine \/ (mode = "open" /\ Unchecked)) /\ Next
    BY <1>1 DEF ModesNext, Next
  <2>2. TInv'
    BY <2>1, StepTInv DEF IInv
  <2>3. mode # "open" => Paying'
    BY <2>1, GenuineInv DEF IInv
  <2> QED BY <2>1, <2>2, <2>3 DEF IInv
<1>2. CASE UNCHANGED <<vars, mode>>
  BY <1>2, StutterInv DEF IInv
<1> QED BY <1>1, <1>2

(* Where the code is sent what the page and the gateway send, an order is  *)
(* PAID only if the gateway authorized a payment for it or the office      *)
(* received its total, though the office's update overlaps verify and the  *)
(* webhook, and events come late, twice or not at all.                     *)
THEOREM PaidOnlyIfMoneyCame == ModesSpec => []GenuinePaidWasPaid
<1>1. ModesInit => IInv
  BY InitInv DEF ModesInit, IInv
<1>2. IInv => GenuinePaidWasPaid
  BY DEF IInv, Paying, GenuinePaidWasPaid
<1> QED BY <1>1, StepInv, <1>2, PTL DEF ModesSpec

-----------------------------------------------------------------------------
(* Where pages ask for the total, what is recorded as paid, also as a      *)
(* request has read it, has come in, but for a paisa.                      *)
ExactInv ==
  /\ IsFiniteSet(Authorized)
  /\ \A r \in Requests : AsksForTotal(requests[r])
  /\ \A g \in GOrders : gateway[g].state # "none" => gateway[g].amount \in {Total - 1, Total}
  /\ \A o \in Orders : orders[o].paid <= Received(o) + 1
  /\ \A r \in Requests, o \in Orders :
       requests[r].op = "payment" /\ requests[r].order = o => requests[r].paid <= Received(o) + 1

(* Where nothing overlaps a request, what it has read is what is there,    *)
(* and an order that is marked as paid has its total paid, but for a paisa.*)
AloneInv ==
  /\ \A q, r \in Busy : q = r
  /\ \A r \in Requests : requests[r].op = "payment" =>
       LET o == requests[r].order IN
       /\ requests[r].paid = orders[o].paid /\ requests[r].payment = orders[o].payment
       /\ requests[r].amount > 0
  /\ \A o \in Orders : orders[o].payment = "PAID" => orders[o].paid >= Total - 1

ModesInv ==
  /\ IInv
  /\ mode \in {"exact", "alone"} => ExactInv
  /\ mode = "alone" => AloneInv

(* The payments of an order that were authorized. *)
Through(o) == {g \in Authorized : gateway[g].of = o}

LEMMA ThroughFinite ==
  ASSUME TypeOK, IsFiniteSet(Authorized), NEW o
  PROVE  /\ IsFiniteSet(Through(o)) /\ Received(o) = cash[o] + SumFunctionOnSet(Amount, Through(o))
         /\ \A g \in Through(o) : g \in GOrders /\ Amount[g] \in Nat /\ Amount[g] = gateway[g].amount
<1>1. Through(o) \subseteq Authorized /\ Authorized \subseteq GOrders
  BY DEF Through, Authorized
<1>2. IsFiniteSet(Through(o))
  BY <1>1, FS_Subset
<1>3. \A g \in GOrders : Amount[g] = gateway[g].amount /\ gateway[g].amount \in Nat
  BY DEF Amount, TypeOK, GatewayRows
<1> QED BY <1>1, <1>2, <1>3 DEF Received, Through

(* What came in is a number. *)
LEMMA ReceivedType ==
  ASSUME TypeOK, IsFiniteSet(Authorized), NEW o \in Orders
  PROVE  Received(o) \in Nat
<1>1. SumFunctionOnSet(Amount, Through(o)) \in Nat
  BY ThroughFinite, SumNatural
<1>2. cash[o] \in Nat
  BY DEF TypeOK
<1> QED BY <1>1, <1>2, ThroughFinite

ReceivedTyped == \A o \in Orders : Received(o) \in Nat

LEMMA ReceivedTypes == TypeOK /\ IsFiniteSet(Authorized) => ReceivedTyped
BY ReceivedType DEF ReceivedTyped

LEMMA ReceivedTypesNext == TypeOK' /\ IsFiniteSet(Authorized)' => ReceivedTyped'
BY ReceivedTypes, PTL

(* It is no less than the amount of any payment that was authorized.       *)
LEMMA ReceivedCovers ==
  ASSUME TypeOK, IsFiniteSet(Authorized), NEW g \in Authorized, gateway[g].of \in Orders
  PROVE  gateway[g].amount <= Received(gateway[g].of)
<1> DEFINE o == gateway[g].of
<1>1. g \in Through(o) /\ {g} \in SUBSET Through(o) /\ {g} \ {g} = {}
  BY DEF Through
<1>2. \A h \in Through(o) : Amount[h] \in Nat
  BY ThroughFinite
<1>3. Amount[g] = gateway[g].amount /\ Amount[g] \in Nat
  BY <1>1, ThroughFinite
<1>4. IsFiniteSet({g}) /\ \A h \in {g} : Amount[h] \in Int
  <2>1. IsFiniteSet({g})
    BY FS_Singleton
  <2> QED BY <1>3, <2>1
<1>5. SumFunctionOnSet(Amount, {g}) = Amount[g] + SumFunctionOnSet(Amount, {g} \ {g})
  BY <1>4, SumWithout
<1>6. SumFunctionOnSet(Amount, {g}) = gateway[g].amount
  BY <1>1, <1>3, <1>5, SumOfNone
<1>7. SumFunctionOnSet(Amount, {g}) <= SumFunctionOnSet(Amount, Through(o))
  BY <1>1, <1>2, ThroughFinite, SumGrows
<1>8. SumFunctionOnSet(Amount, Through(o)) \in Nat /\ cash[o] \in Nat
  BY <1>2, ThroughFinite, SumNatural DEF TypeOK
<1> QED BY <1>3, <1>6, <1>7, <1>8, ThroughFinite

(* What was authorized stays so, and a step authorizes one payment more.   *)
LEMMA AuthorizedGrows ==
  ASSUME TInv, Genuine, IsFiniteSet(Authorized)
  PROVE  /\ IsFiniteSet(Authorized') /\ Authorized \subseteq Authorized'
         /\ \A g \in Authorized : gateway'[g].of = gateway[g].of /\ gateway'[g].amount = gateway[g].amount
         /\ \A o \in Orders : cash[o] <= cash'[o]
<1>0. gateway \in [GOrders -> GatewayRows] /\ cash \in [Orders -> Nat] /\ requests \in [Requests -> Views]
  BY DEF TInv, TypeOK
<1>1. ASSUME NEW g \in GOrders, NEW row, gateway' = [gateway EXCEPT ![g] = row],
             g \in Authorized => row.of = gateway[g].of /\ row.amount = gateway[g].amount
                                 /\ row.state \in {"authorized", "captured"},
             cash' = cash
      PROVE  /\ IsFiniteSet(Authorized') /\ Authorized \subseteq Authorized'
             /\ \A h \in Authorized : gateway'[h].of = gateway[h].of
                                      /\ gateway'[h].amount = gateway[h].amount
             /\ \A o \in Orders : cash[o] <= cash'[o]
  <2>1. gateway'[g] = row /\ \A h \in GOrders \ {g} : gateway'[h] = gateway[h]
    BY <1>0, <1>1
  <2>2. Authorized \subseteq Authorized' /\ Authorized' \subseteq Authorized \cup {g}
    BY <1>1, <2>1 DEF Authorized
  <2>3. IsFiniteSet(Authorized \cup {g})
    BY FS_AddElement
  <2>4. IsFiniteSet(Authorized')
    BY <2>2, <2>3, FS_Subset
  <2>5. \A h \in Authorized : h \in GOrders
    BY DEF Authorized
  <2>6. \A o \in Orders : cash[o] <= cash'[o]
    BY <1>0, <1>1
  <2> QED BY <1>1, <2>1, <2>2, <2>4, <2>5, <2>6
<1>2. ASSUME UNCHANGED gateway, \A o \in Orders : cash[o] <= cash'[o]
      PROVE  /\ IsFiniteSet(Authorized') /\ Authorized \subseteq Authorized'
             /\ \A h \in Authorized : gateway'[h].of = gateway[h].of
                                      /\ gateway'[h].amount = gateway[h].amount
             /\ \A o \in Orders : cash[o] <= cash'[o]
  <2>1. Authorized' = Authorized
    BY <1>2 DEF Authorized
  <2> QED BY <1>2, <2>1
<1>3. ASSUME UNCHANGED <<gateway, cash>>
      PROVE  UNCHANGED gateway /\ \A o \in Orders : cash[o] <= cash'[o]
  BY <1>0, <1>3
<1>4. ASSUME NEW r \in Requests, Load(r) \/ Fail(r)
      PROVE  UNCHANGED <<gateway, cash>>
  BY <1>4 DEF Load, Fail
<1>5. ASSUME NEW r \in Requests, AddPayment(r)
      PROVE  UNCHANGED gateway /\ \A o \in Orders : cash[o] <= cash'[o]
  <2>1. requests[r].amount \in Nat
    BY <1>0 DEF Views
  <2>2. cash' = [cash EXCEPT ![requests[r].order] = @ + requests[r].amount] /\ UNCHANGED gateway
    BY <1>5 DEF AddPayment
  <2> QED BY <1>0, <2>1, <2>2
<1>6. ASSUME NEW r \in Requests, NEW g \in GOrders, CreateOrder(r, g)
      PROVE  \E row : /\ gateway' = [gateway EXCEPT ![g] = row] /\ cash' = cash
                      /\ g \notin Authorized
  BY <1>6 DEF CreateOrder, Authorized
<1>7. ASSUME NEW g \in GOrders, Attempt(g)
      PROVE  \E row : /\ gateway' = [gateway EXCEPT ![g] = row] /\ cash' = cash
                      /\ row.of = gateway[g].of /\ row.amount = gateway[g].amount
                      /\ g \in Authorized => row.state \in {"authorized", "captured"}
  <2>1. PICK old \in GatewayRows : old = gateway[g]
    BY <1>0
  <2>2. cash' = cash
    BY <1>7 DEF Attempt
  <2>3. CASE old.state = "created" /\ gateway' = [gateway EXCEPT ![g].failed = TRUE]
    <3>1. gateway' = [gateway EXCEPT ![g] = [old EXCEPT !.failed = TRUE]]
      BY <2>1, <2>3
    <3>2. g \notin Authorized
      BY <2>1, <2>3 DEF Authorized
    <3>3. /\ [old EXCEPT !.failed = TRUE].of = old.of
          /\ [old EXCEPT !.failed = TRUE].amount = old.amount
      BY DEF GatewayRows
    <3> QED BY <2>1, <2>2, <3>1, <3>2, <3>3
  <2>4. CASE gateway' = [gateway EXCEPT ![g].state = "authorized"]
    <3>1. gateway' = [gateway EXCEPT ![g] = [old EXCEPT !.state = "authorized"]]
      BY <2>1, <2>4
    <3>2. /\ [old EXCEPT !.state = "authorized"].of = old.of
          /\ [old EXCEPT !.state = "authorized"].amount = old.amount
          /\ [old EXCEPT !.state = "authorized"].state = "authorized"
      BY DEF GatewayRows
    <3> QED BY <2>1, <2>2, <3>1, <3>2
  <2>5. CASE gateway' = [gateway EXCEPT ![g].state = "captured"]
    <3>1. gateway' = [gateway EXCEPT ![g] = [old EXCEPT !.state = "captured"]]
      BY <2>1, <2>5
    <3>2. /\ [old EXCEPT !.state = "captured"].of = old.of
          /\ [old EXCEPT !.state = "captured"].amount = old.amount
          /\ [old EXCEPT !.state = "captured"].state = "captured"
      BY DEF GatewayRows
    <3> QED BY <2>1, <2>2, <3>1, <3>2
  <2> QED BY <1>7, <2>1, <2>3, <2>4, <2>5 DEF Attempt
<1>8. ASSUME NEW o \in Orders, SetStatus(o)
      PROVE  UNCHANGED <<gateway, cash>>
  BY <1>8 DEF SetStatus
<1>9. ASSUME NEW g \in GOrders, NEW o \in Orders, Verify(g, o)
      PROVE  UNCHANGED <<gateway, cash>>
  BY <1>9 DEF Verify
<1>10. ASSUME NEW e \in Events, Webhook(e) \/ Duplicate(e)
       PROVE  UNCHANGED <<gateway, cash>>
  BY <1>10 DEF Webhook, Duplicate, Handle, Lose
<1>11. CASE \E r \in Requests : Load(r) \/ Fail(r) \/ AddPayment(r)
  BY <1>2, <1>3, <1>4, <1>5, <1>11
<1>12. CASE \E r \in Requests, g \in GOrders : CreateOrder(r, g)
  BY <1>1, <1>6, <1>12
<1>13. CASE \E g \in GOrders : Attempt(g)
  BY <1>1, <1>7, <1>13
<1>14. CASE (\E o \in Orders : SetStatus(o)) \/ (\E g \in GOrders, o \in Orders : Verify(g, o))
            \/ (\E e \in Events : Webhook(e) \/ Duplicate(e))
  BY <1>2, <1>3, <1>8, <1>9, <1>10, <1>14
<1> QED BY <1>11, <1>12, <1>13, <1>14 DEF Genuine, Once

(* What came in for an order never shrinks. *)
LEMMA ReceivedGrows ==
  ASSUME TInv, TypeOK', Genuine, IsFiniteSet(Authorized)
  PROVE  /\ IsFiniteSet(Authorized')
         /\ \A o \in Orders : Received(o) <= Received(o)'
<1>1. /\ IsFiniteSet(Authorized') /\ Authorized \subseteq Authorized'
      /\ \A g \in Authorized : gateway'[g].of = gateway[g].of /\ gateway'[g].amount = gateway[g].amount
      /\ \A o \in Orders : cash[o] <= cash'[o]
  BY AuthorizedGrows
<1>2. ASSUME NEW o \in Orders PROVE Received(o) <= Received(o)'
  <2>0. TypeOK
    BY DEF TInv
  <2>1. Through(o) \in SUBSET Through(o)'
    BY <1>1 DEF Through
  <2>2. /\ Through(o)' \subseteq GOrders
        /\ \A g \in GOrders : Amount'[g] = gateway'[g].amount /\ Amount'[g] \in Nat
        /\ \A g \in GOrders : Amount[g] = gateway[g].amount
    BY <2>0 DEF Through, Authorized, Amount, TypeOK, GatewayRows
  <2>3. IsFiniteSet(Through(o)')
    <3>1. Through(o)' \in SUBSET Authorized'
      BY DEF Through
    <3> QED BY <1>1, <3>1, FS_Subset
  <2>4. SumFunctionOnSet(Amount', Through(o)) <= SumFunctionOnSet(Amount', Through(o)')
    <3>1. \A g \in Through(o)' : Amount'[g] \in Nat
      BY <2>2
    <3>2. \A s \in SUBSET Through(o)' :
            SumFunctionOnSet(Amount', s) <= SumFunctionOnSet(Amount', Through(o)')
      BY <2>3, <3>1, SumGrows
    <3> QED BY <2>1, <3>2
  <2>5. SumFunctionOnSet(Amount', Through(o)) = SumFunctionOnSet(Amount, Through(o))
    <3>1. \A g \in Through(o) : Amount'[g] = Amount[g]
      BY <1>1, <2>2 DEF Through, Authorized
    <3>2. IsFiniteSet(Through(o))
      BY <2>0, ThroughFinite
    <3> QED BY <3>1, <3>2, SumAgrees
  <2>6. SumFunctionOnSet(Amount', Through(o)') \in Nat /\ SumFunctionOnSet(Amount, Through(o)) \in Nat
    <3>1. \A g \in Through(o)' : Amount'[g] \in Nat
      BY <2>2
    <3> QED BY <2>0, <2>3, <3>1, ThroughFinite, SumNatural
  <2>7. /\ Received(o) = cash[o] + SumFunctionOnSet(Amount, Through(o))
        /\ Received(o)' = cash'[o] + SumFunctionOnSet(Amount', Through(o)')
    BY DEF Received, Through
  <2>8. cash[o] \in Nat /\ cash'[o] \in Nat /\ cash[o] <= cash'[o]
    BY <1>1, <2>0 DEF TypeOK
  <2> QED BY <2>4, <2>5, <2>6, <2>7, <2>8
<1> QED BY <1>1, <1>2

(* The rows of orders keep what is paid, or get a payment that came in.    *)
PaidKept(o) ==
  \/ orders'[o].paid = orders[o].paid
  \/ orders'[o].paid <= Total /\ \E g \in Authorized : gateway[g].of = o

(* A request is as before, over, or has just read its order.               *)
AskedKept(r) ==
  \/ requests'[r] = requests[r] \/ requests'[r] = Idle
  \/ /\ requests'[r].order \in Orders
     /\ requests'[r].paid = orders[requests'[r].order].paid
     /\ requests'[r].payment = orders[requests'[r].order].payment

LEMMA ExactKept ==
  ASSUME TInv, TypeOK', ExactInv, Genuine,
         \A r \in Requests : AsksForTotal(requests'[r]) /\ AskedKept(r),
         \A g \in GOrders : gateway'[g].state # "none" => gateway'[g].amount \in {Total - 1, Total},
         \A o \in Orders : PaidKept(o) \/ orders'[o].paid <= Received(o)' + 1
  PROVE  ExactInv'
<1>0. TypeOK /\ IsFiniteSet(Authorized)
  BY DEF TInv, ExactInv
<1>1. IsFiniteSet(Authorized') /\ \A o \in Orders : Received(o) <= Received(o)'
  BY <1>0, ReceivedGrows
<1>2. \A o \in Orders : Received(o) \in Nat
  BY <1>0, ReceivedType
<1>3. \A o \in Orders : Received(o)' \in Nat
  BY <1>1, ReceivedTypesNext DEF ReceivedTyped
<1>4. \A o \in Orders : orders[o].paid \in Nat /\ orders'[o].paid \in Nat
  BY <1>0 DEF TypeOK, OrderRows
<1>5. Idle.op = "idle"
  BY DEF Idle
<1>6. ASSUME NEW o \in Orders PROVE orders'[o].paid <= Received(o)' + 1
  <2>1. orders[o].paid <= Received(o) + 1
    BY DEF ExactInv
  <2>2. CASE orders'[o].paid = orders[o].paid
    BY <1>1, <1>2, <1>3, <1>4, <2>1, <2>2
  <2>3. CASE orders'[o].paid <= Total /\ \E g \in Authorized : gateway[g].of = o
    <3>1. PICK g \in Authorized : gateway[g].of = o
      BY <2>3
    <3>2. gateway[g].amount \in {Total - 1, Total}
      BY <3>1 DEF ExactInv, Authorized
    <3>3. gateway[g].amount <= Received(gateway[g].of)
      BY <1>0, <3>1, ReceivedCovers
    <3>4. Total <= Received(o) + 1
      BY <1>2, <3>1, <3>2, <3>3, Constants
    <3> QED BY <1>1, <1>2, <1>3, <1>4, <2>3, <3>4, Constants
  <2> QED BY <2>2, <2>3 DEF PaidKept
<1>7. ASSUME NEW r \in Requests, NEW o \in Orders,
             requests'[r].op = "payment", requests'[r].order = o
      PROVE  requests'[r].paid <= Received(o)' + 1
  <2>1. requests'[r].paid \in Nat
    BY DEF TypeOK, Views
  <2>2. CASE requests'[r] = requests[r]
    <3>1. requests[r].paid <= Received(o) + 1
      BY <1>7, <2>2 DEF ExactInv
    <3> QED BY <1>1, <1>2, <1>3, <2>1, <2>2, <3>1
  <2>3. CASE requests'[r] = Idle
    BY <1>5, <1>7, <2>3
  <2>4. CASE requests'[r].paid = orders[o].paid
    <3>1. orders[o].paid <= Received(o) + 1
      BY DEF ExactInv
    <3> QED BY <1>1, <1>2, <1>3, <1>4, <2>4, <3>1
  <2> QED BY <1>7, <2>2, <2>3, <2>4 DEF AskedKept
<1> QED BY <1>1, <1>6, <1>7 DEF ExactInv

(* What each step does to amount_paid and to the requests. *)
LEMMA ExactStep ==
  ASSUME TInv, TypeOK', ExactInv, Genuine, \A r \in Requests : AsksForTotal(requests'[r])
  PROVE  ExactInv'
<1>0. /\ TypeOK /\ orders \in [Orders -> OrderRows] /\ gateway \in [GOrders -> GatewayRows]
      /\ requests \in [Requests -> Views] /\ IsFiniteSet(Authorized)
  BY DEF TInv, TypeOK, ExactInv
<1>1. ASSUME gateway' = gateway
      PROVE  \A g \in GOrders : gateway'[g].state # "none" => gateway'[g].amount \in {Total - 1, Total}
  BY <1>1 DEF ExactInv
<1>2. ASSUME requests' = requests PROVE \A r \in Requests : AskedKept(r)
  BY <1>2 DEF AskedKept
<1>3. ASSUME NEW r \in Requests, requests' = [requests EXCEPT ![r] = Idle]
      PROVE  \A q \in Requests : AskedKept(q)
  BY <1>0, <1>3 DEF AskedKept
<1>4. ASSUME orders' = orders PROVE \A o \in Orders : PaidKept(o)
  BY <1>4 DEF PaidKept
<1>5. ASSUME NEW r \in Requests, Load(r) PROVE ExactInv'
  <2>1. PICK o \in Orders, a \in Amounts, op \in {"create", "payment"} :
        requests' = [requests EXCEPT ![r] = [op |-> op, order |-> o, amount |-> a,
                                payment |-> orders[o].payment, paid |-> orders[o].paid]]
    BY <1>5 DEF Load
  <2>2. \A q \in Requests : AskedKept(q)
    BY <1>0, <2>1 DEF AskedKept
  <2>3. gateway' = gateway /\ orders' = orders
    BY <1>5 DEF Load
  <2> QED BY <1>1, <1>4, <2>2, <2>3, ExactKept
<1>6. ASSUME NEW r \in Requests, Fail(r) PROVE ExactInv'
  BY <1>1, <1>3, <1>4, <1>6, ExactKept DEF Fail
<1>7. ASSUME NEW r \in Requests, NEW g \in GOrders, CreateOrder(r, g) PROVE ExactInv'
  <2>1. PICK p \in Paise(requests[r].amount) :
          /\ requests[r].op = "create" /\ requests' = [requests EXCEPT ![r] = Idle]
          /\ gateway' = [gateway EXCEPT ![g] = [of |-> requests[r].order, amount |-> p,
                                                failed |-> FALSE, state |-> "created"]]
          /\ orders' = [orders EXCEPT ![requests[r].order].gorder = g]
    BY <1>7 DEF CreateOrder
  <2>2. \A o \in Orders : PaidKept(o)
    BY <1>0, <2>1 DEF PaidKept, OrderRows
  <2>3. p \in {Total - 1, Total}
    BY <2>1 DEF ExactInv, AsksForTotal, Paise
  <2>4. ASSUME NEW h \in GOrders, gateway'[h].state # "none"
        PROVE  gateway'[h].amount \in {Total - 1, Total}
    <3>1. CASE h = g
      BY <1>0, <2>1, <2>3, <3>1
    <3>2. CASE h # g
      BY <1>0, <2>1, <2>4, <3>2 DEF ExactInv
    <3> QED BY <3>1, <3>2
  <2> QED BY <1>3, <2>1, <2>2, <2>4, ExactKept
<1>8. ASSUME NEW r \in Requests, AddPayment(r) PROVE ExactInv'
  <2> DEFINE v == requests[r]
             amount == Changed(v.paid + v.amount, v.paid, orders[v.order].paid)
             status == Changed(PaymentStatus(v.paid + v.amount, v.payment), v.payment,
                               orders[v.order].payment)
  <2>1. /\ v.op = "payment" /\ cash' = [cash EXCEPT ![v.order] = @ + v.amount]
        /\ orders' = [orders EXCEPT ![v.order].paid = amount, ![v.order].payment = status]
        /\ requests' = [requests EXCEPT ![r] = Idle] /\ gateway' = gateway
    BY <1>8 DEF AddPayment
  <2>2. /\ v.order \in Orders /\ v.amount \in Nat /\ v.paid \in Nat
    BY <1>0, <2>1 DEF TInv, Linked, Views
  <2>3. \A o \in Orders \ {v.order} : PaidKept(o)
    BY <1>0, <2>1 DEF PaidKept
  <2>4. ASSUME NEW o \in Orders, o = v.order PROVE PaidKept(o) \/ orders'[o].paid <= Received(o)' + 1
    <3>2. v.paid <= Received(o) + 1
      BY <2>1, <2>4 DEF ExactInv
    <3>3. orders'[o].paid = amount /\ cash'[o] = cash[o] + v.amount
      <4>1. orders'[o] = [orders[o] EXCEPT !.paid = amount, !.payment = status]
        BY <1>0, <2>1, <2>4
      <4>2. orders[o] \in OrderRows
        BY <1>0
      <4>3. cash'[o] = cash[o] + v.amount
        BY <1>0, <2>1, <2>4 DEF TypeOK
      <4> HIDE DEF amount, status
      <4>4. orders'[o].paid = amount
        BY <4>1, <4>2 DEF OrderRows
      <4> QED BY <4>3, <4>4
    <3>4. Received(o)' = Received(o) + v.amount
      <4>1. Authorized' = Authorized /\ Amount' = Amount
        BY <2>1 DEF Authorized, Amount
      <4>2. Through(o)' = Through(o)
        BY <2>1, <4>1 DEF Through
      <4>3. /\ Received(o) = cash[o] + SumFunctionOnSet(Amount, Through(o))
            /\ Received(o)' = cash'[o] + SumFunctionOnSet(Amount', Through(o)')
        BY DEF Received, Through
      <4>4. SumFunctionOnSet(Amount, Through(o)) \in Nat /\ cash[o] \in Nat
        BY <1>0, ThroughFinite, SumNatural DEF TypeOK
      <4> QED BY <2>2, <3>3, <4>1, <4>2, <4>3, <4>4
    <3>5. Received(o) \in Nat
      BY <1>0, ReceivedType
    <3>6. amount \in {v.paid + v.amount, orders[o].paid}
      BY <2>4 DEF Changed
    <3>7. CASE amount = orders[o].paid
      BY <3>3, <3>7 DEF PaidKept
    <3>8. CASE amount = v.paid + v.amount
      BY <2>2, <3>2, <3>3, <3>4, <3>5, <3>8
    <3> QED BY <3>6, <3>7, <3>8
  <2>5. \A o \in Orders : PaidKept(o) \/ orders'[o].paid <= Received(o)' + 1
    BY <2>3, <2>4
  <2>6. \A q \in Requests : AskedKept(q)
    BY <1>3, <2>1
  <2> QED BY <1>1, <2>1, <2>5, <2>6, ExactKept
<1>9. ASSUME NEW o \in Orders, SetStatus(o) PROVE ExactInv'
  <2>1. PICK s \in Statuses : orders' = [orders EXCEPT ![o].status = s]
    BY <1>9 DEF SetStatus
  <2>2. \A p \in Orders : PaidKept(p)
    BY <1>0, <2>1 DEF PaidKept, OrderRows
  <2> QED BY <1>1, <1>2, <1>9, <2>2, ExactKept DEF SetStatus
<1>10. ASSUME NEW g \in GOrders, Attempt(g) PROVE ExactInv'
  <2>1. /\ orders' = orders /\ requests' = requests /\ gateway[g].state # "none"
        /\ \/ gateway' = [gateway EXCEPT ![g].failed = TRUE]
           \/ gateway' = [gateway EXCEPT ![g].state = "authorized"]
           \/ gateway' = [gateway EXCEPT ![g].state = "captured"]
    BY <1>10 DEF Attempt
  <2>2. /\ gateway'[g].amount = gateway[g].amount
        /\ \A h \in GOrders \ {g} : gateway'[h] = gateway[h]
    BY <1>0, <2>1 DEF GatewayRows
  <2>3. \A h \in GOrders : gateway'[h].state # "none" => gateway'[h].amount \in {Total - 1, Total}
    BY <2>1, <2>2 DEF ExactInv
  <2> QED BY <1>2, <1>4, <2>1, <2>3, ExactKept
<1>11. ASSUME NEW g \in GOrders, NEW o \in Orders, gateway[g].of = o, Verify(g, o) PROVE ExactInv'
  <2>1. /\ g \in Authorized /\ orders' = [orders EXCEPT ![o] = PaidInFull(@)]
        /\ UNCHANGED <<gateway, requests>>
    BY <1>11 DEF Verify, Verified
  <2>2. \A p \in Orders : PaidKept(p)
    <3> TAKE p \in Orders
    <3>1. CASE p = o
      <4>1. orders'[p] = PaidInFull(orders[p])
        BY <1>0, <2>1, <3>1
      <4>2. orders'[p].paid = Total
        BY <1>0, <4>1 DEF PaidInFull, OrderRows
      <4> QED BY <1>11, <2>1, <3>1, <4>2, Constants DEF PaidKept
    <3>2. CASE p # o
      BY <1>0, <2>1, <3>2 DEF PaidKept
    <3> QED BY <3>1, <3>2
  <2> QED BY <1>1, <1>2, <2>1, <2>2, ExactKept
<1>12. ASSUME NEW e \in Events, Handle(e), e[1] = "order.paid" => e[2] \in Captured
       PROVE  ExactInv'
  <2>1. /\ UNCHANGED <<gateway, requests>>
        /\ \A o \in Orders : orders'[o] =
             IF o \notin Concerned(e[2]) THEN orders[o]
             ELSE IF e[1] = "order.paid" THEN OrderPaid(orders[o], gateway[e[2]].amount)
             ELSE PaymentFailed(orders[o])
    BY <1>12 DEF Handle, Updated
  <2>2. \A o \in Orders : PaidKept(o)
    <3> TAKE o \in Orders
    <3>1. CASE o \notin Concerned(e[2])
      BY <2>1, <3>1 DEF PaidKept
    <3>2. CASE o \in Concerned(e[2]) /\ e[1] # "order.paid"
      <4>1. orders'[o] = PaymentFailed(orders[o])
        BY <2>1, <3>2
      <4> QED BY <1>0, <4>1 DEF PaidKept, PaymentFailed, OrderRows
    <3>3. CASE o \in Concerned(e[2]) /\ e[1] = "order.paid"
      <4>1. e[2] \in GOrders /\ e[2] \in Authorized
        BY <1>12, <3>3 DEF Events, Captured, Authorized
      <4>2. gateway[e[2]].of = o
        BY <3>3, <4>1, Constants DEF Concerned, TInv, TypeOK
      <4>3. orders'[o] = OrderPaid(orders[o], gateway[e[2]].amount)
        BY <2>1, <3>3
      <4>4. orders'[o].paid = gateway[e[2]].amount
        BY <1>0, <4>3 DEF OrderPaid, OrderRows
      <4>5. gateway[e[2]].amount \in {Total - 1, Total}
        BY <4>1 DEF ExactInv, Authorized
      <4> QED BY <4>1, <4>2, <4>4, <4>5, Constants DEF PaidKept
    <3> QED BY <3>1, <3>2, <3>3
  <2> QED BY <1>1, <1>2, <2>1, <2>2, ExactKept
<1>13. ASSUME NEW e \in Events, Lose(e) PROVE ExactInv'
  BY <1>1, <1>2, <1>4, <1>13, ExactKept DEF Lose
<1>14. ASSUME NEW e \in Events, Webhook(e) PROVE ExactInv'
  <2>1. e[1] = "order.paid" => e[2] \in Captured
    BY <1>14 DEF Webhook, Sent
  <2> QED BY <1>12, <1>13, <1>14, <2>1 DEF Webhook
<1>15. ASSUME NEW e \in Events, Duplicate(e) PROVE ExactInv'
  <2>1. e[1] = "order.paid" => e[2] \in Captured
    BY <1>15 DEF Duplicate, TInv, Linked, Events
  <2> QED BY <1>12, <1>15, <2>1 DEF Duplicate
<1> QED BY <1>5, <1>6, <1>7, <1>8, <1>9, <1>10, <1>11, <1>14, <1>15 DEF Genuine, Once

(* Nothing else happens while a request is under way, so what it has read  *)
(* is still what the order has; and amount_paid decides what is paid.      *)
LEMMA AloneStep ==
  ASSUME TInv, ExactInv, AloneInv, Genuine,
         Busy = {} \/ (requests' # requests /\ Busy' = {}),
         \A r \in Requests : ReceivesMore(requests'[r])
  PROVE  AloneInv' /\ PaidUntilFailed
<1>0. /\ TypeOK /\ orders \in [Orders -> OrderRows] /\ requests \in [Requests -> Views]
      /\ Idle.op = "idle"
  BY DEF TInv, TypeOK, Idle
<1>1. \A o \in Orders : orders[o].payment = "PAID" => orders[o].paid >= Total - 1
  BY DEF AloneInv
<1>2. \A g \in Authorized : gateway[g].amount \in {Total - 1, Total}
  BY DEF ExactInv, Authorized
(* Nobody is under way after the step, and the orders are still in order.  *)
<1>3. ASSUME requests' = requests => Busy = {}, \A r \in Requests : requests'[r] \in {requests[r], Idle},
             \A o \in Orders : /\ orders'[o].payment = "PAID" => orders'[o].paid >= Total - 1
                               /\ orders[o].payment = "PAID" => orders'[o].payment \in {"PAID", "FAILED"}
      PROVE  AloneInv' /\ PaidUntilFailed
  <2>1. Busy' = {}
    <3>1. CASE Busy = {}
      BY <1>3, <3>1 DEF Busy
    <3>2. CASE Busy # {}
      BY <1>3, <3>2
    <3> QED BY <3>1, <3>2
  <2>2. \A r \in Requests : requests'[r] = Idle
    BY <2>1 DEF Busy
  <2>3. \A r \in Requests : requests'[r].op # "payment"
    BY <1>0, <2>2
  <2> QED BY <1>3, <2>1, <2>3 DEF AloneInv, PaidUntilFailed
<1>4. ASSUME \A o \in Orders : orders'[o].payment = orders[o].payment /\ orders'[o].paid = orders[o].paid
      PROVE  \A o \in Orders : /\ orders'[o].payment = "PAID" => orders'[o].paid >= Total - 1
                               /\ orders[o].payment = "PAID" => orders'[o].payment \in {"PAID", "FAILED"}
  BY <1>1, <1>4
<1>5. ASSUME requests' = requests
      PROVE  (requests' = requests => Busy = {}) /\ \A r \in Requests : requests'[r] \in {requests[r], Idle}
  BY <1>5
<1>6. ASSUME NEW r \in Requests, requests' = [requests EXCEPT ![r] = Idle], requests[r] # Idle
      PROVE  (requests' = requests => Busy = {}) /\ \A q \in Requests : requests'[q] \in {requests[q], Idle}
  BY <1>0, <1>6
<1>7. ASSUME NEW r \in Requests, Load(r) PROVE AloneInv' /\ PaidUntilFailed
  <2>1. PICK o \in Orders, a \in Amounts, op \in {"create", "payment"} :
        requests' = [requests EXCEPT ![r] = [op |-> op, order |-> o, amount |-> a,
                                payment |-> orders[o].payment, paid |-> orders[o].paid]]
    BY <1>7 DEF Load
  <2>2. orders' = orders
    BY <1>7 DEF Load
  <2>3. requests'[r].op # "idle" /\ requests'[r] # Idle
    BY <1>0, <2>1
  <2>4. Busy = {}
    BY <2>3 DEF Busy
  <2>5. \A q \in Requests \ {r} : requests'[q] = Idle
    BY <1>0, <2>1, <2>4 DEF Busy
  <2>6. \A q \in Busy' : q = r
    BY <2>5 DEF Busy
  <2>7. /\ requests'[r].order = o
        /\ requests'[r].paid = orders[o].paid /\ requests'[r].payment = orders[o].payment
    BY <1>0, <2>1
  <2>8. \A q \in Requests : requests'[q].op = "payment" => q = r
    BY <1>0, <2>5
  <2>9. requests'[r].op = "payment" => requests'[r].amount > 0
    BY DEF ReceivesMore
  <2> QED BY <1>1, <2>2, <2>6, <2>7, <2>8, <2>9 DEF AloneInv, PaidUntilFailed
<1>8. ASSUME NEW r \in Requests, Fail(r) PROVE AloneInv' /\ PaidUntilFailed
  BY <1>3, <1>4, <1>6, <1>8 DEF Fail
<1>9. ASSUME NEW r \in Requests, NEW g \in GOrders, CreateOrder(r, g)
      PROVE  AloneInv' /\ PaidUntilFailed
  <2>1. /\ requests' = [requests EXCEPT ![r] = Idle] /\ requests[r] # Idle
        /\ orders' = [orders EXCEPT ![requests[r].order].gorder = g]
    BY <1>0, <1>9 DEF CreateOrder
  <2>2. \A o \in Orders : orders'[o].payment = orders[o].payment /\ orders'[o].paid = orders[o].paid
    BY <1>0, <2>1 DEF OrderRows
  <2> QED BY <1>3, <1>4, <1>6, <2>1, <2>2
<1>10. ASSUME NEW r \in Requests, AddPayment(r) PROVE AloneInv' /\ PaidUntilFailed
  <2> DEFINE v == requests[r]
             amount == Changed(v.paid + v.amount, v.paid, orders[v.order].paid)
             status == Changed(PaymentStatus(v.paid + v.amount, v.payment), v.payment,
                               orders[v.order].payment)
  <2>1. /\ v.op = "payment"
        /\ orders' = [orders EXCEPT ![v.order].paid = amount, ![v.order].payment = status]
        /\ requests' = [requests EXCEPT ![r] = Idle]
    BY <1>10 DEF AddPayment
  <2>2. v.order \in Orders /\ v.amount \in Nat /\ v.paid \in Nat
    BY <1>0, <2>1 DEF TInv, Linked, Views
  <2>3. v.paid = orders[v.order].paid /\ v.payment = orders[v.order].payment /\ v.amount > 0
    BY <2>1 DEF AloneInv
  <2>4. status = PaymentStatus(v.paid + v.amount, v.payment) /\ amount = v.paid + v.amount
    BY <2>2, <2>3 DEF Changed
  <2>5. ASSUME NEW o \in Orders
        PROVE  /\ orders'[o].payment = "PAID" => orders'[o].paid >= Total - 1
               /\ orders[o].payment = "PAID" => orders'[o].payment \in {"PAID", "FAILED"}
    <3>1. CASE o = v.order
      <4>1. orders'[o] = [orders[o] EXCEPT !.paid = amount, !.payment = status]
        BY <1>0, <2>1, <3>1
      <4>2. orders[o] \in OrderRows
        BY <1>0
      <4> HIDE DEF v, amount, status
      <4>3. orders'[o].paid = amount /\ orders'[o].payment = status
        BY <4>1, <4>2 DEF OrderRows
      <4>4. orders[o].payment = "PAID" => v.paid >= Total - 1
        BY <1>1, <2>3, <3>1
      <4>5. v.paid + v.amount >= Total => status = "PAID"
        BY <2>4 DEF PaymentStatus
      <4>6. orders[o].payment = "PAID" => v.paid + v.amount >= Total
        BY <2>2, <2>3, <4>4, Constants
      <4>7. status = "PAID" => v.paid + v.amount >= Total - 1
        <5>1. CASE v.paid + v.amount >= Total
          BY <5>1, <2>2, Constants
        <5>2. CASE ~(v.paid + v.amount >= Total)
          BY <5>2, <2>2, <2>3, <2>4 DEF PaymentStatus
        <5> QED BY <5>1, <5>2
      <4> QED BY <2>4, <4>3, <4>5, <4>6, <4>7
    <3>2. CASE o # v.order
      BY <1>0, <1>1, <2>1, <3>2
    <3> QED BY <3>1, <3>2
  <2>6. requests[r] # Idle
    BY <1>0, <2>1
  <2> QED BY <1>3, <1>6, <2>1, <2>5, <2>6
<1>11. ASSUME NEW o \in Orders, SetStatus(o) PROVE AloneInv' /\ PaidUntilFailed
  <2>1. PICK s \in Statuses : orders' = [orders EXCEPT ![o].status = s]
    BY <1>11 DEF SetStatus
  <2>2. \A p \in Orders : orders'[p].payment = orders[p].payment /\ orders'[p].paid = orders[p].paid
    BY <1>0, <2>1 DEF OrderRows
  <2> QED BY <1>3, <1>4, <1>5, <1>11, <2>2 DEF SetStatus
<1>12. ASSUME NEW g \in GOrders, Attempt(g) PROVE AloneInv' /\ PaidUntilFailed
  BY <1>3, <1>4, <1>5, <1>12 DEF Attempt
<1>13. ASSUME NEW g \in GOrders, NEW p \in Orders, Verify(g, p)
       PROVE  AloneInv' /\ PaidUntilFailed
  <2>1. /\ orders' = [orders EXCEPT ![p] = PaidInFull(@)]
        /\ UNCHANGED requests
    BY <1>13 DEF Verify
  <2>2. ASSUME NEW o \in Orders
        PROVE  /\ orders'[o].payment = "PAID" => orders'[o].paid >= Total - 1
               /\ orders[o].payment = "PAID" => orders'[o].payment \in {"PAID", "FAILED"}
    <3>1. CASE o = p
      <4>1. orders'[o] = PaidInFull(orders[o])
        BY <1>0, <2>1, <3>1
      <4>2. orders'[o].paid = Total /\ orders'[o].payment = "PAID"
        BY <1>0, <4>1 DEF PaidInFull, OrderRows
      <4> QED BY <4>2, Constants
    <3>2. CASE o # p
      BY <1>0, <1>1, <2>1, <3>2
    <3> QED BY <3>1, <3>2
  <2> QED BY <1>3, <1>5, <2>1, <2>2
<1>14. ASSUME NEW e \in Events, Handle(e), e[1] = "order.paid" => e[2] \in Captured
       PROVE  AloneInv' /\ PaidUntilFailed
  <2>1. /\ UNCHANGED <<gateway, requests>>
        /\ \A o \in Orders : orders'[o] =
             IF o \notin Concerned(e[2]) THEN orders[o]
             ELSE IF e[1] = "order.paid" THEN OrderPaid(orders[o], gateway[e[2]].amount)
             ELSE PaymentFailed(orders[o])
    BY <1>14 DEF Handle, Updated
  <2>2. ASSUME NEW o \in Orders
        PROVE  /\ orders'[o].payment = "PAID" => orders'[o].paid >= Total - 1
               /\ orders[o].payment = "PAID" => orders'[o].payment \in {"PAID", "FAILED"}
    <3>1. CASE o \notin Concerned(e[2])
      BY <1>1, <2>1, <3>1
    <3>2. CASE o \in Concerned(e[2]) /\ e[1] # "order.paid"
      <4>1. orders'[o] = PaymentFailed(orders[o])
        BY <2>1, <3>2
      <4> QED BY <1>0, <4>1 DEF PaymentFailed, OrderRows
    <3>3. CASE o \in Concerned(e[2]) /\ e[1] = "order.paid"
      <4>1. e[2] \in Authorized
        BY <1>14, <3>3 DEF Events, Captured, Authorized
      <4>2. orders'[o] = OrderPaid(orders[o], gateway[e[2]].amount)
        BY <2>1, <3>3
      <4>3. orders'[o].paid = gateway[e[2]].amount /\ orders'[o].payment = "PAID"
        BY <1>0, <4>2 DEF OrderPaid, OrderRows
      <4> QED BY <1>2, <4>1, <4>3, Constants
    <3> QED BY <3>1, <3>2, <3>3
  <2> QED BY <1>3, <1>5, <2>1, <2>2
<1>15. ASSUME NEW e \in Events, Lose(e) PROVE AloneInv' /\ PaidUntilFailed
  BY <1>3, <1>4, <1>5, <1>15 DEF Lose
<1>16. ASSUME NEW e \in Events, Webhook(e) PROVE AloneInv' /\ PaidUntilFailed
  <2>1. e[1] = "order.paid" => e[2] \in Captured
    BY <1>16 DEF Webhook, Sent
  <2> QED BY <1>14, <1>15, <1>16, <2>1 DEF Webhook
<1>17. ASSUME NEW e \in Events, Duplicate(e) PROVE AloneInv' /\ PaidUntilFailed
  <2>1. e[1] = "order.paid" => e[2] \in Captured
    BY <1>17 DEF Duplicate, TInv, Linked, Events
  <2> QED BY <1>14, <1>17, <2>1 DEF Duplicate
<1> QED BY <1>7, <1>8, <1>9, <1>10, <1>11, <1>12, <1>13, <1>16, <1>17 DEF Genuine, Once

LEMMA ModesInitInv == ModesInit => ModesInv
<1> SUFFICES ASSUME ModesInit PROVE ModesInv
  OBVIOUS
<1>1. Init /\ TInv /\ Paying /\ TypeOK
  BY InitInv DEF ModesInit, TInv
<1>2. /\ \A g \in GOrders : gateway[g].state = "none"
      /\ \A o \in Orders : orders[o].paid = 0 /\ orders[o].payment = "PENDING"
      /\ \A r \in Requests : requests[r] = Idle
  BY <1>1 DEF Init, NewRow
<1>3. Idle.op = "idle"
  BY DEF Idle
<1>4. Authorized = {} /\ IsFiniteSet(Authorized)
  BY <1>2, FS_EmptySet DEF Authorized
<1>5. \A o \in Orders : Received(o) \in Nat
  BY <1>1, <1>4, ReceivedType
<1>6. ExactInv
  BY <1>2, <1>3, <1>4, <1>5 DEF ExactInv, AsksForTotal
<1>7. AloneInv
  BY <1>2, <1>3 DEF AloneInv, Busy
<1> QED BY <1>1, <1>6, <1>7 DEF ModesInv, IInv

LEMMA ModesStepInv ==
  ModesInv /\ [ModesNext]_<<vars, mode>> =>
    ModesInv' /\ [mode = "alone" => PaidUntilFailed]_<<vars, mode>>
<1>1. ASSUME ModesInv, ModesNext
      PROVE  ModesInv' /\ [mode = "alone" => PaidUntilFailed]_<<vars, mode>>
  <2>1. IInv /\ IInv' /\ TInv /\ TypeOK' /\ mode' = mode
    BY <1>1, StepInv DEF ModesInv, ModesNext, IInv, TInv
  <2>2. mode # "open" => Genuine
    BY <1>1 DEF ModesNext
  <2>3. mode \in {"exact", "alone"} => ExactInv'
    BY <1>1, <2>1, <2>2, ExactStep DEF ModesInv, ModesNext
  <2>4. mode = "alone" => AloneInv' /\ PaidUntilFailed
    BY <1>1, <2>1, <2>2, AloneStep DEF ModesInv, ModesNext
  <2> QED BY <2>1, <2>3, <2>4 DEF ModesInv
<1>2. ASSUME ModesInv, UNCHANGED <<vars, mode>> PROVE ModesInv'
  <2>1. IInv'
    BY <1>2, StepInv DEF ModesInv
  <2>2. Authorized' = Authorized /\ Amount' = Amount
    BY <1>2 DEF vars, Authorized, Amount
  <2>3. \A o \in Orders : Received(o)' = Received(o)
    BY <1>2, <2>2 DEF vars, Received
  <2>4. ExactInv => ExactInv'
    BY <1>2, <2>2, <2>3 DEF ExactInv, AsksForTotal, vars
  <2>5. AloneInv => AloneInv'
    BY <1>2 DEF AloneInv, Busy, vars
  <2> QED BY <1>2, <2>1, <2>4, <2>5 DEF ModesInv
<1> QED BY <1>1, <1>2

(* Where every page asks for the order's total, amount_paid never exceeds  *)
(* what came in by more than the paisa that a page's order may fall short, *)
(* however requests overlap and events are repeated.                       *)
THEOREM ExactPayments == ModesSpec => []ExactNothingInvented
<1>1. ModesInv => ExactNothingInvented
  BY DEF ModesInv, ExactInv, ExactNothingInvented, NothingInvented
<1> QED BY ModesInitInv, ModesStepInv, <1>1, PTL DEF ModesSpec

(* Where besides nothing overlaps a request, and the office receives no    *)
(* payments of 0, an order that is PAID stays so until the gateway reports *)
(* a failed payment for it.                                                *)
THEOREM AlonePayments == ModesSpec => AlonePaidUntilFailed
BY ModesInitInv, ModesStepInv, PTL DEF ModesSpec, AlonePaidUntilFailed
=============================================================================
