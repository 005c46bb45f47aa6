------------------------ MODULE CustomerCreditProofs ------------------------
(***************************************************************************)
(* Proofs about CustomerCredit, for any requests, limit and amounts, and   *)
(* however the requests overlap: the state keeps its type, and the credit  *)
(* a customer has used never exceeds the limit.  And for the modes: what   *)
(* is owed and what is used.                                               *)
(***************************************************************************)
EXTENDS CustomerCreditModes, SumTheorems

(* Where a request is, it has the kind and the number it should have.      *)
Placed ==
  \A r \in Requests :
    /\ pc[r] = "count" => view[r].op \in {"office", "web", "other"}
    /\ pc[r] \in {"check", "insert", "credit"} => view[r].number \in Numbers
    /\ pc[r] = "customer" /\ view[r].op = "office" => view[r].number \in Numbers
    /\ pc[r] = "write" /\ view[r].op # "receipt" => view[r].number \in Numbers
    /\ pc[r] = "customer" /\ view[r].op \in {"cancel", "status", "payment"}
         => view[r].number \in Numbers
    /\ pc[r] \in {"customer", "write"} => view[r].op \notin {"none", "other"}

(* No credit a request has read is above the limit, and the order of a     *)
(* request that is past the check fits.                                    *)
Checked ==
  \A r \in Requests :
    /\ view[r].used <= Limit
    /\ pc[r] \in {"insert", "credit"} /\ view[r].op # "other" =>
         view[r].used + view[r].amount <= Limit

IInv == TypeOK /\ Placed /\ Checked /\ UsedWithinLimit

(* What the assumption says of the constants. *)
LEMMA Constants ==
  /\ Limit \in Nat /\ MaxOrders \in Nat /\ MaxDays \in Nat /\ MaxDays >= 1
  /\ \A a \in Amounts : a \in Nat
BY CreditAssumption

LEMMA BlankType == Blank \in Views /\ Blank.used = 0 /\ Blank.op = "none" /\ NoRow \in OrderRows
BY DEF Blank, NoRow, Views, OrderRows, Ops, Statuses

(* A number is a date, and a number on that date.                          *)
LEMMA NumberType ==
  ASSUME NEW n \in Numbers
  PROVE  /\ n = <<n[1], n[2]>> /\ n \in Nat \X Nat /\ n[1] \in Days
         /\ n[2] \in Nat /\ n[2] >= 1 /\ n[2] <= MaxOrders
BY Constants DEF Numbers, Days

LEMMA NumbersFinite == IsFiniteSet(Numbers)
<1>1. IsFiniteSet(Days) /\ IsFiniteSet(1 .. MaxOrders)
  BY Constants, FS_Interval DEF Days
<1> QED BY <1>1, FS_Product DEF Numbers

(* Counting the orders of a day gives a number.                            *)
LEMMA CountType == ASSUME NEW day PROVE Cardinality(Of(day)) \in Nat
<1>1. Of(day) \subseteq Numbers
  BY DEF Of, Exist
<1> QED BY <1>1, NumbersFinite, FS_Subset, FS_CardinalityType

(* No more credit is given back than was used. *)
LEMMA LoweredType ==
  ASSUME NEW credit \in Nat, NEW amount \in Nat
  PROVE  Lowered(credit, amount) \in Nat /\ Lowered(credit, amount) <= credit
BY DEF Lowered

(* Nobody has used any credit at first. *)
LEMMA InitInv == Init => IInv
<1> SUFFICES ASSUME Init PROVE IInv
  OBVIOUS
<1>1. TypeOK
  <2>1. today \in Days
    BY Constants DEF Init, Days
  <2> QED BY <2>1, BlankType DEF Init, TypeOK, Steps
<1>2. Placed
  BY DEF Init, Placed
<1>3. Checked /\ UsedWithinLimit
  BY BlankType, Constants DEF Init, Checked, UsedWithinLimit
<1> QED BY <1>1, <1>2, <1>3 DEF IInv

(* A request that moves on, and changes neither the tables nor the locks.  *)
LEMMA MoveInv ==
  ASSUME IInv, today' = today, NEW r \in Requests, UNCHANGED <<tables, locks>>,
         NEW step \in Steps, pc[r] # "credit", Goto(r, step),
         NEW v \in Views, view' = [view EXCEPT ![r] = v],
         step = "count" => v.op \in {"office", "web", "other"},
         step \in {"check", "insert", "credit"} => v.number \in Numbers,
         step = "customer" /\ v.op = "office" => v.number \in Numbers,
         step = "write" /\ v.op # "receipt" => v.number \in Numbers,
         step = "customer" /\ v.op \in {"cancel", "status", "payment"} => v.number \in Numbers,
         step \in {"customer", "write"} => v.op \notin {"none", "other"},
         v.used <= Limit,
         step \in {"insert", "credit"} /\ v.op # "other" => v.used + v.amount <= Limit
  PROVE  IInv'
<1>1. /\ pc' \in [Requests -> Steps] /\ pc'[r] = step
      /\ view' \in [Requests -> Views] /\ view'[r] = v
      /\ \A q \in Requests \ {r} : pc'[q] = pc[q] /\ view'[q] = view[q]
  BY DEF IInv, TypeOK, Goto
<1>2. TypeOK'
  BY <1>1 DEF IInv, TypeOK, tables
<1>3. Placed'
  BY <1>1 DEF IInv, Placed
<1>4. Checked'
  BY <1>1 DEF IInv, Checked
<1>5. UsedWithinLimit'
  BY DEF IInv, UsedWithinLimit, tables
<1> QED BY <1>2, <1>3, <1>4, <1>5 DEF IInv

(* A request that ends, and leaves the tables with their types and the     *)
(* credit within the limit.                                                *)
LEMMA DoneInv ==
  ASSUME IInv, today' = today, NEW r \in Requests, Done(r),
         used' \in Nat, used' <= Limit,
         orders' \in [Numbers -> OrderRows], receipts' \in Nat
  PROVE  IInv'
<1>1. /\ pc' \in [Requests -> Steps] /\ pc'[r] = "idle"
      /\ view' \in [Requests -> Views] /\ view'[r] = Blank
      /\ \A q \in Requests \ {r} : pc'[q] = pc[q] /\ view'[q] = view[q]
      /\ locks' = {l \in locks : l[2] # r}
  BY BlankType DEF IInv, TypeOK, Done, Goto, Steps
<1>2. TypeOK'
  BY <1>1 DEF IInv, TypeOK
<1>3. Placed'
  BY <1>1 DEF IInv, Placed
<1>4. Checked'
  BY <1>1, BlankType, Constants DEF IInv, Checked
<1>5. UsedWithinLimit'
  BY DEF UsedWithinLimit
<1> QED BY <1>2, <1>3, <1>4, <1>5 DEF IInv

LEMMA StartInv ==
  ASSUME IInv, today' = today, NEW r \in Requests, Start(r)
  PROVE  IInv'
<1>1. pc[r] = "idle" /\ view[r] \in Views /\ view[r].used <= Limit
  BY DEF Start, IInv, TypeOK, Checked
<1>2. CASE StartOrder(r)
  <2>1. PICK a \in Amounts, op \in {"office", "web", "other"} :
          /\ view' = [view EXCEPT ![r].op = op, ![r].amount = a]
          /\ Goto(r, IF op = "web" THEN "customer" ELSE "count")
          /\ UNCHANGED <<tables, locks>>
    BY <1>2 DEF StartOrder
  <2>2. PICK old \in Views : old = view[r]
    BY <1>1
  <2>3. PICK v \in Views : v = [old EXCEPT !.op = op, !.amount = a]
    BY Constants DEF Views, Ops
  <2>4. view' = [view EXCEPT ![r] = v]
    BY <2>1, <2>2, <2>3
  <2>5. v.op = op /\ v.used = old.used
    BY <2>3 DEF Views
  <2>6. PICK step \in Steps :
          /\ step = IF op = "web" THEN "customer" ELSE "count"
          /\ step = "customer" => op = "web"
          /\ step \in {"customer", "count"}
    BY DEF Steps
  <2> QED BY <1>1, <2>1, <2>2, <2>4, <2>5, <2>6, MoveInv
<1>3. CASE StartChange(r)
  <2>1. PICK n \in Mine, op \in {"cancel", "status", "payment"}, a \in Amounts,
             s \in {"OPEN", "DELIVERED", "CANCELLED"} :
          /\ op = "cancel" => Cancellable(orders[n].status) /\ s = "CANCELLED"
          /\ op = "payment" => orders[n].paid + a <= MaxMoney
          /\ view' = [view EXCEPT ![r].op = op, ![r].number = n, ![r].loaded = orders[n],
                               ![r].amount = IF op = "payment" THEN a ELSE orders[n].total,
                               ![r].status = IF op = "payment" THEN "NONE" ELSE s]
    BY <1>3, Zenon DEF StartChange
  <2>2. Goto(r, "customer") /\ UNCHANGED <<tables, locks>>
    BY <1>3 DEF StartChange
  <2>3. n \in Numbers /\ n \in Nat \X Nat /\ orders[n] \in OrderRows
    BY NumberType DEF Mine, Exist, IInv, TypeOK
  <2>4. PICK old \in Views : old = view[r]
    BY <1>1
  <2>5. PICK amount \in Nat : amount = IF op = "payment" THEN a ELSE orders[n].total
    BY <2>3, Constants DEF OrderRows
  <2>6. PICK status \in Statuses : status = IF op = "payment" THEN "NONE" ELSE s
    BY DEF Statuses
  <2>7. PICK v \in Views : v = [old EXCEPT !.op = op, !.number = n, !.loaded = orders[n],
                                           !.amount = amount, !.status = status]
    BY <2>3 DEF Views, Ops
  <2>8. view' = [view EXCEPT ![r] = v]
    BY <2>1, <2>4, <2>5, <2>6, <2>7
  <2>9. v.op = op /\ v.number = n /\ v.used = old.used
    BY <2>7 DEF Views
  <2>10. "customer" \in Steps
    BY DEF Steps
  <2> QED BY <1>1, <2>2, <2>3, <2>4, <2>8, <2>9, <2>10, MoveInv
<1>4. CASE StartReceipt(r)
  <2>1. PICK a \in Amounts : view' = [view EXCEPT ![r].op = "receipt", ![r].amount = a]
    BY <1>4, Zenon DEF StartReceipt
  <2>2. Goto(r, "customer") /\ UNCHANGED <<tables, locks>>
    BY <1>4 DEF StartReceipt
  <2>3. PICK old \in Views : old = view[r]
    BY <1>1
  <2>4. PICK v \in Views : v = [old EXCEPT !.op = "receipt", !.amount = a]
    BY Constants DEF Views, Ops
  <2>5. view' = [view EXCEPT ![r] = v]
    BY <2>1, <2>3, <2>4
  <2>6. v.op = "receipt" /\ v.used = old.used
    BY <2>4 DEF Views
  <2>7. "customer" \in Steps
    BY DEF Steps
  <2> QED BY <1>1, <2>2, <2>3, <2>5, <2>6, <2>7, MoveInv
<1> QED BY <1>2, <1>3, <1>4 DEF Start

LEMMA ReadCustomerInv ==
  ASSUME IInv, today' = today, NEW r \in Requests, ReadCustomer(r)
  PROVE  IInv'
<1>1. PICK old \in Views : old = view[r]
  BY DEF IInv, TypeOK
<1>2. used \in Nat /\ used <= Limit
  BY DEF IInv, TypeOK, UsedWithinLimit
<1>3. PICK v \in Views : v = [old EXCEPT !.used = used]
  BY <1>2 DEF Views
<1>4. view' = [view EXCEPT ![r] = v] /\ pc[r] = "customer" /\ UNCHANGED <<tables, locks>>
  BY <1>1, <1>3 DEF ReadCustomer
<1>5. v.op = old.op /\ v.number = old.number /\ v.used = used
  BY <1>3 DEF Views
<1>6. PICK step \in {"count", "check", "write"} :
        /\ Goto(r, step)
        /\ old.op = "web" => step = "count"
        /\ old.op = "office" => step = "check"
        /\ old.op \notin {"web", "office"} => step = "write"
  <2>1. CASE old.op = "web"
    BY <2>1, <1>1 DEF ReadCustomer
  <2>2. CASE old.op = "office"
    BY <2>2, <1>1 DEF ReadCustomer
  <2>3. CASE old.op \notin {"web", "office"}
    BY <2>3, <1>1 DEF ReadCustomer
  <2> QED BY <2>1, <2>2, <2>3
<1>7. step \in Steps
  BY DEF Steps
<1>8. /\ old.op = "office" => old.number \in Numbers
      /\ old.op \in {"cancel", "status", "payment"} => old.number \in Numbers
      /\ old.op \notin {"none", "other"}
  BY <1>1, <1>4 DEF IInv, Placed
<1>9. old.op \in Ops
  BY DEF Views
<1> QED
  <2>1. step = "count" => v.op \in {"office", "web", "other"}
    BY <1>5, <1>6
  <2>2. step = "check" => v.number \in Numbers
    BY <1>5, <1>6, <1>8
  <2>3. step = "write" => (v.op # "receipt" => v.number \in Numbers) /\ v.op \notin {"none", "other"}
    BY <1>5, <1>6, <1>8, <1>9 DEF Ops
  <2> QED BY <1>2, <1>4, <1>5, <1>6, <1>7, <2>1, <2>2, <2>3, MoveInv

LEMMA CountInv ==
  ASSUME IInv, today' = today, NEW r \in Requests, Count(r)
  PROVE  IInv'
<1>1. PICK old \in Views : old = view[r]
  BY DEF IInv, TypeOK
<1>2. PICK k \in Nat : k = Cardinality(Of(today)) + 1
  BY CountType
<1>3. PICK n \in Numbers : n = <<today, k>>
  <2>1. today \in Days
    BY DEF IInv, TypeOK
  <2>2. k \in 1 .. MaxOrders
    BY <1>2, CountType, Constants DEF Count
  <2> QED BY <2>1, <2>2 DEF Numbers
<1>4. PICK v \in Views : v = [old EXCEPT !.number = n]
  BY NumberType DEF Views
<1>5. view' = [view EXCEPT ![r] = v] /\ pc[r] = "count" /\ UNCHANGED <<tables, locks>>
  BY <1>1, <1>2, <1>3, <1>4 DEF Count
<1>6. v.op = old.op /\ v.number = n /\ v.used = old.used
  BY <1>4 DEF Views
<1>7. PICK step \in {"check", "customer", "insert"} :
        /\ Goto(r, step)
        /\ old.op = "web" => step = "check"
        /\ old.op = "office" => step = "customer"
        /\ old.op \notin {"web", "office"} => step = "insert"
  <2>1. CASE old.op = "web"
    BY <2>1, <1>1 DEF Count
  <2>2. CASE old.op = "office"
    BY <2>2, <1>1 DEF Count
  <2>3. CASE old.op \notin {"web", "office"}
    BY <2>3, <1>1 DEF Count
  <2> QED BY <2>1, <2>2, <2>3
<1>8. step \in Steps
  BY DEF Steps
<1>9. old.op \in {"office", "web", "other"} /\ old.used <= Limit
  BY <1>1, <1>5 DEF IInv, Placed, Checked
<1> QED BY <1>3, <1>5, <1>6, <1>7, <1>8, <1>9, MoveInv

LEMMA CheckInv ==
  ASSUME IInv, today' = today, NEW r \in Requests, Check(r)
  PROVE  IInv'
<1>1. PICK v \in Views : v = view[r]
  BY DEF IInv, TypeOK
<1>2. view' = [view EXCEPT ![r] = v] /\ pc[r] = "check" /\ UNCHANGED <<tables, locks>>
  BY <1>1 DEF Check, IInv, TypeOK
<1>3. v.used + v.amount <= Limit /\ v.used <= Limit /\ v.number \in Numbers
  BY <1>1, <1>2 DEF Check, WithinLimit, IInv, Checked, Placed
<1>4. Goto(r, "insert") /\ "insert" \in Steps
  BY DEF Check, Steps
<1> QED BY <1>2, <1>3, <1>4, MoveInv

LEMMA InsertInv ==
  ASSUME IInv, today' = today, NEW r \in Requests, Insert(r)
  PROVE  IInv'
<1>1. /\ pc[r] = "insert" /\ UNCHANGED <<tables, view>>
      /\ locks' = locks \cup {<<view[r].number, r>>} /\ pc' = [pc EXCEPT ![r] = "credit"]
  BY DEF Insert, Goto
<1>2. view[r].number \in Numbers
  BY <1>1 DEF IInv, Placed
<1>3. /\ pc' \in [Requests -> Steps] /\ pc'[r] = "credit"
      /\ \A q \in Requests \ {r} : pc'[q] = pc[q]
  BY <1>1 DEF IInv, TypeOK, Steps
<1>4. TypeOK'
  <2>1. \A l \in locks' : l[1] \in Numbers /\ l[2] \in Requests /\ pc'[l[2]] = "credit"
    BY <1>1, <1>2, <1>3 DEF IInv, TypeOK
  <2> QED BY <1>1, <1>3, <2>1 DEF IInv, TypeOK, tables
<1>5. Placed'
  BY <1>1, <1>2, <1>3 DEF IInv, Placed
<1>6. Checked' /\ UsedWithinLimit'
  BY <1>1, <1>3 DEF IInv, Checked, UsedWithinLimit, tables
<1> QED BY <1>4, <1>5, <1>6 DEF IInv

(* The order was found to fit when the credit was read, and the credit is  *)
(* set to what was read and the order's total.                             *)
LEMMA CreateInv ==
  ASSUME IInv, today' = today, NEW r \in Requests, Create(r)
  PROVE  IInv'
<1>1. PICK v \in Views : v = view[r]
  BY DEF IInv, TypeOK
<1>2. v.amount \in Nat /\ v.used \in Nat /\ pc[r] = "credit"
  BY DEF Views, Create
<1>3. used' \in Nat /\ used' <= Limit
  <2>1. CASE v.op = "other"
    BY <1>1, <2>1 DEF Create, IInv, TypeOK, UsedWithinLimit
  <2>2. CASE v.op # "other"
    <3>1. used' = v.used + v.amount
      BY <1>1, <2>2 DEF Create
    <3>2. v.used + v.amount <= Limit
      BY <1>1, <1>2, <2>2 DEF IInv, Checked
    <3> QED BY <1>2, <3>1, <3>2
  <2> QED BY <2>1, <2>2
<1>4. orders' \in [Numbers -> OrderRows]
  <2>0. PICK status \in Statuses : status = IF v.op = "other" THEN "OTHER" ELSE "OPEN"
    BY DEF Statuses
  <2>1. PICK row \in OrderRows : row = [status |-> status, total |-> v.amount, paid |-> 0]
    BY <1>2 DEF OrderRows
  <2>2. orders' = [orders EXCEPT ![v.number] = row]
    BY <1>1, <2>0, <2>1 DEF Create
  <2> QED BY <2>2 DEF IInv, TypeOK
<1>5. receipts' \in Nat /\ Done(r)
  BY DEF Create, IInv, TypeOK
<1> QED BY <1>3, <1>4, <1>5, DoneInv

(* Credit is given back, to what was read less an amount.                  *)
LEMMA WriteInv ==
  ASSUME IInv, today' = today, NEW r \in Requests, Write(r)
  PROVE  IInv'
<1>1. PICK v \in Views : v = view[r]
  BY DEF IInv, TypeOK
<1>2. v.amount \in Nat /\ v.used \in Nat /\ v.loaded \in OrderRows /\ v.status \in Statuses
  BY DEF Views
<1>3. used \in Nat /\ used <= Limit /\ v.used <= Limit
  BY <1>1 DEF IInv, TypeOK, UsedWithinLimit, Checked
<1>4. used' \in Nat /\ used' <= Limit
  <2>1. PICK low \in Nat : low = Lowered(v.used, v.amount) /\ low <= v.used
    BY <1>2, LoweredType
  <2>2. used' \in {used, low}
    BY <1>1, <2>1 DEF Write, Changed
  <2> QED BY <1>2, <1>3, <2>1, <2>2, Constants
<1>5. orders' \in [Numbers -> OrderRows]
  <2>1. orders \in [Numbers -> OrderRows]
    BY DEF IInv, TypeOK
  <2>2. CASE v.op = "receipt"
    BY <1>1, <2>1, <2>2 DEF Write
  <2>3. CASE v.op = "payment"
    <3>0. v.number \in Numbers
      BY <1>1, <2>3 DEF Write, IInv, Placed
    <3>1. PICK paid \in Nat : paid = Changed(v.loaded.paid + v.amount, v.loaded.paid,
                                           orders[v.number].paid)
      BY <1>2, <2>1, <3>0 DEF OrderRows, Changed
    <3>2. orders' = [orders EXCEPT ![v.number].paid = paid]
      BY <1>1, <2>3, <3>1 DEF Write
    <3> QED BY <2>1, <3>2 DEF OrderRows
  <2>4. CASE v.op \notin {"receipt", "payment"}
    <3>0. v.number \in Numbers
      BY <1>1, <2>4 DEF Write, IInv, Placed
    <3>1. PICK s \in Statused(v.status, v.loaded.status, orders[v.number].status) :
            orders' = [orders EXCEPT ![v.number].status = s]
      BY <1>1, <2>4 DEF Write
    <3>2. s \in Statuses
      BY <1>2, <2>1, <3>0 DEF Statused, Changed, OrderRows, Statuses
    <3> QED BY <2>1, <3>1, <3>2 DEF OrderRows
  <2> QED BY <2>2, <2>3, <2>4
<1>6. receipts' \in Nat /\ Done(r)
  BY <1>1, <1>2 DEF Write, IInv, TypeOK
<1> QED BY <1>4, <1>5, <1>6, DoneInv

LEMMA FailInv ==
  ASSUME IInv, today' = today, NEW r \in Requests, Fail(r)
  PROVE  IInv'
BY DoneInv DEF Fail, tables, IInv, TypeOK, UsedWithinLimit

(* The gateway and the courier change the row of an order of the           *)
(* customer's, but not its total, and nothing else.                        *)
LEMMA ElsewhereRow ==
  ASSUME TypeOK, Elsewhere
  PROVE  /\ \E n \in Mine, row \in OrderRows :
              /\ row.total = orders[n].total /\ row.status \in {"OPEN", "DELIVERED", "CANCELLED"}
              /\ orders' = [orders EXCEPT ![n] = row]
         /\ UNCHANGED <<used, receipts, today, locks, pc, view>>
<1>1. \A n \in Mine : /\ n \in Numbers /\ orders[n] \in OrderRows
                      /\ orders[n].status \in {"OPEN", "DELIVERED", "CANCELLED"}
  BY DEF Mine, Exist, TypeOK, OrderRows, Statuses
<1>2. CASE Gateway
  <2>1. PICK n \in Mine, a \in Amounts :
          \/ orders' = [orders EXCEPT ![n].status = "OPEN", ![n].paid = orders[n].total]
          \/ orders' = [orders EXCEPT ![n].paid = a]
    BY <1>2 DEF Gateway
  <2>2. PICK old \in OrderRows : old = orders[n]
    BY <1>1
  <2>3. old.total \in Nat /\ a \in Nat
    BY Constants DEF OrderRows
  <2>4. PICK row \in {[old EXCEPT !.status = "OPEN", !.paid = old.total], [old EXCEPT !.paid = a]} :
          orders' = [orders EXCEPT ![n] = row]
    BY <2>1, <2>2
  <2>5. /\ row \in OrderRows /\ row.total = old.total
        /\ row.status \in {"OPEN", old.status}
    BY <2>3 DEF OrderRows, Statuses
  <2> QED BY <1>1, <1>2, <2>2, <2>4, <2>5 DEF Gateway
<1>3. CASE Courier
  <2>1. PICK n \in Mine, s \in {"OPEN", "DELIVERED", "CANCELLED"} :
          orders' = [orders EXCEPT ![n].status = s]
    BY <1>3 DEF Courier
  <2>2. PICK row \in OrderRows : row = [orders[n] EXCEPT !.status = s]
    BY <1>1 DEF OrderRows, Statuses
  <2>3. row.total = orders[n].total /\ row.status = s
    BY <1>1, <2>2 DEF OrderRows
  <2> QED BY <1>3, <2>1, <2>2, <2>3 DEF Courier
<1> QED BY <1>2, <1>3 DEF Elsewhere

LEMMA ElsewhereInv ==
  ASSUME IInv, Elsewhere
  PROVE  IInv'
<1>1. orders' \in [Numbers -> OrderRows] /\ UNCHANGED <<used, receipts, today, locks, pc, view>>
  BY ElsewhereRow DEF IInv, TypeOK
<1> QED BY <1>1 DEF IInv, TypeOK, Placed, Checked, UsedWithinLimit

(* Every step keeps the invariant. *)
LEMMA StepInv == IInv /\ [Next]_vars => IInv'
<1>1. ASSUME IInv, Serve PROVE IInv'
  BY <1>1, StartInv, ReadCustomerInv, CountInv, CheckInv, InsertInv, CreateInv, WriteInv, FailInv
  DEF Serve, Step
<1>2. ASSUME IInv, Elsewhere PROVE IInv'
  BY <1>2, ElsewhereInv
<1>3. ASSUME IInv, Midnight PROVE IInv'
  <2>1. today' \in Days
    BY <1>3, Constants DEF Midnight, Days, IInv, TypeOK
  <2> QED BY <1>3, <2>1 DEF Midnight, tables, IInv, TypeOK, Placed, Checked, UsedWithinLimit
<1>4. ASSUME IInv, UNCHANGED vars PROVE IInv'
  BY <1>4 DEF vars, tables, IInv, TypeOK, Placed, Checked, UsedWithinLimit
<1> QED BY <1>1, <1>2, <1>3, <1>4 DEF Next

(* The customer, the orders and the requests keep their types, and only a  *)
(* request that is inserting holds a number.                               *)
THEOREM TypeCorrect == Spec => []TypeOK
<1>1. IInv => TypeOK
  BY DEF IInv
<1> QED BY InitInv, StepInv, <1>1, PTL DEF Spec

(* credit_used never exceeds credit_limit, though it is checked, raised    *)
(* and lowered by requests that overlap and lock nothing: each sets it to  *)
(* a value that was within the limit when the request read it.             *)
THEOREM CreditWithinLimit == Spec => []UsedWithinLimit
<1>1. IInv => UsedWithinLimit
  BY DEF IInv
<1> QED BY InitInv, StepInv, <1>1, PTL DEF Spec

-----------------------------------------------------------------------------
(* What the columns hold together.                                         *)
Ordered == SumFunctionOnSet(Total, Live)
Owed    == SumFunctionOnSet(Unpaid, Live)
PaidIn  == SumFunctionOnSet(Paid, Mine)

(* The columns are of numbers, and the customer has a number of orders.    *)
LEMMA Columns ==
  ASSUME TypeOK
  PROVE  /\ IsFiniteSet(Live) /\ IsFiniteSet(Mine)
         /\ Live \subseteq Mine /\ Mine \subseteq Numbers
         /\ \A n \in Numbers : Total[n] \in Nat /\ Paid[n] \in Nat /\ Unpaid[n] \in Nat
         /\ \A n \in Numbers : Unpaid[n] <= Total[n]
         /\ Ordered \in Nat /\ Owed \in Nat /\ PaidIn \in Nat
<1>1. Live \subseteq Mine /\ Mine \subseteq Numbers
  BY DEF Live, Mine, Exist
<1>2. IsFiniteSet(Numbers)
  BY NumbersFinite
<1>3. IsFiniteSet(Live) /\ IsFiniteSet(Mine)
  <2>1. IsFiniteSet(Mine)
    BY <1>1, <1>2, FS_Subset
  <2> QED BY <1>1, <2>1, FS_Subset
<1>4. \A n \in Numbers : orders[n].total \in Nat /\ orders[n].paid \in Nat
  BY DEF TypeOK, OrderRows
<1>5. \A n \in Numbers : Total[n] \in Nat /\ Paid[n] \in Nat
  BY <1>4 DEF Total, Paid
<1>6. \A n \in Numbers : Unpaid[n] \in Nat /\ Unpaid[n] <= Total[n]
  BY <1>4, LoweredType DEF Unpaid, Total
<1>7. \A n \in Live : n \in Numbers
  BY <1>1
<1>8. Ordered \in Nat
  BY <1>3, <1>5, <1>7, SumNatural DEF Ordered
<1>9. Owed \in Nat
  BY <1>3, <1>6, <1>7, SumNatural DEF Owed
<1>10. PaidIn \in Nat
  BY <1>1, <1>3, <1>5, SumNatural DEF PaidIn
<1> QED BY <1>1, <1>3, <1>5, <1>6, <1>8, <1>9, <1>10

SumsTyped == Ordered \in Nat /\ Owed \in Nat /\ PaidIn \in Nat

LEMMA SumsNow == TypeOK => SumsTyped
BY Columns DEF SumsTyped

LEMMA SumsNext == TypeOK' => SumsTyped'
BY SumsNow, PTL

(* An order more of the customer adds its total to what is ordered and to  *)
(* what is owed.                                                           *)
LEMMA OrderAdded ==
  ASSUME TypeOK, TypeOK', NEW n \in Numbers, orders[n].status = "NONE", NEW a \in Nat,
         orders' = [orders EXCEPT ![n] = [status |-> "OPEN", total |-> a, paid |-> 0]]
  PROVE  Ordered' = Ordered + a /\ Owed' = Owed + a /\ PaidIn' = PaidIn
<1>1. /\ orders'[n].status = "OPEN" /\ orders'[n].total = a /\ orders'[n].paid = 0
      /\ \A m \in Numbers \ {n} : orders'[m] = orders[m]
  BY DEF TypeOK
<1>2. Exist' = Exist \cup {n} /\ n \notin Exist
  BY <1>1 DEF Exist
<1>3. Mine' = Mine \cup {n} /\ n \notin Mine
  BY <1>1, <1>2 DEF Mine
<1>4. Live' = Live \cup {n} /\ n \notin Live
  BY <1>1, <1>3 DEF Live
<1>5. \A m \in Numbers \ {n} : Total'[m] = Total[m] /\ Paid'[m] = Paid[m] /\ Unpaid'[m] = Unpaid[m]
  BY <1>1 DEF Total, Paid, Unpaid
<1>6. Total'[n] = a /\ Paid'[n] = 0 /\ Unpaid'[n] = a
  BY <1>1 DEF Total, Paid, Unpaid, Lowered
<1>7. \A m \in Mine : m \in Numbers \ {n}
  BY <1>3, Columns
<1>8. \A m \in Live : m \in Numbers \ {n}
  BY <1>4, Columns
<1>9. Ordered' = Ordered + a
  <2>1. Total'[n] \in Int /\ \A m \in Live : Total[m] \in Int /\ Total'[m] = Total[m]
    BY <1>5, <1>6, <1>8, Columns
  <2>2. SumFunctionOnSet(Total', Live \cup {n}) = SumFunctionOnSet(Total, Live) + Total'[n]
    <3>1. IsFiniteSet(Live) /\ n \notin Live
      BY <1>4, Columns
    <3>2. \A h : h[n] \in Int /\ (\A m \in Live : h[m] = Total[m]) =>
                  SumFunctionOnSet(h, Live \cup {n}) = SumFunctionOnSet(Total, Live) + h[n]
      BY <2>1, <3>1, SumAdded
    <3> QED BY <2>1, <3>2
  <2>3. Ordered' = Ordered + Total'[n]
    BY <1>4, <2>2 DEF Ordered
  <2> QED BY <1>6, <2>3
<1>10. Owed' = Owed + a
  <2>1. Unpaid'[n] \in Int /\ \A m \in Live : Unpaid[m] \in Int /\ Unpaid'[m] = Unpaid[m]
    BY <1>5, <1>6, <1>8, Columns
  <2>2. SumFunctionOnSet(Unpaid', Live \cup {n}) = SumFunctionOnSet(Unpaid, Live) + Unpaid'[n]
    <3>1. IsFiniteSet(Live) /\ n \notin Live
      BY <1>4, Columns
    <3>2. \A h : h[n] \in Int /\ (\A m \in Live : h[m] = Unpaid[m]) =>
                  SumFunctionOnSet(h, Live \cup {n}) = SumFunctionOnSet(Unpaid, Live) + h[n]
      BY <2>1, <3>1, SumAdded
    <3> QED BY <2>1, <3>2
  <2>3. Owed' = Owed + Unpaid'[n]
    BY <1>4, <2>2 DEF Owed
  <2> QED BY <1>6, <2>3
<1>11. PaidIn' = PaidIn + 0
  <2>1. Paid'[n] \in Int /\ \A m \in Mine : Paid[m] \in Int /\ Paid'[m] = Paid[m]
    BY <1>5, <1>6, <1>7, Columns
  <2>2. SumFunctionOnSet(Paid', Mine \cup {n}) = SumFunctionOnSet(Paid, Mine) + Paid'[n]
    <3>1. IsFiniteSet(Mine) /\ n \notin Mine
      BY <1>3, Columns
    <3>2. \A h : h[n] \in Int /\ (\A m \in Mine : h[m] = Paid[m]) =>
                  SumFunctionOnSet(h, Mine \cup {n}) = SumFunctionOnSet(Paid, Mine) + h[n]
      BY <2>1, <3>1, SumAdded
    <3> QED BY <2>1, <3>2
  <2>3. PaidIn' = PaidIn + Paid'[n]
    BY <1>3, <2>2 DEF PaidIn
  <2> QED BY <1>6, <2>3
<1> QED BY <1>9, <1>10, <1>11, Columns

(* Rows that are not the customer's are in no column. *)
LEMMA OtherAdded ==
  ASSUME TypeOK, NEW n \in Numbers, orders[n].status = "NONE",
         orders'[n].status = "OTHER",
         \A m \in Numbers \ {n} : orders'[m] = orders[m]
  PROVE  Ordered' = Ordered /\ Owed' = Owed /\ PaidIn' = PaidIn
<1>1. Mine' = Mine /\ n \notin Mine
  BY DEF Mine, Exist
<1>2. \A m \in Mine : m \in Numbers /\ orders'[m] = orders[m]
  BY <1>1, Columns
<1>3. Live' = Live
  BY <1>1, <1>2 DEF Live
<1>4. \A m \in Mine : Total'[m] = Total[m] /\ Paid'[m] = Paid[m] /\ Unpaid'[m] = Unpaid[m]
  BY <1>2 DEF Total, Paid, Unpaid
<1>5. \A m \in Live : m \in Mine
  BY Columns
<1>6. Ordered' = Ordered
  BY <1>3, <1>4, <1>5, Columns, SumAgrees DEF Ordered
<1>7. Owed' = Owed
  BY <1>3, <1>4, <1>5, Columns, SumAgrees DEF Owed
<1>8. PaidIn' = PaidIn
  BY <1>1, <1>4, Columns, SumAgrees DEF PaidIn
<1> QED BY <1>6, <1>7, <1>8

(* A payment raises what is paid by its amount, and lowers what is owed by *)
(* no more than that.                                                      *)
LEMMA PaymentAdded ==
  ASSUME TypeOK, TypeOK', NEW n \in Mine, NEW a \in Nat,
         orders' = [orders EXCEPT ![n].paid = orders[n].paid + a]
  PROVE  Ordered' = Ordered /\ Owed' >= Owed - a /\ PaidIn' = PaidIn + a
<1>0. n \in Numbers /\ orders[n] \in OrderRows
  BY Columns DEF TypeOK
<1>1. /\ \A m \in Numbers : orders'[m].status = orders[m].status /\ orders'[m].total = orders[m].total
      /\ orders'[n].paid = orders[n].paid + a
      /\ \A m \in Numbers \ {n} : orders'[m] = orders[m]
  BY <1>0 DEF TypeOK, OrderRows
<1>2. Mine' = Mine
  BY <1>1 DEF Mine, Exist
<1>3. Live' = Live
  BY <1>1, <1>2, Columns DEF Live
<1>4. \A m \in Numbers : Total'[m] = Total[m]
  BY <1>1 DEF Total
<1>5. Paid'[n] = Paid[n] + a /\ \A m \in Numbers \ {n} : Paid'[m] = Paid[m]
  BY <1>0, <1>1 DEF Paid
<1>6. \A m \in Numbers \ {n} : Unpaid'[m] = Unpaid[m]
  BY <1>1 DEF Unpaid
<1>7. Unpaid'[n] \in Nat /\ Unpaid'[n] >= Unpaid[n] - a
  <2>1. orders[n].total \in Nat /\ orders[n].paid \in Nat
    BY <1>0 DEF OrderRows
  <2>2. /\ Unpaid[n] = Lowered(orders[n].total, orders[n].paid)
        /\ Unpaid'[n] = Lowered(orders[n].total, orders[n].paid + a)
    BY <1>0, <1>1 DEF Unpaid
  <2> QED BY <2>1, <2>2 DEF Lowered
<1>8. \A m \in Live : m \in Numbers
  BY Columns
<1>9. Ordered' = Ordered
  BY <1>3, <1>4, <1>8, Columns, SumAgrees DEF Ordered
<1>10. PaidIn' = PaidIn + a
  <2>1. PaidIn' = PaidIn - Paid[n] + Paid'[n]
    <3>1. Paid'[n] \in Int /\ \A m \in Mine : Paid[m] \in Int
      BY <1>0, <1>5, Columns
    <3>2. \A m \in Mine \ {n} : Paid'[m] = Paid[m]
      BY <1>5, Columns
    <3> QED BY <1>2, <3>1, <3>2, Columns, SumChanged DEF PaidIn
  <2> QED BY <2>1, <1>0, <1>5, Columns
<1>11. Owed' >= Owed - a
  <2>1. CASE n \in Live
    <3>1. Unpaid'[n] \in Int
      BY <1>7
    <3>2. \A m \in Live : Unpaid[m] \in Int
      BY <1>8, Columns
    <3>3. \A m \in Live \ {n} : Unpaid'[m] = Unpaid[m]
      BY <1>6, <1>8
    <3>4. Owed' = Owed - Unpaid[n] + Unpaid'[n]
      BY <1>3, <2>1, <3>1, <3>2, <3>3, Columns, SumChanged DEF Owed
    <3> QED BY <1>0, <1>7, <3>4, Columns
  <2>2. CASE n \notin Live
    <3>1. \A m \in Live : Unpaid'[m] = Unpaid[m]
      BY <1>6, <1>8, <2>2
    <3>2. Owed' = Owed
      BY <1>3, <3>1, Columns, SumAgrees DEF Owed
    <3> QED BY <3>2, Columns
  <2> QED BY <2>1, <2>2
<1> QED BY <1>9, <1>10, <1>11

(* An order that is set to another status of the customer's changes only   *)
(* whether it is live: the columns are those of the orders that are.       *)
LEMMA StatusChanged ==
  ASSUME TypeOK, TypeOK', NEW n \in Mine, NEW status \in {"OPEN", "DELIVERED", "CANCELLED"},
         orders' = [orders EXCEPT ![n].status = status]
  PROVE  /\ PaidIn' = PaidIn
         /\ status # "CANCELLED" /\ n \in Live => Ordered' = Ordered
         /\ status # "CANCELLED" => Owed' >= Owed
         /\ status = "CANCELLED" /\ n \in Live =>
              Ordered' = Ordered - Total[n] /\ Owed' = Owed - Unpaid[n]
         /\ status = "CANCELLED" /\ n \notin Live => Ordered' = Ordered /\ Owed' = Owed
<1>0. n \in Numbers /\ orders[n] \in OrderRows
  BY Columns DEF TypeOK
<1>1. /\ \A m \in Numbers : orders'[m].paid = orders[m].paid /\ orders'[m].total = orders[m].total
      /\ orders'[n].status = status
      /\ \A m \in Numbers \ {n} : orders'[m] = orders[m]
  BY <1>0 DEF TypeOK, OrderRows
<1>2. Mine' = Mine
  BY <1>0, <1>1 DEF Mine, Exist
<1>3. \A m \in Numbers : Total'[m] = Total[m] /\ Paid'[m] = Paid[m] /\ Unpaid'[m] = Unpaid[m]
  BY <1>1 DEF Total, Paid, Unpaid
<1>4. \A m \in Mine : m \in Numbers /\ Paid'[m] = Paid[m]
  BY <1>3, Columns
<1>5. \A m \in Live : /\ m \in Numbers /\ Total[m] \in Int /\ Unpaid[m] \in Int
                      /\ Total'[m] = Total[m] /\ Unpaid'[m] = Unpaid[m]
  BY <1>3, Columns
<1>6. PaidIn' = PaidIn
  BY <1>2, <1>4, Columns, SumAgrees DEF PaidIn
<1>7. IsFiniteSet(Live)
  BY Columns
<1>8. SumFunctionOnSet(Total', Live) = Ordered /\ SumFunctionOnSet(Unpaid', Live) = Owed
  BY <1>5, <1>7, SumAgrees DEF Ordered, Owed
<1>9. ASSUME status # "CANCELLED"
      PROVE  /\ n \in Live => Ordered' = Ordered
             /\ Owed' >= Owed
  <2>1. Live' = Live \cup {n}
    BY <1>0, <1>1, <1>2, <1>9 DEF Live, Mine, Exist
  <2>2. CASE n \in Live
    <3>1. Live' = Live
      BY <2>1, <2>2
    <3>2. Ordered' = Ordered /\ Owed' = Owed
      BY <1>8, <3>1 DEF Ordered, Owed
    <3> QED BY <2>2, <3>2, Columns
  <2>3. CASE n \notin Live
    <3>1. IsFiniteSet(Live \cup {n})
      BY <1>7, FS_AddElement
    <3>2. \A m \in Live \cup {n} : Unpaid'[m] \in Nat
      <4>1. \A m \in Live \cup {n} : m \in Numbers
        BY <1>0, <1>5
      <4> QED BY <1>3, <4>1, Columns
    <3>3. Live \in SUBSET (Live \cup {n})
      OBVIOUS
    <3>4. SumFunctionOnSet(Unpaid', Live) <= SumFunctionOnSet(Unpaid', Live \cup {n})
      BY <3>1, <3>2, <3>3, SumGrows
    <3>5. Owed' = SumFunctionOnSet(Unpaid', Live \cup {n})
      BY <2>1 DEF Owed
    <3>6. Owed' \in Nat
      BY <3>1, <3>2, <3>5, SumNatural
    <3> QED BY <1>8, <2>3, <3>4, <3>5, <3>6, Columns
  <2> QED BY <2>2, <2>3
<1>10. ASSUME status = "CANCELLED", n \in Live
       PROVE  Ordered' = Ordered - Total[n] /\ Owed' = Owed - Unpaid[n]
  <2>1. Live' = Live \ {n}
    BY <1>0, <1>1, <1>2, <1>10 DEF Live, Mine, Exist
  <2>2. \A m \in Live \ {n} : Total'[m] = Total[m] /\ Unpaid'[m] = Unpaid[m]
    BY <1>5
  <2>3. SumFunctionOnSet(Total', Live \ {n}) = SumFunctionOnSet(Total, Live) - Total[n]
    <3>1. \A h : (\A m \in Live \ {n} : h[m] = Total[m]) =>
            SumFunctionOnSet(h, Live \ {n}) = SumFunctionOnSet(Total, Live) - Total[n]
      BY <1>5, <1>7, <1>10, SumRemoved
    <3> QED BY <2>2, <3>1
  <2>4. SumFunctionOnSet(Unpaid', Live \ {n}) = SumFunctionOnSet(Unpaid, Live) - Unpaid[n]
    <3>1. \A h : (\A m \in Live \ {n} : h[m] = Unpaid[m]) =>
            SumFunctionOnSet(h, Live \ {n}) = SumFunctionOnSet(Unpaid, Live) - Unpaid[n]
      BY <1>5, <1>7, <1>10, SumRemoved
    <3> QED BY <2>2, <3>1
  <2> QED BY <2>1, <2>3, <2>4 DEF Ordered, Owed
<1>11. ASSUME status = "CANCELLED", n \notin Live
       PROVE  Ordered' = Ordered /\ Owed' = Owed
  <2>1. Live' = Live
    BY <1>0, <1>1, <1>2, <1>11 DEF Live, Mine, Exist
  <2> QED BY <1>8, <2>1 DEF Ordered, Owed
<1> QED BY <1>6, <1>9, <1>10, <1>11

-----------------------------------------------------------------------------
(* What a request relies on, where it is the only one under way, is still  *)
(* what it read: the credit, and the order it changes; and the number an   *)
(* order is inserted with is free.                                         *)
Relied(r) ==
  \/ pc[r] \in {"check", "write"}
  \/ pc[r] = "count" /\ view[r].op = "web"
  \/ pc[r] \in {"insert", "credit"} /\ view[r].op # "other"

CurrentFor(r) ==
  LET v == view[r] IN
  /\ Relied(r) => v.used = used
  /\ pc[r] = "write" => v.op \notin {"office", "web"}
  /\ pc[r] = "credit" => orders[v.number].status = "NONE"
  /\ pc[r] \in {"customer", "write"} /\ v.op \in {"cancel", "status", "payment"} =>
       /\ v.number \in Mine /\ v.loaded = orders[v.number]
       /\ v.op = "payment" \/ (/\ v.amount = v.loaded.total
                               /\ v.status \in {"OPEN", "DELIVERED", "CANCELLED"})
       /\ v.op = "cancel" => v.loaded.status # "CANCELLED"

(* One request at a time: no more credit is used than is owed where no     *)
(* gateway and no courier is, and no less than is outstanding where nobody *)
(* sets the status of a cancelled order.                                   *)
AloneInv ==
  mode \in {"alone", "careful"} =>
    /\ OneAtATime /\ \A r \in Requests : CurrentFor(r)
    /\ mode = "alone" => used <= Owed
    /\ mode = "careful" => Careful /\ Ordered - PaidIn - receipts <= used

(* Orders of the office: a day's numbers are given without gaps, one       *)
(* request at a time inserts an order with a number, and the credit a      *)
(* request has read is still what is used while the number it counted is   *)
(* free.                                                                   *)
Counted(r) ==
  LET n == view[r].number IN
  /\ n[1] = today /\ \A k \in 1 .. (n[2] - 1) : <<today, k>> \in Exist
  /\ pc[r] # "customer" /\ view[r].op = "office" /\ n \notin Exist => view[r].used = used

OfficeFor(r) ==
  /\ pc[r] # "idle" => view[r].op \in {"office", "other"}
  /\ pc[r] # "write" /\ (pc[r] = "customer" => view[r].op = "office")
  /\ pc[r] = "credit" => /\ <<view[r].number, r>> \in locks
                         /\ orders[view[r].number].status = "NONE"
  /\ pc[r] \in {"customer", "check", "insert", "credit"} => Counted(r)

Gapless == \A n \in Exist : \A k \in 1 .. n[2] : <<n[1], k>> \in Exist

OfficeInv ==
  mode = "office" =>
    /\ Office /\ \A r \in Requests : OfficeFor(r)
    /\ Gapless
    /\ \A l, k \in locks : l[1] = k[1] => l = k
    /\ used = Ordered

ModesInv == IInv /\ AloneInv /\ OfficeInv

(* What is in the columns depends on the orders only. *)
LEMMA ColumnsKept ==
  ASSUME orders' = orders
  PROVE  Ordered' = Ordered /\ Owed' = Owed /\ PaidIn' = PaidIn /\ Exist' = Exist /\ Mine' = Mine
<1>1. Exist' = Exist /\ Mine' = Mine
  BY DEF Mine, Exist
<1>2. Live' = Live
  BY <1>1 DEF Live
<1>3. Total' = Total /\ Paid' = Paid /\ Unpaid' = Unpaid
  BY DEF Total, Paid, Unpaid
<1> QED BY <1>1, <1>2, <1>3 DEF Ordered, Owed, PaidIn

(* A step is of one request, which is under way before it or after it.     *)
LEMMA OneMoves ==
  ASSUME NEW r \in Requests, Step(r), TypeOK
  PROVE  /\ \A q \in Requests \ {r} : pc'[q] = pc[q] /\ view'[q] = view[q]
         /\ pc[r] # "idle" \/ pc'[r] # "idle"
<1>1. CASE Start(r)
  <2>1. /\ \A q \in Requests \ {r} : pc'[q] = pc[q] /\ view'[q] = view[q]
        /\ pc'[r] \in {"customer", "count"}
    <3>1. CASE StartOrder(r)
      BY <3>1 DEF StartOrder, Goto, TypeOK
    <3>2. CASE StartChange(r)
      <4>2. \A q \in Requests \ {r} : view'[q] = view[q]
        BY <3>2 DEF StartChange, TypeOK
      <4>3. pc' = [pc EXCEPT ![r] = "customer"]
        BY <3>2 DEF StartChange, Goto
      <4> QED BY <4>2, <4>3 DEF TypeOK
    <3>3. CASE StartReceipt(r)
      BY <3>3 DEF StartReceipt, Goto, TypeOK
    <3> QED BY <1>1, <3>1, <3>2, <3>3 DEF Start
  <2> QED BY <2>1
<1>2. CASE ReadCustomer(r) \/ Count(r) \/ Check(r) \/ Insert(r)
  BY <1>2 DEF ReadCustomer, Count, Check, Insert, Goto, TypeOK
<1>3. CASE Create(r) \/ Write(r) \/ Fail(r)
  BY <1>3 DEF Create, Write, Fail, Done, Goto, TypeOK
<1> QED BY <1>1, <1>2, <1>3 DEF Step

(* Where one request at a time is under way, the others rely on nothing.   *)
LEMMA OthersIdle ==
  ASSUME NEW r \in Requests, Step(r), TypeOK, OneAtATime, OneAtATime'
  PROVE  \A q \in Requests \ {r} : pc'[q] = "idle" /\ CurrentFor(q)'
<1>1. \A q \in Requests \ {r} : pc'[q] = "idle"
  BY OneMoves DEF OneAtATime
<1> QED BY <1>1 DEF CurrentFor, Relied

(* A step that leaves the tables alone. *)
LEMMA AloneMove ==
  ASSUME AloneInv, TypeOK, mode' = mode, UNCHANGED tables, NEW r \in Requests, Step(r),
         mode \in {"alone", "careful"} => OneAtATime',
         mode = "careful" => Careful',
         mode \in {"alone", "careful"} => CurrentFor(r)'
  PROVE  AloneInv'
<1> SUFFICES ASSUME mode \in {"alone", "careful"} PROVE AloneInv'
  BY DEF AloneInv
<1>1. \A q \in Requests : CurrentFor(q)'
  BY OthersIdle DEF AloneInv
<1>2. used' = used /\ receipts' = receipts /\ Owed' = Owed /\ Ordered' = Ordered /\ PaidIn' = PaidIn
  BY ColumnsKept DEF tables
<1> QED BY <1>1, <1>2 DEF AloneInv

LEMMA AloneStart ==
  ASSUME NEW r \in Requests, IInv, Start(r)
  PROVE  CurrentFor(r)'
<1>0. view[r] \in Views /\ view \in [Requests -> Views] /\ pc \in [Requests -> Steps]
  BY DEF IInv, TypeOK
<1>1. CASE StartOrder(r)
  <2>1. PICK a \in Amounts, op \in {"office", "web", "other"} :
          /\ view' = [view EXCEPT ![r].op = op, ![r].amount = a]
          /\ Goto(r, IF op = "web" THEN "customer" ELSE "count")
    BY <1>1 DEF StartOrder
  <2>2. view'[r].op = op
    BY <1>0, <2>1 DEF Views
  <2>3. pc'[r] \in {"customer", "count"} /\ (pc'[r] = "count" => op # "web")
    BY <1>0, <2>1 DEF Goto
  <2> QED BY <2>2, <2>3 DEF CurrentFor, Relied
<1>2. CASE StartChange(r)
  <2>1. PICK n \in Mine, op \in {"cancel", "status", "payment"}, a \in Amounts,
             s \in {"OPEN", "DELIVERED", "CANCELLED"} :
          /\ op = "cancel" => Cancellable(orders[n].status) /\ s = "CANCELLED"
          /\ op = "payment" => orders[n].paid + a <= MaxMoney
          /\ view' = [view EXCEPT ![r].op = op, ![r].number = n, ![r].loaded = orders[n],
                               ![r].amount = IF op = "payment" THEN a ELSE orders[n].total,
                               ![r].status = IF op = "payment" THEN "NONE" ELSE s]
    BY <1>2, Zenon DEF StartChange
  <2>2. PICK amount : amount = IF op = "payment" THEN a ELSE orders[n].total
    OBVIOUS
  <2>3. PICK status : status = IF op = "payment" THEN "NONE" ELSE s
    OBVIOUS
  <2>4. view' = [view EXCEPT ![r].op = op, ![r].number = n, ![r].loaded = orders[n],
                             ![r].amount = amount, ![r].status = status]
    BY <2>1, <2>2, <2>3
  <2>5. /\ view'[r].op = op /\ view'[r].number = n /\ view'[r].loaded = orders[n]
        /\ view'[r].amount = amount /\ view'[r].status = status
    BY <1>0, <2>4 DEF Views
  <2>6. pc'[r] = "customer" /\ orders' = orders /\ Mine' = Mine
    BY <1>0, <1>2, ColumnsKept DEF StartChange, Goto, tables
  <2>7. ~ Relied(r)'
    BY <2>6 DEF Relied
  <2>8. op = "cancel" => orders[n].status # "CANCELLED"
    BY <2>1 DEF Cancellable
  <2>9. op = "payment" \/ (/\ amount = orders[n].total
                           /\ status \in {"OPEN", "DELIVERED", "CANCELLED"})
    <3>1. CASE op = "payment"
      BY <3>1
    <3>2. CASE op # "payment"
      BY <2>2, <2>3, <3>2
    <3> QED BY <3>1, <3>2
  <2> QED BY <2>5, <2>6, <2>7, <2>8, <2>9 DEF CurrentFor
<1>3. CASE StartReceipt(r)
  <2>1. view'[r].op = "receipt"
    BY <1>0, <1>3 DEF StartReceipt, Views
  <2>2. pc'[r] = "customer"
    BY <1>0, <1>3 DEF StartReceipt, Goto
  <2> QED BY <2>1, <2>2 DEF CurrentFor, Relied
<1> QED BY <1>1, <1>2, <1>3 DEF Start

LEMMA AloneRead ==
  ASSUME NEW r \in Requests, IInv, CurrentFor(r), ReadCustomer(r)
  PROVE  CurrentFor(r)'
<1>0. view[r] \in Views /\ view \in [Requests -> Views] /\ pc \in [Requests -> Steps]
  BY DEF IInv, TypeOK
<1>1. /\ view'[r].op = view[r].op /\ view'[r].number = view[r].number
      /\ view'[r].loaded = view[r].loaded /\ view'[r].amount = view[r].amount
      /\ view'[r].status = view[r].status /\ view'[r].used = used
  BY <1>0 DEF ReadCustomer, Views
<1>2. /\ pc[r] = "customer" /\ pc'[r] \in {"count", "check", "write"}
      /\ pc'[r] = "write" => view[r].op \notin {"office", "web"}
      /\ orders' = orders /\ used' = used /\ Mine' = Mine
  BY <1>0, ColumnsKept DEF ReadCustomer, Goto, tables
<1> QED BY <1>1, <1>2 DEF CurrentFor, Relied

LEMMA AloneCount ==
  ASSUME NEW r \in Requests, IInv, CurrentFor(r), Count(r)
  PROVE  CurrentFor(r)'
<1>0. view[r] \in Views /\ view \in [Requests -> Views] /\ pc \in [Requests -> Steps]
  BY DEF IInv, TypeOK
<1>1. view'[r].op = view[r].op /\ view'[r].used = view[r].used
  BY <1>0 DEF Count, Views
<1>2. /\ pc[r] = "count" /\ view[r].op \in {"office", "web", "other"}
      /\ pc'[r] \in {"check", "customer", "insert"}
      /\ pc'[r] = "check" <=> view[r].op = "web"
      /\ pc'[r] = "insert" <=> view[r].op = "other"
      /\ used' = used
  BY <1>0 DEF Count, Goto, tables, IInv, Placed
<1>3. Relied(r)' => Relied(r)
  BY <1>1, <1>2 DEF Relied
<1> QED BY <1>1, <1>2, <1>3 DEF CurrentFor

LEMMA AloneCheck ==
  ASSUME NEW r \in Requests, IInv, CurrentFor(r), Check(r)
  PROVE  CurrentFor(r)'
<1>1. pc[r] = "check" /\ pc'[r] = "insert" /\ UNCHANGED <<tables, locks, view>>
  BY DEF Check, Goto, IInv, TypeOK
<1> QED BY <1>1 DEF CurrentFor, Relied, tables

LEMMA AloneInsert ==
  ASSUME NEW r \in Requests, IInv, CurrentFor(r), Insert(r)
  PROVE  CurrentFor(r)'
<1>1. pc[r] = "insert" /\ pc'[r] = "credit" /\ UNCHANGED <<tables, view>>
  BY DEF Insert, Goto, IInv, TypeOK
<1>2. orders[view[r].number].status = "NONE"
  BY DEF Insert, NoRow
<1> QED BY <1>1, <1>2 DEF CurrentFor, Relied, tables

(* A request that ends, and keeps the sums in order. *)
LEMMA AloneDone ==
  ASSUME AloneInv, TypeOK, mode' = mode, NEW r \in Requests, Step(r), Done(r),
         mode \in {"alone", "careful"} => OneAtATime',
         mode = "careful" => Careful',
         mode = "alone" => used' <= Owed',
         mode = "careful" => Ordered' - PaidIn' - receipts' <= used'
  PROVE  AloneInv'
<1> SUFFICES ASSUME mode \in {"alone", "careful"} PROVE AloneInv'
  BY DEF AloneInv
<1>1. pc'[r] = "idle"
  BY DEF Done, Goto, TypeOK
<1>2. CurrentFor(r)'
  BY <1>1 DEF CurrentFor, Relied
<1>3. \A q \in Requests : CurrentFor(q)'
  BY <1>2, OthersIdle DEF AloneInv
<1> QED BY <1>3 DEF AloneInv

LEMMA AloneCreate ==
  ASSUME IInv, TypeOK', AloneInv, mode' = mode, NEW r \in Requests, Step(r), Create(r),
         mode \in {"alone", "careful"} => OneAtATime',
         mode = "careful" => Careful'
  PROVE  AloneInv'
<1> SUFFICES ASSUME mode \in {"alone", "careful"}
             PROVE  /\ mode = "alone" => used' <= Owed'
                    /\ mode = "careful" => Ordered' - PaidIn' - receipts' <= used'
  BY AloneDone DEF Create, IInv
<1>1. PICK v \in Views : v = view[r]
  BY DEF IInv, TypeOK
<1>2. v.number \in Numbers /\ v.amount \in Nat /\ used \in Nat /\ receipts \in Nat
  BY <1>1 DEF Create, Views, IInv, Placed, TypeOK
<1>3. orders[v.number].status = "NONE" /\ (v.op # "other" => v.used = used)
  BY <1>1 DEF Create, AloneInv, CurrentFor, Relied
<1>4. (mode = "alone" => used <= Owed) /\ (mode = "careful" => Ordered - PaidIn - receipts <= used)
  BY DEF AloneInv
<1>5. Ordered \in Nat /\ Owed \in Nat /\ PaidIn \in Nat
  BY Columns DEF IInv
<1>6. CASE v.op = "other"
  <2>1. used' = used /\ receipts' = receipts
    BY <1>1, <1>6 DEF Create
  <2>2. orders'[v.number].status = "OTHER" /\ \A m \in Numbers \ {v.number} : orders'[m] = orders[m]
    BY <1>1, <1>2, <1>6 DEF Create, IInv, TypeOK
  <2>3. Ordered' = Ordered /\ Owed' = Owed /\ PaidIn' = PaidIn
    BY <1>2, <1>3, <2>2, OtherAdded DEF IInv
  <2> QED BY <1>4, <2>1, <2>3
<1>7. CASE v.op # "other"
  <2>1. used' = used + v.amount /\ receipts' = receipts
    BY <1>1, <1>3, <1>7 DEF Create
  <2>2. orders' = [orders EXCEPT ![v.number] = [status |-> "OPEN", total |-> v.amount, paid |-> 0]]
    BY <1>1, <1>7 DEF Create
  <2>3. Ordered' = Ordered + v.amount /\ Owed' = Owed + v.amount /\ PaidIn' = PaidIn
    BY <1>2, <1>3, <2>2, OrderAdded DEF IInv
  <2> QED BY <1>2, <1>4, <1>5, <2>1, <2>3
<1> QED BY <1>6, <1>7

LEMMA AloneWrite ==
  ASSUME IInv, TypeOK', AloneInv, mode' = mode, NEW r \in Requests, Step(r), Write(r),
         mode \in {"alone", "careful"} => OneAtATime',
         mode = "careful" => Careful'
  PROVE  AloneInv'
<1> SUFFICES ASSUME mode \in {"alone", "careful"}
             PROVE  /\ mode = "alone" => used' <= Owed'
                    /\ mode = "careful" => Ordered' - PaidIn' - receipts' <= used'
  BY AloneDone DEF Write, IInv
<1>1. PICK v \in Views : v = view[r]
  BY DEF IInv, TypeOK
<1>2. /\ v.amount \in Nat /\ used \in Nat /\ receipts \in Nat /\ v.used = used
      /\ v.op \in {"cancel", "status", "payment", "receipt"}
  <2>1. v.op \in Ops /\ v.op \notin {"none", "other"} /\ v.op \notin {"office", "web"}
    BY <1>1 DEF Write, Views, IInv, Placed, AloneInv, CurrentFor
  <2> QED BY <1>1, <2>1 DEF Write, Views, Ops, IInv, TypeOK, AloneInv, CurrentFor, Relied
<1>3. (mode = "alone" => used <= Owed) /\ (mode = "careful" => Ordered - PaidIn - receipts <= used)
  BY DEF AloneInv
<1>4. Ordered \in Nat /\ Owed \in Nat /\ PaidIn \in Nat /\ Ordered' \in Nat /\ Owed' \in Nat
  <2>1. Ordered' \in Nat /\ Owed' \in Nat
    BY SumsNext DEF SumsTyped
  <2> QED BY <2>1, Columns DEF IInv
<1>5. PICK low \in Nat : low = Lowered(used, v.amount) /\ low <= used /\ low >= used - v.amount
                         /\ (low = 0 \/ low = used - v.amount)
  BY <1>2 DEF Lowered
<1>6. used' = IF Releases(v) THEN low ELSE used
  BY <1>1, <1>2, <1>5 DEF Write, Changed
<1>7. CASE v.op = "receipt"
  <2>1. orders' = orders /\ receipts' = receipts + v.amount
    BY <1>1, <1>7 DEF Write
  <2>2. Ordered' = Ordered /\ Owed' = Owed /\ PaidIn' = PaidIn
    BY <2>1, ColumnsKept
  <2>3. used' = low
    BY <1>6, <1>7 DEF Releases
  <2> QED BY <1>2, <1>3, <1>4, <1>5, <2>1, <2>2, <2>3
<1>8. CASE v.op = "payment"
  <2>1. v.number \in Mine /\ v.loaded = orders[v.number]
    BY <1>1, <1>8 DEF Write, AloneInv, CurrentFor
  <2>2. orders' = [orders EXCEPT ![v.number].paid = orders[v.number].paid + v.amount]
    <3>1. orders' = [orders EXCEPT ![v.number].paid =
                       Changed(v.loaded.paid + v.amount, v.loaded.paid, @)]
      BY <1>1, <1>8 DEF Write
    <3>2. orders[v.number].paid \in Nat
      BY <2>1, Columns DEF IInv, TypeOK, OrderRows
    <3>3. Changed(v.loaded.paid + v.amount, v.loaded.paid, orders[v.number].paid)
            = orders[v.number].paid + v.amount
      BY <1>2, <2>1, <3>2 DEF Changed
    <3> QED BY <3>1, <3>3
  <2>3. Ordered' = Ordered /\ Owed' >= Owed - v.amount /\ PaidIn' = PaidIn + v.amount
    BY <1>2, <2>1, <2>2, PaymentAdded DEF IInv
  <2>4. used' = low /\ receipts' = receipts
    BY <1>1, <1>6, <1>8 DEF Write, Releases
  <2> QED BY <1>2, <1>3, <1>4, <1>5, <2>3, <2>4
<1>9. CASE v.op \in {"cancel", "status"}
  <2>1. /\ v.number \in Mine /\ v.loaded = orders[v.number]
        /\ v.amount = orders[v.number].total /\ v.status \in {"OPEN", "DELIVERED", "CANCELLED"}
    BY <1>1, <1>9 DEF Write, AloneInv, CurrentFor
  <2>2. orders' = [orders EXCEPT ![v.number].status = v.status] /\ receipts' = receipts
    <3>1. PICK s \in Statused(v.status, v.loaded.status, orders[v.number].status) :
            orders' = [orders EXCEPT ![v.number].status = s]
      BY <1>1, <1>9 DEF Write
    <3>2. receipts' = receipts
      BY <1>1, <1>9 DEF Write
    <3>3. s = v.status
      BY <2>1 DEF Statused, Changed
    <3> QED BY <3>1, <3>2, <3>3
  <2>3. mode = "careful" => v.number \in Live
    <3>1. mode = "careful" => v.loaded.status # "CANCELLED"
      BY <1>1, <1>9 DEF Write, AloneInv, CurrentFor, Careful
    <3> QED BY <2>1, <3>1 DEF Live
  <2>4. Total[v.number] = v.amount /\ Unpaid[v.number] <= v.amount /\ Unpaid[v.number] \in Nat
    <3>1. v.number \in Numbers
      BY <2>1, Columns DEF IInv
    <3> QED BY <2>1, <3>1, Columns DEF Total, IInv
  <2>5. /\ PaidIn' = PaidIn
        /\ v.status # "CANCELLED" /\ v.number \in Live => Ordered' = Ordered
        /\ v.status # "CANCELLED" => Owed' >= Owed
        /\ v.status = "CANCELLED" /\ v.number \in Live =>
             Ordered' = Ordered - Total[v.number] /\ Owed' = Owed - Unpaid[v.number]
        /\ v.status = "CANCELLED" /\ v.number \notin Live => Ordered' = Ordered /\ Owed' = Owed
    BY <2>1, <2>2, StatusChanged DEF IInv
  <2>6. used' = IF v.status = "CANCELLED" THEN low ELSE used
    BY <1>6, <1>9 DEF Releases
  <2>7. CASE v.status # "CANCELLED"
    BY <1>2, <1>3, <1>4, <2>2, <2>3, <2>5, <2>6, <2>7
  <2>8. CASE v.status = "CANCELLED" /\ v.number \in Live
    BY <1>2, <1>3, <1>4, <1>5, <2>2, <2>4, <2>5, <2>6, <2>8
  <2>9. CASE v.status = "CANCELLED" /\ v.number \notin Live
    BY <1>2, <1>3, <1>4, <1>5, <2>2, <2>3, <2>5, <2>6, <2>9
  <2> QED BY <2>7, <2>8, <2>9
<1> QED BY <1>2, <1>7, <1>8, <1>9

LEMMA AloneStep ==
  ASSUME IInv, TypeOK', AloneInv, mode' = mode, NEW r \in Requests, Step(r),
         mode \in {"alone", "careful"} => OneAtATime',
         mode = "careful" => Careful'
  PROVE  AloneInv'
<1>0. TypeOK /\ (mode \in {"alone", "careful"} => CurrentFor(r))
  BY DEF IInv, AloneInv
<1>1. CASE Start(r)
  <2>1. UNCHANGED tables
    BY <1>1 DEF Start, StartOrder, StartChange, StartReceipt
  <2> QED BY <1>0, <1>1, <2>1, AloneStart, AloneMove
<1>2. CASE ReadCustomer(r)
  BY <1>0, <1>2, AloneRead, AloneMove DEF ReadCustomer
<1>3. CASE Count(r)
  BY <1>0, <1>3, AloneCount, AloneMove DEF Count
<1>4. CASE Check(r)
  BY <1>0, <1>4, AloneCheck, AloneMove DEF Check
<1>5. CASE Insert(r)
  BY <1>0, <1>5, AloneInsert, AloneMove DEF Insert
<1>6. CASE Create(r)
  BY <1>6, AloneCreate
<1>7. CASE Write(r)
  BY <1>7, AloneWrite
<1>8. CASE Fail(r)
  <2>1. UNCHANGED tables /\ pc'[r] = "idle"
    BY <1>0, <1>8 DEF Fail, Done, Goto, TypeOK
  <2>2. CurrentFor(r)'
    BY <2>1 DEF CurrentFor, Relied
  <2> QED BY <1>0, <2>1, <2>2, AloneMove
<1> QED BY <1>1, <1>2, <1>3, <1>4, <1>5, <1>6, <1>7, <1>8 DEF Step

-----------------------------------------------------------------------------
(* Where numbers are given without gaps, as many numbers of a day are      *)
(* given as there are orders of that day.                                  *)
LEMMA NoGaps ==
  ASSUME Gapless, NEW day \in Days
  PROVE  \A k \in 1 .. Cardinality(Of(day)) : <<day, k>> \in Exist
<1> SUFFICES ASSUME NEW m \in 1 .. Cardinality(Of(day)), <<day, m>> \notin Exist PROVE FALSE
  OBVIOUS
<1>1. Cardinality(Of(day)) \in Nat
  BY CountType
<1>2. Of(day) \subseteq {day} \X (1 .. (m - 1))
  <2>1. ASSUME NEW n \in Of(day) PROVE n \in {day} \X (1 .. (m - 1))
    <3>1. n \in Exist /\ n[1] = day /\ n = <<n[1], n[2]>> /\ n[2] \in Nat /\ n[2] >= 1
      BY NumberType DEF Of, Exist
    <3>2. ~ (m <= n[2])
      <4>1. ASSUME m <= n[2] PROVE m \in 1 .. n[2]
        BY <1>1, <3>1, <4>1
      <4> QED BY <3>1, <4>1 DEF Gapless
    <3>3. n[2] \in 1 .. (m - 1)
      BY <1>1, <3>1, <3>2
    <3> QED BY <3>1, <3>3
  <2> QED BY <2>1
<1>3. PICK k \in Nat : k = m - 1
  BY <1>1
<1>4. IsFiniteSet(1 .. k) /\ Cardinality(1 .. k) = k
  BY FS_Interval
<1>5. IsFiniteSet({day}) /\ Cardinality({day}) = 1
  BY FS_Singleton
<1>6. IsFiniteSet({day} \X (1 .. k)) /\ Cardinality({day} \X (1 .. k)) = k
  <2>1. /\ IsFiniteSet({day} \X (1 .. k))
        /\ Cardinality({day} \X (1 .. k)) = Cardinality({day}) * Cardinality(1 .. k)
    BY <1>4, <1>5, FS_Product
  <2> QED BY <1>4, <1>5, <2>1
<1>7. Of(day) \in SUBSET ({day} \X (1 .. k))
  BY <1>2, <1>3
<1>8. Cardinality(Of(day)) <= k
  <2>1. \A T \in SUBSET ({day} \X (1 .. k)) : Cardinality(T) <= Cardinality({day} \X (1 .. k))
    BY <1>6, FS_Subset
  <2> QED BY <1>6, <1>7, <2>1
<1> QED BY <1>1, <1>3, <1>8

(* A step that leaves the tables alone, and the locks or adds one to them. *)
LEMMA OfficeMove ==
  ASSUME OfficeInv, TypeOK, mode' = mode, today' = today, UNCHANGED tables, NEW r \in Requests, Step(r),
         mode = "office" => Office',
         mode = "office" => OfficeFor(r)',
         \A l \in locks : l[2] # r => l \in locks',
         mode = "office" => \A l, k \in locks' : l[1] = k[1] => l = k
  PROVE  OfficeInv'
<1> SUFFICES ASSUME mode = "office" PROVE OfficeInv'
  BY DEF OfficeInv
<1>1. used' = used /\ orders' = orders /\ Exist' = Exist /\ Ordered' = Ordered
  BY ColumnsKept DEF tables
<1>2. ASSUME NEW q \in Requests \ {r} PROVE OfficeFor(q)'
  <2>1. pc'[q] = pc[q] /\ view'[q] = view[q]
    BY OneMoves
  <2>2. <<view[q].number, q>> \in locks => <<view[q].number, q>> \in locks'
    OBVIOUS
  <2>3. OfficeFor(q)
    BY DEF OfficeInv
  <2> QED BY <1>1, <2>1, <2>2, <2>3 DEF OfficeFor, Counted
<1>3. \A q \in Requests : OfficeFor(q)'
  BY <1>2
<1> QED BY <1>1, <1>3 DEF OfficeInv, Gapless

LEMMA OfficeStart ==
  ASSUME NEW r \in Requests, TypeOK, Office', Start(r)
  PROVE  OfficeFor(r)'
<1>0. view[r] \in Views /\ view \in [Requests -> Views] /\ pc \in [Requests -> Steps]
  BY DEF TypeOK
<1>1. CASE StartOrder(r)
  <2>1. PICK a \in Amounts, op \in {"office", "web", "other"} :
          /\ view' = [view EXCEPT ![r].op = op, ![r].amount = a]
          /\ Goto(r, IF op = "web" THEN "customer" ELSE "count")
    BY <1>1 DEF StartOrder
  <2>2. view'[r].op = op
    BY <1>0, <2>1 DEF Views
  <2>3. op # "web"
    BY <2>2 DEF Office
  <2>4. pc'[r] = "count"
    BY <1>0, <2>1, <2>3 DEF Goto
  <2> QED BY <2>2, <2>3, <2>4 DEF OfficeFor
<1>2. CASE StartChange(r)
  <2>1. PICK n \in Mine, op \in {"cancel", "status", "payment"}, a \in Amounts,
             s \in {"OPEN", "DELIVERED", "CANCELLED"} :
          /\ op = "cancel" => Cancellable(orders[n].status) /\ s = "CANCELLED"
          /\ op = "payment" => orders[n].paid + a <= MaxMoney
          /\ view' = [view EXCEPT ![r].op = op, ![r].number = n, ![r].loaded = orders[n],
                               ![r].amount = IF op = "payment" THEN a ELSE orders[n].total,
                               ![r].status = IF op = "payment" THEN "NONE" ELSE s]
    BY <1>2, Zenon DEF StartChange
  <2>2. PICK amount : amount = IF op = "payment" THEN a ELSE orders[n].total
    OBVIOUS
  <2>3. PICK status : status = IF op = "payment" THEN "NONE" ELSE s
    OBVIOUS
  <2>4. view' = [view EXCEPT ![r].op = op, ![r].number = n, ![r].loaded = orders[n],
                             ![r].amount = amount, ![r].status = status]
    BY <2>1, <2>2, <2>3
  <2>5. view'[r].op = op
    BY <1>0, <2>4 DEF Views
  <2> QED BY <2>5 DEF Office
<1>3. CASE StartReceipt(r)
  <2>1. view'[r].op = "receipt"
    BY <1>0, <1>3 DEF StartReceipt, Views
  <2> QED BY <2>1 DEF Office
<1> QED BY <1>1, <1>2, <1>3 DEF Start

LEMMA OfficeRead ==
  ASSUME NEW r \in Requests, IInv, today' = today, OfficeFor(r), ReadCustomer(r)
  PROVE  OfficeFor(r)'
<1>0. view[r] \in Views /\ view \in [Requests -> Views] /\ pc \in [Requests -> Steps]
  BY DEF IInv, TypeOK
<1>1. pc[r] = "customer" /\ view[r].op = "office" /\ Counted(r)
  BY DEF ReadCustomer, OfficeFor
<1>2. view'[r].op = view[r].op /\ view'[r].number = view[r].number /\ view'[r].used = used
  BY <1>0 DEF ReadCustomer, Views
<1>3. pc'[r] = "check" /\ used' = used /\ Exist' = Exist
  BY <1>0, <1>1, ColumnsKept DEF ReadCustomer, Goto, tables
<1> QED BY <1>1, <1>2, <1>3 DEF OfficeFor, Counted

(* The number an order gets is the one after the last.                     *)
LEMMA OfficeCount ==
  ASSUME NEW r \in Requests, IInv, today' = today, OfficeFor(r), Gapless, Count(r)
  PROVE  OfficeFor(r)'
<1>0. view[r] \in Views /\ view \in [Requests -> Views] /\ pc \in [Requests -> Steps]
  BY DEF IInv, TypeOK
<1>1. pc[r] = "count" /\ view[r].op \in {"office", "other"}
  BY DEF Count, OfficeFor
<1>2. PICK k \in Nat : k = Cardinality(Of(today))
  BY CountType
<1>3. view'[r].op = view[r].op /\ view'[r].number = <<today, k + 1>>
  BY <1>0, <1>2 DEF Count, Views
<1>4. /\ view[r].op = "office" => pc'[r] = "customer"
      /\ view[r].op = "other" => pc'[r] = "insert"
      /\ Exist' = Exist
  BY <1>0, <1>1, ColumnsKept DEF Count, Goto, tables
<1>5. /\ view'[r].number[1] = today'
      /\ \A m \in 1 .. (view'[r].number[2] - 1) : <<today', m>> \in Exist'
  <2>1. (k + 1) - 1 = k
    OBVIOUS
  <2>2. today \in Days
    BY DEF IInv, TypeOK
  <2>3. \A m \in 1 .. k : <<today, m>> \in Exist
    BY <1>2, <2>2, NoGaps
  <2> QED BY <1>3, <1>4, <2>1, <2>3
<1> QED BY <1>1, <1>3, <1>4, <1>5 DEF OfficeFor, Counted

LEMMA OfficeCheck ==
  ASSUME NEW r \in Requests, IInv, today' = today, OfficeFor(r), Check(r)
  PROVE  OfficeFor(r)'
<1>1. pc[r] = "check" /\ pc'[r] = "insert" /\ UNCHANGED <<tables, locks, view>> /\ Exist' = Exist
  BY ColumnsKept DEF Check, Goto, IInv, TypeOK, tables
<1> QED BY <1>1 DEF OfficeFor, Counted, tables

LEMMA OfficeInsert ==
  ASSUME NEW r \in Requests, IInv, today' = today, OfficeFor(r), Insert(r)
  PROVE  /\ OfficeFor(r)'
         /\ \A l \in locks' \ locks : l = <<view[r].number, r>>
         /\ <<view[r].number, r>> \in locks' /\ locks \subseteq locks'
         /\ \A l \in locks : l[1] # view[r].number
<1>1. pc[r] = "insert" /\ pc'[r] = "credit" /\ UNCHANGED <<tables, view>> /\ Exist' = Exist
  BY ColumnsKept DEF Insert, Goto, IInv, TypeOK, tables
<1>2. orders[view[r].number].status = "NONE"
  BY DEF Insert, NoRow
<1>3. /\ \A l \in locks' \ locks : l = <<view[r].number, r>>
      /\ <<view[r].number, r>> \in locks' /\ locks \subseteq locks'
      /\ \A l \in locks : l[1] # view[r].number
  BY DEF Insert
<1> QED BY <1>1, <1>2, <1>3 DEF OfficeFor, Counted, tables

(* An order is created: it has the number after the last, so none was      *)
(* created since it was counted, and the credit read is what is used.      *)
LEMMA OfficeCreate ==
  ASSUME IInv, TypeOK', OfficeInv, mode' = mode, today' = today, NEW r \in Requests, Step(r), Create(r),
         mode = "office" => Office'
  PROVE  OfficeInv'
<1> SUFFICES ASSUME mode = "office" PROVE OfficeInv'
  BY DEF OfficeInv
<1>1. PICK v \in Views : v = view[r]
  BY DEF IInv, TypeOK
<1>2. PICK n \in Numbers : n = v.number
  BY <1>1 DEF Create, IInv, Placed
<1>3. /\ v.amount \in Nat /\ used \in Nat
      /\ n = <<n[1], n[2]>> /\ n[2] \in Nat /\ n[2] >= 1
      /\ \A q \in Requests : OfficeFor(q)
  BY <1>2, NumberType DEF Views, IInv, TypeOK, OfficeInv
<1>4. /\ v.op \in {"office", "other"} /\ orders[n].status = "NONE"
      /\ <<n, r>> \in locks
      /\ n[1] = today /\ \A k \in 1 .. (n[2] - 1) : <<today, k>> \in Exist
      /\ v.op = "office" /\ n \notin Exist => v.used = used
  BY <1>1, <1>2, <1>3 DEF Create, OfficeFor, Counted
<1>5. n \notin Exist
  BY <1>4 DEF Exist
<1>6. /\ \A m \in Numbers \ {n} : orders'[m] = orders[m]
      /\ orders'[n].status \in {"OPEN", "OTHER"}
  BY <1>1, <1>2 DEF Create, IInv, TypeOK
<1>7. Exist' = Exist \cup {n}
  BY <1>6 DEF Exist
<1>8. used' = Ordered'
  <2>1. used = Ordered
    BY DEF OfficeInv
  <2>2. CASE v.op = "other"
    <3>1. used' = used
      BY <1>1, <2>2 DEF Create
    <3>2. orders'[n].status = "OTHER"
      BY <1>1, <1>2, <2>2 DEF Create, IInv, TypeOK
    <3>3. Ordered' = Ordered
      BY <1>4, <1>6, <3>2, OtherAdded DEF IInv
    <3> QED BY <2>1, <3>1, <3>3
  <2>3. CASE v.op = "office"
    <3>1. used' = used + v.amount
      BY <1>1, <1>4, <1>5, <2>3 DEF Create
    <3>2. orders' = [orders EXCEPT ![n] = [status |-> "OPEN", total |-> v.amount, paid |-> 0]]
      BY <1>1, <1>2, <2>3 DEF Create
    <3>3. Ordered' = Ordered + v.amount
      BY <1>3, <1>4, <3>2, OrderAdded DEF IInv
    <3> QED BY <2>1, <3>1, <3>3
  <2> QED BY <1>4, <2>2, <2>3
<1>9. Gapless'
  <2>1. \A m \in Exist : \A k \in 1 .. m[2] : <<m[1], k>> \in Exist'
    BY <1>7 DEF OfficeInv, Gapless
  <2>2. \A k \in 1 .. n[2] : <<n[1], k>> \in Exist'
    <3>1. \A k \in 1 .. n[2] : k = n[2] \/ k \in 1 .. (n[2] - 1)
      BY <1>3
    <3> QED BY <1>3, <1>4, <1>7, <3>1
  <2> QED BY <1>7, <2>1, <2>2 DEF Gapless
<1>10. locks' = {l \in locks : l[2] # r} /\ \A l, k \in locks' : l[1] = k[1] => l = k
  BY DEF Create, Done, OfficeInv
<1>11. pc'[r] = "idle" /\ OfficeFor(r)'
  <2>1. pc'[r] = "idle"
    BY DEF Create, Done, Goto, IInv, TypeOK
  <2> QED BY <2>1 DEF OfficeFor
<1>12. ASSUME NEW q \in Requests \ {r} PROVE OfficeFor(q)'
  <2>1. pc'[q] = pc[q] /\ view'[q] = view[q] /\ OfficeFor(q)
    BY <1>3, OneMoves DEF IInv
  <2>2. ASSUME pc[q] = "credit"
        PROVE  /\ <<view[q].number, q>> \in locks'
               /\ orders'[view[q].number].status = "NONE"
    <3>1. <<view[q].number, q>> \in locks /\ orders[view[q].number].status = "NONE"
      BY <2>1, <2>2 DEF OfficeFor
    <3>2. <<view[q].number, q>> \in locks'
      BY <1>10, <3>1
    <3>3. view[q].number # n
      <4>1. <<view[q].number, q>>[1] = view[q].number /\ <<n, r>>[1] = n
            /\ <<view[q].number, q>>[2] = q /\ <<n, r>>[2] = r
        OBVIOUS
      <4>2. \A l, k \in locks : l[1] = k[1] => l = k
        BY DEF OfficeInv
      <4> QED BY <1>4, <3>1, <4>1, <4>2
    <3>4. view[q].number \in Numbers
      BY <2>2 DEF IInv, Placed
    <3> QED BY <1>6, <3>1, <3>2, <3>3, <3>4
  <2>3. ASSUME pc[q] \in {"customer", "check", "insert", "credit"}
        PROVE  Counted(q)'
    <3>1. Counted(q)
      BY <2>1, <2>3 DEF OfficeFor
    <3>2. view[q].number \in Numbers
      BY <2>1, <2>3 DEF IInv, Placed, OfficeFor
    <3>3. view[q].number \in Exist'
      <4>1. PICK k \in Numbers : k = view[q].number
        BY <3>2
      <4>2. /\ k = <<k[1], k[2]>> /\ k[2] \in Nat /\ k[2] >= 1 /\ k[1] = today
            /\ \A m \in 1 .. (k[2] - 1) : <<today, m>> \in Exist
        BY <3>1, <4>1, NumberType DEF Counted
      <4>3. CASE k \in Exist
        BY <1>7, <4>1, <4>3
      <4>4. CASE k \notin Exist
        <5>1. ~ (k[2] < n[2])
          <6>1. ASSUME k[2] < n[2] PROVE k[2] \in 1 .. (n[2] - 1)
            BY <1>3, <4>2, <6>1
          <6> QED BY <1>4, <4>2, <4>4, <6>1
        <5>2. ~ (n[2] < k[2])
          <6>1. ASSUME n[2] < k[2] PROVE n[2] \in 1 .. (k[2] - 1)
            BY <1>3, <4>2, <6>1
          <6> QED BY <1>3, <1>4, <1>5, <4>2, <6>1
        <5>3. k[2] = n[2]
          BY <1>3, <4>2, <5>1, <5>2
        <5> QED BY <1>3, <1>4, <1>7, <4>1, <4>2, <5>3
      <4> QED BY <4>3, <4>4
    <3> QED BY <1>7, <2>1, <3>1, <3>3 DEF Counted
  <2> QED BY <2>1, <2>2, <2>3 DEF OfficeFor
<1>13. \A q \in Requests : OfficeFor(q)'
  BY <1>11, <1>12
<1> QED BY <1>8, <1>9, <1>10, <1>13 DEF OfficeInv

LEMMA OfficeStep ==
  ASSUME IInv, TypeOK', OfficeInv, mode' = mode, today' = today, NEW r \in Requests, Step(r),
         mode = "office" => Office'
  PROVE  OfficeInv'
<1> SUFFICES ASSUME mode = "office" PROVE OfficeInv'
  BY DEF OfficeInv
<1>0. /\ TypeOK /\ OfficeFor(r) /\ Gapless
      /\ \A l, k \in locks : l[1] = k[1] => l = k
  BY DEF IInv, OfficeInv
<1>1. CASE Start(r)
  <2>1. UNCHANGED <<tables, locks>>
    BY <1>1 DEF Start, StartOrder, StartChange, StartReceipt
  <2> QED BY <1>0, <1>1, <2>1, OfficeStart, OfficeMove
<1>2. CASE ReadCustomer(r)
  BY <1>0, <1>2, OfficeRead, OfficeMove DEF ReadCustomer
<1>3. CASE Count(r)
  BY <1>0, <1>3, OfficeCount, OfficeMove DEF Count
<1>4. CASE Check(r)
  BY <1>0, <1>4, OfficeCheck, OfficeMove DEF Check
<1>5. CASE Insert(r)
  <2>1. UNCHANGED tables
    BY <1>5 DEF Insert
  <2>2. /\ OfficeFor(r)'
        /\ \A l \in locks' \ locks : l = <<view[r].number, r>>
        /\ locks \subseteq locks'
        /\ \A l \in locks : l[1] # view[r].number
    BY <1>0, <1>5, OfficeInsert
  <2>3. \A l, k \in locks' : l[1] = k[1] => l = k
    <3>1. <<view[r].number, r>>[1] = view[r].number
      OBVIOUS
    <3> QED BY <1>0, <2>2, <3>1
  <2> QED BY <1>0, <2>1, <2>2, <2>3, OfficeMove
<1>6. CASE Create(r)
  BY <1>6, OfficeCreate
<1>7. CASE Write(r)
  BY <1>0, <1>7 DEF Write, OfficeFor
<1>8. CASE Fail(r)
  <2>1. UNCHANGED tables /\ pc'[r] = "idle" /\ locks' = {l \in locks : l[2] # r}
    BY <1>0, <1>8 DEF Fail, Done, Goto, TypeOK
  <2>2. OfficeFor(r)'
    BY <2>1 DEF OfficeFor
  <2>3. \A l, k \in locks' : l[1] = k[1] => l = k
    BY <1>0, <2>1
  <2> QED BY <1>0, <2>1, <2>2, <2>3, OfficeMove
<1> QED BY <1>1, <1>2, <1>3, <1>4, <1>5, <1>6, <1>7, <1>8 DEF Step

-----------------------------------------------------------------------------
LEMMA ModesInitInv == ModesInit => ModesInv
<1> SUFFICES ASSUME ModesInit PROVE ModesInv
  OBVIOUS
<1>1. Init /\ IInv
  BY InitInv DEF ModesInit
<1>2. /\ \A r \in Requests : pc[r] = "idle" /\ view[r].op = "none"
      /\ \A n \in Numbers : orders[n].status = "NONE"
      /\ used = 0 /\ receipts = 0 /\ locks = {}
  BY <1>1, BlankType DEF Init, NoRow
<1>3. Exist = {} /\ Mine = {} /\ Live = {}
  BY <1>2 DEF Exist, Mine, Live
<1>4. Ordered = 0 /\ Owed = 0 /\ PaidIn = 0
  BY <1>3, SumOfNone DEF Ordered, Owed, PaidIn
<1>5. AloneInv
  BY <1>2, <1>4 DEF AloneInv, OneAtATime, CurrentFor, Relied, Careful
<1>6. OfficeInv
  BY <1>2, <1>3, <1>4 DEF OfficeInv, Office, OfficeFor, Gapless
<1> QED BY <1>1, <1>5, <1>6 DEF ModesInv

LEMMA ModesServeInv == ASSUME ModesInv, ModesServe, mode' = mode PROVE ModesInv'
<1>1. PICK r \in Requests : Step(r) /\ today' = today
  BY DEF ModesServe, Serve
<1>2. IInv /\ IInv' /\ TypeOK'
  BY StepInv DEF ModesInv, ModesServe, Next, IInv
<1>3. /\ AloneInv /\ OfficeInv
      /\ mode = "office" => Office'
      /\ mode \in {"alone", "careful"} => OneAtATime'
      /\ mode = "careful" => Careful'
  BY DEF ModesInv, ModesServe
<1>4. AloneInv'
  BY <1>1, <1>2, <1>3, AloneStep
<1>5. OfficeInv'
  BY <1>1, <1>2, <1>3, OfficeStep
<1> QED BY <1>2, <1>4, <1>5 DEF ModesInv

(* Where the gateway and the courier are careful they add to what is paid, *)
(* and no more is ordered after them.                                      *)
LEMMA ElsewhereSums ==
  ASSUME TypeOK, TypeOK', Elsewhere, Kept
  PROVE  Ordered' <= Ordered /\ PaidIn' >= PaidIn
<1>1. PICK n \in Mine, row \in OrderRows :
        /\ row.total = orders[n].total /\ row.status \in {"OPEN", "DELIVERED", "CANCELLED"}
        /\ orders' = [orders EXCEPT ![n] = row]
  BY ElsewhereRow
<1>2. n \in Numbers /\ orders[n] \in OrderRows
  BY Columns DEF TypeOK
<1>3. /\ \A m \in Numbers : orders'[m].total = orders[m].total
      /\ orders'[n].status \in {"OPEN", "DELIVERED", "CANCELLED"}
      /\ \A m \in Numbers \ {n} : orders'[m] = orders[m]
  BY <1>1, <1>2 DEF TypeOK
<1>4. Mine' = Mine
  BY <1>2, <1>3 DEF Mine, Exist
<1>5. Live' \in SUBSET Live
  <2>1. \A m \in Mine : m \in Numbers
    BY Columns
  <2> QED BY <1>4, <2>1 DEF Live, Kept
<1>6. \A m \in Numbers : Total'[m] = Total[m]
  BY <1>3 DEF Total
<1>7. \A m \in Live : m \in Numbers /\ Total[m] \in Nat
  BY Columns
<1>8. Ordered' <= Ordered
  <2>1. IsFiniteSet(Live) /\ IsFiniteSet(Live')
    BY <1>5, Columns, FS_Subset
  <2>2. SumFunctionOnSet(Total', Live') = SumFunctionOnSet(Total, Live')
    BY <1>5, <1>6, <1>7, <2>1, SumAgrees
  <2>3. SumFunctionOnSet(Total, Live') <= SumFunctionOnSet(Total, Live)
    BY <1>5, <1>7, <2>1, SumGrows
  <2> QED BY <2>2, <2>3 DEF Ordered
<1>9. PaidIn' >= PaidIn
  <2>1. /\ Paid'[n] \in Nat /\ Paid[n] \in Nat /\ Paid'[n] >= Paid[n]
        /\ \A m \in Mine \ {n} : Paid'[m] = Paid[m]
    <3>1. orders'[n].paid >= orders[n].paid /\ orders[n].paid \in Nat /\ orders'[n].paid \in Nat
      BY <1>2 DEF Kept, TypeOK, OrderRows
    <3>2. \A m \in Mine \ {n} : orders'[m] = orders[m] /\ m \in Numbers
      BY <1>3, Columns
    <3> QED BY <1>2, <3>1, <3>2 DEF Paid
  <2>2. PaidIn' = PaidIn - Paid[n] + Paid'[n]
    <3>1. Paid'[n] \in Int /\ \A m \in Mine : Paid[m] \in Int
      BY <2>1, Columns
    <3> QED BY <1>4, <2>1, <3>1, Columns, SumChanged DEF PaidIn
  <2> QED BY <2>1, <2>2, Columns
<1> QED BY <1>8, <1>9

LEMMA ModesElsewhereInv == ASSUME ModesInv, ModesElsewhere, mode' = mode PROVE ModesInv'
<1>1. IInv /\ IInv' /\ TypeOK /\ TypeOK'
  BY StepInv DEF ModesInv, ModesElsewhere, Next, IInv
<1>2. UNCHANGED <<used, receipts, today, locks, pc, view>>
  BY <1>1, ElsewhereRow DEF ModesElsewhere
<1>3. AloneInv'
  <2> SUFFICES ASSUME mode = "careful" PROVE AloneInv'
    BY DEF AloneInv, ModesElsewhere
  <2>1. /\ OneAtATime /\ Careful /\ Ordered - PaidIn - receipts <= used
        /\ \A r \in Requests : pc'[r] = "idle"
        /\ Kept /\ Elsewhere
    BY <1>2 DEF ModesInv, AloneInv, ModesElsewhere, AtRest
  <2>2. \A r \in Requests : CurrentFor(r)'
    BY <2>1 DEF CurrentFor, Relied
  <2>3. Ordered' - PaidIn' - receipts' <= used'
    <3>1. Ordered' <= Ordered /\ PaidIn' >= PaidIn
      BY <1>1, <2>1, ElsewhereSums
    <3>2. /\ Ordered \in Nat /\ PaidIn \in Nat /\ used \in Nat /\ receipts \in Nat
          /\ Ordered' \in Nat /\ PaidIn' \in Nat
      BY <1>1, SumsNow, SumsNext DEF SumsTyped, TypeOK
    <3>3. used' = used /\ receipts' = receipts /\ Ordered - PaidIn - receipts <= used
      BY <1>2, <2>1
    <3>4. \A o, p, q, s, c, u \in Nat :
            o <= q /\ p >= s /\ q - s - c <= u => o - p - c <= u
      OBVIOUS
    <3> QED BY <3>1, <3>2, <3>3, <3>4
  <2> QED BY <1>2, <2>1, <2>2, <2>3 DEF AloneInv, OneAtATime, Careful
<1>4. OfficeInv'
  BY DEF ModesElsewhere, OfficeInv
<1> QED BY <1>1, <1>3, <1>4 DEF ModesInv

LEMMA ModesMidnightInv == ASSUME ModesInv, ModesMidnight, mode' = mode PROVE ModesInv'
<1>1. IInv'
  BY StepInv DEF ModesInv, ModesMidnight, Next
<1>2. UNCHANGED <<tables, locks, pc, view>>
  BY DEF ModesMidnight, Midnight
<1>3. /\ Ordered' = Ordered /\ Owed' = Owed /\ PaidIn' = PaidIn
      /\ Exist' = Exist /\ Mine' = Mine
  BY <1>2, ColumnsKept DEF tables
<1>4. AloneInv'
  <2>1. \A r \in Requests : CurrentFor(r) => CurrentFor(r)'
    BY <1>2, <1>3 DEF tables, CurrentFor, Relied
  <2> QED BY <1>2, <1>3, <2>1 DEF ModesInv, AloneInv, tables, OneAtATime, Careful
<1>5. OfficeInv'
  <2> SUFFICES ASSUME mode = "office" PROVE OfficeInv'
    BY DEF OfficeInv
  <2>1. \A r \in Requests : pc'[r] = "idle"
    BY <1>2 DEF ModesMidnight, AtRest
  <2>2. \A r \in Requests : OfficeFor(r)'
    BY <2>1 DEF OfficeFor
  <2> QED BY <1>2, <1>3, <2>2 DEF ModesInv, OfficeInv, tables, Office, Gapless
<1> QED BY <1>1, <1>4, <1>5 DEF ModesInv

LEMMA ModesStepInv == ModesInv /\ [ModesNext]_<<vars, mode>> => ModesInv'
<1>1. ASSUME ModesInv, ModesNext PROVE ModesInv'
  BY <1>1, ModesServeInv, ModesElsewhereInv, ModesMidnightInv DEF ModesNext
<1>2. ASSUME ModesInv, UNCHANGED <<vars, mode>> PROVE ModesInv'
  <2>1. IInv'
    BY <1>2, StepInv DEF ModesInv
  <2>2. /\ Ordered' = Ordered /\ Owed' = Owed /\ PaidIn' = PaidIn
        /\ Exist' = Exist /\ Mine' = Mine
    BY <1>2, ColumnsKept DEF vars, tables
  <2>3. \A r \in Requests : (CurrentFor(r) => CurrentFor(r)') /\ (OfficeFor(r) => OfficeFor(r)')
    BY <1>2, <2>2 DEF vars, tables, CurrentFor, Relied, OfficeFor, Counted
  <2>4. AloneInv'
    BY <1>2, <2>2, <2>3 DEF ModesInv, AloneInv, vars, tables, OneAtATime, Careful
  <2>5. OfficeInv'
    BY <1>2, <2>2, <2>3 DEF ModesInv, OfficeInv, vars, tables, Office, Gapless
  <2> QED BY <2>1, <2>4, <2>5 DEF ModesInv
<1> QED BY <1>1, <1>2

(* While only the office enters orders, and none is under way at midnight, *)
(* credit_used is their total, though requests overlap and no row is       *)
(* locked.                                                                 *)
THEOREM OfficeCounts == ModesSpec => []OfficeOrdersCounted
<1>1. ModesInv => OfficeOrdersCounted
  BY DEF ModesInv, OfficeInv, OfficeOrdersCounted, OrdersCounted, Ordered
<1> QED BY ModesInitInv, ModesStepInv, <1>1, PTL DEF ModesSpec

(* With one request at a time, and neither gateway nor courier,            *)
(* credit_used is never more than the customer has yet to pay.             *)
THEOREM AloneNotOvercharged == ModesSpec => []SerialNeverOvercharged
<1>1. ModesInv => SerialNeverOvercharged
  BY DEF ModesInv, AloneInv, SerialNeverOvercharged, NeverOvercharged, Owed
<1> QED BY ModesInitInv, ModesStepInv, <1>1, PTL DEF ModesSpec

(* With one request, report of the gateway or webhook of the courier at a  *)
(* time, while none of them sets the status of a cancelled order or lowers *)
(* an amount paid, what is ordered and not paid stays within the limit.    *)
THEOREM CarefulLimit == ModesSpec => []CarefulWithinLimit
<1>1. ModesInv => CarefulWithinLimit
  <2> SUFFICES ASSUME ModesInv, mode = "careful" PROVE Outstanding <= Limit
    BY DEF CarefulWithinLimit, OutstandingWithinLimit
  <2>1. Outstanding = Ordered - PaidIn - receipts
    BY DEF Outstanding, Ordered, PaidIn
  <2>2. used <= Limit /\ used \in Nat /\ receipts \in Nat /\ TypeOK
    BY DEF ModesInv, IInv, UsedWithinLimit, TypeOK
  <2>3. Ordered - PaidIn - receipts <= used
    BY DEF ModesInv, AloneInv
  <2> QED BY <2>1, <2>2, <2>3, Columns, Constants
<1> QED BY ModesInitInv, ModesStepInv, <1>1, PTL DEF ModesSpec
=============================================================================
