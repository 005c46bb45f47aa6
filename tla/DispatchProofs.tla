--------------------------- MODULE DispatchProofs ---------------------------
(***************************************************************************)
(* Proofs about Dispatch, for any shipments, manifests and requests: the   *)
(* types of the tables; that a carrier's sequence stays ahead of the       *)
(* numbers it has given, though requests overlap; and that manifests agree *)
(* and stock leaves once, when they do not.                                *)
(***************************************************************************)
EXTENDS DispatchModes, FiniteSetTheorems, TLAPS

(* A request about a manifest has loaded one. *)
Listed == \A r \in Requests : view[r].op \in ManifestOps => view[r].manifest \in Manifests

TInv == TypeOK /\ Listed

(* Sets of shipments and items are finite. *)
LEMMA AllFinite ==
  \A S : S \in SUBSET Shipments \/ S \in SUBSET Items => IsFiniteSet(S)
<1> DEFINE P == (Manifests \X Shipments) \X (Copies \X (BOOLEAN \X BOOLEAN))
           f == [x \in P |-> [manifest |-> x[1][1], ship |-> x[1][2], copy |-> x[2][1],
                              scanned |-> x[2][2][1], handed |-> x[2][2][2]]]
<1>1. IsFiniteSet(Shipments) /\ IsFiniteSet(Manifests) /\ IsFiniteSet(Copies)
  BY DispatchAssumption
<1>2. IsFiniteSet(BOOLEAN)
  <2>1. IsFiniteSet({TRUE}) /\ IsFiniteSet({FALSE})
    BY FS_Singleton
  <2>2. BOOLEAN = {TRUE} \cup {FALSE}
    OBVIOUS
  <2> QED BY <2>1, <2>2, FS_Union
<1>3. IsFiniteSet(P)
  <2>1. IsFiniteSet(BOOLEAN \X BOOLEAN)
    BY <1>2, FS_Product
  <2>2. IsFiniteSet(Copies \X (BOOLEAN \X BOOLEAN)) /\ IsFiniteSet(Manifests \X Shipments)
    BY <1>1, <2>1, FS_Product
  <2> QED BY <2>2, FS_Product
<1>4. f \in Surjection(P, Items)
  <2>1. f \in [P -> Items]
    BY DEF Items
  <2>2. ASSUME NEW i \in Items PROVE \E x \in P : f[x] = i
    <3>1. <<<<i.manifest, i.ship>>, <<i.copy, <<i.scanned, i.handed>>>>>> \in P
      BY DEF Items
    <3>2. i = [manifest |-> i.manifest, ship |-> i.ship, copy |-> i.copy,
               scanned |-> i.scanned, handed |-> i.handed]
      BY DEF Items
    <3> QED BY <3>1, <3>2
  <2> QED BY <2>1, <2>2 DEF Surjection
<1>5. IsFiniteSet(Items)
  BY <1>3, <1>4, FS_Surjection
<1> QED BY <1>1, <1>5, FS_Subset

LEMMA Finite ==
  /\ \A S \in SUBSET Shipments : Cardinality(S) \in Nat
  /\ \A S \in SUBSET Items : Cardinality(S) \in Nat
BY AllFinite, FS_CardinalityType

(* The rows and views the definitions name have their types. *)
LEMMA Rows ==
  /\ NoRow \in ShipmentRows /\ NewList \in ManifestRows /\ Blank \in Views
BY DEF NoRow, ShipmentRows, ShipmentStatuses, NewList, ManifestRows, ManifestStatuses, Blank,
   Views, Ops, OrderStatuses

(* The end of a request. *)
LEMMA DoneStep ==
  ASSUME TInv, single' = single, NEW r \in Requests, Done(r)
  PROVE  /\ \A l \in locks' : l[2] \in Requests /\ pc'[l[2]] # "idle"
         /\ pc' \in [Requests -> Steps] /\ view' \in [Requests -> Views] /\ Listed'
<1>1. TypeOK /\ "idle" \in Steps /\ pc' = [pc EXCEPT ![r] = "idle"]
        /\ locks' = {l \in locks : l[2] # r} /\ view' = [view EXCEPT ![r] = Blank]
  BY DEF TInv, Done, Goto, Steps
<1>2. pc' \in [Requests -> Steps] /\ view' \in [Requests -> Views]
  BY <1>1, Rows DEF TypeOK
<1>3. \A l \in locks' : l[2] \in Requests /\ pc'[l[2]] # "idle"
  BY <1>1 DEF TypeOK
<1>4. \A q \in Requests : view'[q].op \in ManifestOps => q # r /\ view'[q] = view[q]
  BY <1>1 DEF TypeOK, Blank, ManifestOps
<1>5. Listed'
  BY <1>4 DEF TInv, Listed
<1> QED BY <1>2, <1>3, <1>5

(* A request goes on, with a new view and perhaps new locks. *)
LEMMA GoesOn ==
  ASSUME TInv, single' = single, NEW r \in Requests, NEW v \in Views, view' = [view EXCEPT ![r] = v],
         v.op \in ManifestOps => v.manifest \in Manifests,
         NEW step \in Steps \ {"idle"}, pc' = [pc EXCEPT ![r] = step],
         \A l \in locks' : l \in locks \/ l[2] = r,
         UNCHANGED tables
  PROVE  TInv'
<1>1. TypeOK
  BY DEF TInv
<1>2. pc' \in [Requests -> Steps] /\ view' \in [Requests -> Views]
  BY <1>1 DEF TypeOK
<1>3. \A l \in locks' : l[2] \in Requests /\ pc'[l[2]] # "idle"
  BY <1>1 DEF TypeOK
<1>4. Listed'
  BY <1>1 DEF TInv, Listed, TypeOK
<1>5. TypeOK'
  BY <1>1, <1>2, <1>3 DEF TypeOK, tables
<1> QED BY <1>4, <1>5 DEF TInv

(* A request writes tables of the right types, and is over. *)
LEMMA Writes ==
  ASSUME TInv, single' = single, NEW r \in Requests, Done(r),
         ship' \in [Shipments -> ShipmentRows], manifest' \in [Manifests -> ManifestRows],
         items' \in SUBSET Items, order' \in [Orders -> OrderStatuses],
         transit' \in Int, sequence' \in Nat \ {0}
  PROVE  TInv'
BY DoneStep DEF TInv, TypeOK

(* What Take adds to the locks is the request's. *)
LEMMA TakeLocks ==
  ASSUME NEW r \in Requests, NEW things, Take(r, things)
  PROVE  \A l \in locks' : l \in locks \/ l[2] = r
BY DEF Take

(* The endpoints about one shipment. *)
LEMMA ShipmentTypes ==
  ASSUME TInv, single' = single, NEW r \in Requests,
         \/ \E o \in Orders : pc[r] = "idle" /\ LoadOrder(r, o) /\ UNCHANGED <<tables, locks>>
         \/ \E op \in ShipmentOps, s \in Shipments :
              pc[r] = "idle" /\ LoadShipment(r, op, s) /\ UNCHANGED <<tables, locks>>
         \/ Create(r) \/ SetStatus(r) \/ ReadOrder(r) \/ Deliver(r)
  PROVE  TInv'
<1> USE DEF Goto
<1>1. /\ TypeOK /\ view[r] \in Views /\ \A s \in Shipments : ship[s] \in ShipmentRows
  BY DEF TInv, TypeOK
<1>2. ASSUME NEW o \in Orders, LoadOrder(r, o), UNCHANGED <<tables, locks>> PROVE TInv'
  <2> DEFINE v == [view[r] EXCEPT !.op = "create", !.order = o]
  <2>1. v \in Views /\ v.op \notin ManifestOps
    BY <1>1 DEF Views, Ops, ManifestOps
  <2>2. view' = [view EXCEPT ![r] = v] /\ pc' = [pc EXCEPT ![r] = "write"]
    BY <1>2 DEF LoadOrder
  <2>3. "write" \in Steps \ {"idle"}
    BY DEF Steps
  <2> HIDE DEF v
  <2> QED BY <1>2, <2>1, <2>2, <2>3, GoesOn
<1>3. ASSUME NEW op \in ShipmentOps, NEW s \in Shipments, LoadShipment(r, op, s),
             UNCHANGED <<tables, locks>>
      PROVE  TInv'
  <2> DEFINE v == [view[r] EXCEPT !.op = op, !.ship = {s}, !.rows[s] = ship[s]]
             step == CASE op = "awb" -> "number" [] op = "deliver" -> "order" [] OTHER -> "write"
  <2>1. v \in Views /\ v.op \notin ManifestOps
    BY <1>1 DEF Views, Ops, ManifestOps, ShipmentOps
  <2>2. view' = [view EXCEPT ![r] = v] /\ pc' = [pc EXCEPT ![r] = step]
    BY <1>3 DEF LoadShipment
  <2>3. step \in Steps \ {"idle"}
    BY DEF Steps
  <2> HIDE DEF v, step
  <2> QED BY <1>3, <2>1, <2>2, <2>3, GoesOn
<1>4. ASSUME Create(r) PROVE TInv'
  <2>1. view[r].order \in Orders \cup {NoOrder}
    BY <1>1 DEF Views
  <2>2. ship' \in [Shipments -> ShipmentRows]
    BY <1>1, <1>4, <2>1 DEF Create, TypeOK, ShipmentRows, ShipmentStatuses
  <2> QED BY <1>1, <1>4, <2>2, Writes DEF Create, TypeOK
<1>5. ASSUME SetStatus(r) PROVE TInv'
  <2>1. PICK s \in view[r].ship, status \in ShipmentStatuses :
          ship' = [ship EXCEPT ![s].status = status]
    <3>1. PICK s \in view[r].ship : ship' = [ship EXCEPT ![s].status = Changed(
            IF view[r].op = "pack" THEN "PACKED" ELSE "RTO_INITIATED", view[r].rows[s].status, @)]
      BY <1>5 DEF SetStatus
    <3>2. s \in Shipments
      BY <1>1 DEF Views
    <3>3. ship[s].status \in ShipmentStatuses
      BY <1>1, <3>2 DEF ShipmentRows
    <3>4. Changed(IF view[r].op = "pack" THEN "PACKED" ELSE "RTO_INITIATED",
                  view[r].rows[s].status, ship[s].status) \in ShipmentStatuses
      BY <3>3 DEF Changed, ShipmentStatuses
    <3> QED BY <3>1, <3>4
  <2>2. ship' \in [Shipments -> ShipmentRows]
    BY <1>1, <2>1 DEF TypeOK, ShipmentRows
  <2> QED BY <1>1, <1>5, <2>2, Writes DEF SetStatus, TypeOK
<1>6. ASSUME ReadOrder(r) PROVE TInv'
  <2>1. PICK s \in view[r].ship :
          /\ Take(r, {ShipRow(s)})
          /\ view' = [view EXCEPT ![r].order = ship[s].order, ![r].orders = order]
    BY <1>6 DEF ReadOrder
  <2> DEFINE v == [view[r] EXCEPT !.order = ship[s].order, !.orders = order]
  <2>2. s \in Shipments
    BY <1>1 DEF Views
  <2>3. v \in Views /\ v.op \notin ManifestOps
    BY <1>1, <1>6, <2>2 DEF Views, ManifestOps, ReadOrder, TypeOK, ShipmentRows
  <2>4. view' = [view EXCEPT ![r] = v] /\ pc' = [pc EXCEPT ![r] = "write"] /\ UNCHANGED tables
    BY <1>6, <2>1 DEF ReadOrder
  <2>5. "write" \in Steps \ {"idle"}
    BY DEF Steps
  <2>6. \A l \in locks' : l \in locks \/ l[2] = r
    BY <2>1, TakeLocks
  <2> HIDE DEF v
  <2> QED BY <2>3, <2>4, <2>5, <2>6, GoesOn
<1>7. ASSUME Deliver(r) PROVE TInv'
  <2>1. ship' \in [Shipments -> ShipmentRows]
    BY <1>1, <1>7 DEF Deliver, TypeOK, ShipmentRows, ShipmentStatuses
  <2>2. order' \in [Orders -> OrderStatuses]
    BY <1>1, <1>7 DEF Deliver, TypeOK, OrderStatuses, Changed
  <2> QED BY <1>1, <1>7, <2>1, <2>2, Writes DEF Deliver, TypeOK
<1> QED BY <1>2, <1>3, <1>4, <1>5, <1>6, <1>7

(* The endpoints about numbers. *)
LEMMA NumberTypes ==
  ASSUME TInv, single' = single, NEW r \in Requests,
         \/ /\ pc[r] = "idle" /\ view' = [view EXCEPT ![r].op = "outside"] /\ Goto(r, "number")
            /\ UNCHANGED <<tables, locks>>
         \/ ReadSequence(r) \/ Number(r) \/ NumberOutside(r)
  PROVE  TInv'
<1> USE DEF Goto
<1>1. /\ TypeOK /\ view[r] \in Views /\ view[r].number \in Nat
      /\ \A s \in Shipments : ship[s] \in ShipmentRows
  BY DEF TInv, TypeOK, Views
<1>2. ASSUME view' = [view EXCEPT ![r].op = "outside"], Goto(r, "number"), UNCHANGED <<tables, locks>>
      PROVE TInv'
  <2> DEFINE v == [view[r] EXCEPT !.op = "outside"]
  <2>1. v \in Views /\ v.op \notin ManifestOps
    BY <1>1 DEF Views, Ops, ManifestOps
  <2>2. view' = [view EXCEPT ![r] = v] /\ pc' = [pc EXCEPT ![r] = "number"]
    BY <1>2
  <2>3. "number" \in Steps \ {"idle"}
    BY DEF Steps
  <2> HIDE DEF v
  <2> QED BY <1>2, <2>1, <2>2, <2>3, GoesOn
<1>3. ASSUME ReadSequence(r) PROVE TInv'
  <2> DEFINE v == [view[r] EXCEPT !.number = sequence]
  <2>1. v \in Views /\ v.op = view[r].op /\ v.manifest = view[r].manifest
    BY <1>1 DEF Views, TypeOK
  <2>2. /\ view' = [view EXCEPT ![r] = v] /\ pc' = [pc EXCEPT ![r] = "write"]
        /\ UNCHANGED <<tables, locks>>
    BY <1>3 DEF ReadSequence
  <2>3. "write" \in Steps \ {"idle"}
    BY DEF Steps
  <2> HIDE DEF v
  <2> QED BY <2>1, <2>2, <2>3, GoesOn DEF TInv, Listed
<1>4. ASSUME Number(r) PROVE TInv'
  <2>1. PICK s \in view[r].ship, status \in ShipmentStatuses :
          ship' = [ship EXCEPT ![s].awb = view[r].number, ![s].status = status]
    <3>1. PICK s \in view[r].ship : ship' = [ship EXCEPT ![s].awb = view[r].number,
            ![s].status = Changed("READY_FOR_PICKUP", view[r].rows[s].status, @)]
      BY <1>4 DEF Number
    <3>2. s \in Shipments
      BY <1>1 DEF Views
    <3>3. ship[s].status \in ShipmentStatuses
      BY <1>1, <3>2 DEF ShipmentRows
    <3>4. Changed("READY_FOR_PICKUP", view[r].rows[s].status, ship[s].status) \in ShipmentStatuses
      BY <3>3 DEF Changed, ShipmentStatuses
    <3> QED BY <3>1, <3>4
  <2>2. ship' \in [Shipments -> ShipmentRows]
    BY <1>1, <2>1 DEF TypeOK, ShipmentRows
  <2>3. sequence' \in Nat \ {0}
    BY <1>1, <1>4 DEF Number
  <2> QED BY <1>1, <1>4, <2>2, <2>3, Writes DEF Number, TypeOK
<1>5. ASSUME NumberOutside(r) PROVE TInv'
  <2>1. sequence' \in Nat \ {0}
    BY <1>1, <1>5 DEF NumberOutside
  <2> QED BY <1>1, <1>5, <2>1, Writes DEF NumberOutside, TypeOK
<1> QED BY <1>2, <1>3, <1>4, <1>5

(* A manifest is read, and its shipments or items are.                     *)
LEMMA ListReads ==
  ASSUME TInv, single' = single, NEW r \in Requests,
         \/ \E op \in ManifestOps, m \in Manifests :
              pc[r] = "idle" /\ LoadManifest(r, op, m) /\ UNCHANGED <<tables, locks>>
         \/ SelectShipments(r) \/ SelectItems(r)
  PROVE  TInv'
<1> USE DEF Goto
<1>1. /\ TypeOK /\ view[r] \in Views /\ items \in SUBSET Items
      /\ view[r].op \in ManifestOps => view[r].manifest \in Manifests
  BY DEF TInv, TypeOK, Listed
<1>2. {"write", "select", "item"} \subseteq Steps \ {"idle"}
  BY DEF Steps
<1>3. ASSUME NEW op \in ManifestOps, NEW m \in Manifests, LoadManifest(r, op, m),
             UNCHANGED <<tables, locks>>
      PROVE  TInv'
  <2> DEFINE v == [view[r] EXCEPT !.op = op, !.manifest = m, !.loaded = manifest[m]]
             step == IF op = "confirm" THEN "write" ELSE "select"
  <2>1. v \in Views /\ v.manifest \in Manifests
    BY <1>1 DEF Views, Ops, ManifestOps, TypeOK
  <2>2. view' = [view EXCEPT ![r] = v] /\ pc' = [pc EXCEPT ![r] = step]
    BY <1>3 DEF LoadManifest
  <2>3. step \in Steps \ {"idle"}
    BY <1>2
  <2> HIDE DEF v, step
  <2> QED BY <1>3, <2>1, <2>2, <2>3, GoesOn
<1>4. ASSUME SelectShipments(r) PROVE TInv'
  <2>1. PICK S \in SUBSET Shipments : view' = [view EXCEPT ![r].ship = S]
    BY <1>4 DEF SelectShipments
  <2> DEFINE v == [view[r] EXCEPT !.ship = S]
  <2>2. v \in Views /\ v.op = view[r].op /\ v.manifest = view[r].manifest
    BY <1>1 DEF Views
  <2>3. /\ view' = [view EXCEPT ![r] = v] /\ pc' = [pc EXCEPT ![r] = "write"]
        /\ UNCHANGED <<tables, locks>>
    BY <1>4, <2>1 DEF SelectShipments
  <2> HIDE DEF v
  <2> QED BY <1>1, <1>2, <2>2, <2>3, GoesOn
<1>5. ASSUME SelectItems(r) PROVE TInv'
  <2>1. PICK S \in SUBSET items, step \in {"item", "write"} :
          /\ view' = [view EXCEPT ![r].items = S, ![r].todo = S]
          /\ pc' = [pc EXCEPT ![r] = step]
    BY <1>5 DEF SelectItems
  <2> DEFINE v == [view[r] EXCEPT !.items = S, !.todo = S]
  <2>2. v \in Views /\ v.op = view[r].op /\ v.manifest = view[r].manifest
    BY <1>1 DEF Views
  <2>3. view' = [view EXCEPT ![r] = v] /\ UNCHANGED <<tables, locks>>
    BY <1>5, <2>1 DEF SelectItems
  <2> HIDE DEF v
  <2> QED BY <1>1, <1>2, <2>1, <2>2, <2>3, GoesOn
<1> QED BY <1>3, <1>4, <1>5

(* A request goes through the items of a manifest. *)
LEMMA ItemTypes ==
  ASSUME TInv, single' = single, NEW r \in Requests,
         RemoveItem(r) \/ HandItem(r) \/ HandOrder(r) \/ HandStock(r)
  PROVE  TInv'
<1> USE DEF Goto
<1>1. /\ TypeOK /\ view[r] \in Views /\ pc[r] \in Steps
      /\ view[r].op \in ManifestOps => view[r].manifest \in Manifests
  BY DEF TInv, TypeOK, Listed
<1>2. {"order", "stock", "item"} \subseteq Steps \ {"idle"}
  BY DEF Steps
<1>3. ASSUME NEW i \in view[r].todo
      PROVE  Read(r, i.ship) \in [Shipments -> ShipmentRows] /\ i.ship \in Shipments
  <2>1. i.ship \in Shipments
    BY <1>1 DEF Views, Items
  <2> QED BY <1>1, <2>1 DEF Read, Views, TypeOK
<1>4. ASSUME RemoveItem(r) PROVE TInv'
  <2>1. PICK i \in view[r].todo, things \in {UNION {{ListRow(j.manifest), ShipRow(j.ship), ItemRow(j)}
                                                     : j \in Gone(r)}} :
          /\ Take(r, things)
          /\ view' = [view EXCEPT ![r].rows = Read(r, i.ship), ![r].todo = @ \ {i}]
    BY <1>4 DEF RemoveItem
  <2> DEFINE v == [view[r] EXCEPT !.rows = Read(r, i.ship), !.todo = @ \ {i}]
  <2>2. v \in Views /\ v.op = view[r].op /\ v.manifest = view[r].manifest
    BY <1>1, <1>3 DEF Views
  <2>3. view' = [view EXCEPT ![r] = v] /\ pc' = [pc EXCEPT ![r] = "item"] /\ UNCHANGED tables
    BY <1>1, <1>4, <2>1 DEF RemoveItem, TypeOK
  <2>4. \A l \in locks' : l \in locks \/ l[2] = r
    BY <2>1, TakeLocks
  <2> HIDE DEF v
  <2> QED BY <1>1, <1>2, <2>2, <2>3, <2>4, GoesOn
<1>5. ASSUME HandItem(r) PROVE TInv'
  <2>1. PICK i \in view[r].todo :
          /\ Take(r, {ItemRow(i)} \cup (IF view[r].taken = 0 THEN {} ELSE {Summary}))
          /\ view' = [view EXCEPT ![r].ship = {i.ship}, ![r].rows = Read(r, i.ship),
                                  ![r].todo = @ \ {i}]
    BY <1>5 DEF HandItem
  <2> DEFINE v == [view[r] EXCEPT !.ship = {i.ship}, !.rows = Read(r, i.ship), !.todo = @ \ {i}]
  <2>2. v \in Views /\ v.op = view[r].op /\ v.manifest = view[r].manifest
    BY <1>1, <1>3 DEF Views
  <2>3. view' = [view EXCEPT ![r] = v] /\ pc' = [pc EXCEPT ![r] = "order"] /\ UNCHANGED tables
    BY <1>5, <2>1 DEF HandItem
  <2>4. \A l \in locks' : l \in locks \/ l[2] = r
    BY <2>1, TakeLocks
  <2> HIDE DEF v
  <2> QED BY <1>1, <1>2, <2>2, <2>3, <2>4, GoesOn
<1>6. ASSUME HandOrder(r) PROVE TInv'
  <2>1. PICK s \in view[r].ship :
          LET o == view[r].rows[s].order IN
          /\ Take(r, {ShipRow(s)})
          /\ view' = [view EXCEPT ![r].order = o, ![r].orders[o] =
               IF o \in {view[r].rows[i.ship].order : i \in {j \in Gone(r) : j.ship # s}}
               THEN @ ELSE order[o]]
    BY <1>6 DEF HandOrder
  <2> DEFINE o == view[r].rows[s].order
             known == o \in {view[r].rows[i.ship].order : i \in {j \in Gone(r) : j.ship # s}}
             read == [view[r].orders EXCEPT ![o] = IF known THEN @ ELSE order[o]]
             v == [view[r] EXCEPT !.order = o, !.orders = read]
  <2>2. o \in Orders \cup {NoOrder}
    BY <1>1 DEF Views, ShipmentRows
  <2>3. view' = [view EXCEPT ![r] = v]
    BY <2>1
  <2>4. pc' = [pc EXCEPT ![r] = "stock"] /\ UNCHANGED tables
    BY <1>6 DEF HandOrder
  <2>5. \A l \in locks' : l \in locks \/ l[2] = r
    BY <2>1, TakeLocks
  <2> HIDE DEF o, known
  <2>6. read \in [Orders -> OrderStatuses]
    BY <1>1 DEF Views, TypeOK
  <2> HIDE DEF read
  <2>7. v \in Views /\ v.op = view[r].op /\ v.manifest = view[r].manifest
    BY <1>1, <2>2, <2>6 DEF Views
  <2> HIDE DEF v
  <2> QED BY <1>1, <1>2, <2>3, <2>4, <2>5, <2>7, GoesOn
<1>7. ASSUME HandStock(r) PROVE TInv'
  <2> DEFINE n == IF view[r].taken = 0 THEN transit ELSE view[r].transit
             w == [view[r] EXCEPT !.transit = n, !.taken = view[r].taken + 1]
             v == IF single THEN w ELSE view[r]
  <2>1. n \in Int /\ view[r].taken + 1 \in Nat
    BY <1>1 DEF TypeOK, Views
  <2>2. v \in Views /\ v.op = view[r].op /\ v.manifest = view[r].manifest
    <3> HIDE DEF n
    <3> QED BY <1>1, <2>1 DEF Views
  <2>3. view' = [view EXCEPT ![r] = v] /\ pc' = [pc EXCEPT ![r] = "item"] /\ UNCHANGED tables
    BY <1>1, <1>7 DEF HandStock, TypeOK
  <2>4. \A l \in locks' : l \in locks \/ l[2] = r
    BY <1>7, TakeLocks DEF HandStock
  <2> HIDE DEF v
  <2> QED BY <1>1, <1>2, <2>2, <2>3, <2>4, GoesOn
<1> QED BY <1>4, <1>5, <1>6, <1>7

(* A manifest and what is on it are written. *)
LEMMA ListTypes ==
  ASSUME TInv, single' = single, NEW r \in Requests,
         Add(r) \/ Confirm(r) \/ Scan(r) \/ Remove(r) \/ HandOver(r)
  PROVE  TInv'
<1>1. /\ TypeOK /\ view[r] \in Views
      /\ view[r].op \in ManifestOps => view[r].manifest \in Manifests
  BY DEF TInv, TypeOK, Listed
<1>2. /\ Cardinality(view[r].ship) \in Nat /\ Cardinality(view[r].items) \in Nat
      /\ view[r].loaded \in ManifestRows /\ view[r].rows \in [Shipments -> ShipmentRows]
      /\ view[r].orders \in [Orders -> OrderStatuses]
      /\ view[r].transit \in Int /\ view[r].taken \in Nat
      /\ view[r].ship \in SUBSET Shipments
  BY <1>1, Finite DEF Views
<1>8. /\ \A s \in Shipments : ship[s] \in ShipmentRows /\ ship[s].status \in ShipmentStatuses
                                /\ ship[s].manifest \in Manifests \cup {NoManifest}
      /\ \A m \in Manifests : manifest[m] \in ManifestRows /\ manifest[m].status \in ManifestStatuses
      /\ view[r].loaded.total \in Int /\ view[r].loaded.scanned \in Nat
  BY <1>1, <1>2 DEF TypeOK, ShipmentRows, ManifestRows
<1>3. ASSUME Add(r) PROVE TInv'
  <2>1. view[r].manifest \in Manifests
    BY <1>1, <1>3 DEF Add, ManifestOps
  <2>2. items' \in SUBSET Items
    <3>1. PICK c \in Copies : items' = items \cup
            [manifest : {view[r].manifest}, ship : view[r].ship, copy : {c}, scanned : {FALSE},
             handed : {FALSE}]
      BY <1>3 DEF Add
    <3> QED BY <1>1, <1>2, <2>1, <3>1 DEF Items, TypeOK
  <2>3. ship' \in [Shipments -> ShipmentRows]
    BY <1>1, <1>3, <2>1 DEF Add, TypeOK, ShipmentRows, ShipmentStatuses
  <2>4. manifest' \in [Manifests -> ManifestRows]
    <3> DEFINE m == view[r].manifest
               total == view[r].loaded.total + Cardinality(view[r].ship)
               status == Changed("PENDING", view[r].loaded.status, manifest[m].status)
    <3>1. total \in Int /\ status \in ManifestStatuses
      BY <1>2, <1>8, <2>1 DEF Changed, ManifestStatuses
    <3>2. manifest' = [manifest EXCEPT ![m].total = total, ![m].status = status]
      BY <1>3 DEF Add
    <3> HIDE DEF m, total, status
    <3> QED BY <1>1, <3>1, <3>2 DEF TypeOK, ManifestRows
  <2> QED BY <1>1, <1>3, <2>2, <2>3, <2>4, Writes DEF Add, TypeOK
<1>4. ASSUME Confirm(r) PROVE TInv'
  <2>1. manifest' \in [Manifests -> ManifestRows]
    BY <1>1, <1>4 DEF Confirm, TypeOK, ManifestRows, ManifestStatuses
  <2> QED BY <1>1, <1>4, <2>1, Writes DEF Confirm, TypeOK
<1>5. ASSUME Scan(r) PROVE TInv'
  <2>1. manifest' \in [Manifests -> ManifestRows]
    <3> DEFINE scanned == view[r].loaded.scanned + 1
    <3>1. scanned \in Nat /\ manifest' = [manifest EXCEPT ![view[r].manifest].scanned = scanned]
      BY <1>8, <1>5 DEF Scan
    <3> HIDE DEF scanned
    <3> QED BY <1>1, <3>1 DEF TypeOK, ManifestRows
  <2>2. items' \in SUBSET Items
    BY <1>1, <1>5 DEF Scan, TypeOK, Items
  <2> QED BY <1>1, <1>5, <2>1, <2>2, Writes DEF Scan, TypeOK
<1>6. ASSUME Remove(r) PROVE TInv'
  <2>1. ship' \in [Shipments -> ShipmentRows]
    <3> DEFINE out == {i.ship : i \in view[r].items}
               list(s) == Changed(NoManifest, view[r].rows[s].manifest, ship[s].manifest)
               status(s) == Changed("READY_FOR_PICKUP", view[r].rows[s].status, ship[s].status)
    <3>1. ASSUME NEW s \in Shipments
          PROVE  list(s) \in Manifests \cup {NoManifest} /\ status(s) \in ShipmentStatuses
      BY <1>8 DEF Changed, ShipmentStatuses
    <3>2. ship' = [s \in Shipments |-> IF s \notin out THEN ship[s] ELSE
            [ship[s] EXCEPT !.manifest = list(s), !.status = status(s)]]
      BY <1>6 DEF Remove
    <3> HIDE DEF out, list, status
    <3> QED BY <1>8, <3>1, <3>2 DEF ShipmentRows
  <2>2. manifest' \in [Manifests -> ManifestRows]
    <3> DEFINE m == view[r].manifest
               left == view[r].loaded.total - Cardinality(view[r].items)
               total == Changed(left, view[r].loaded.total, manifest[m].total)
               status == IF left = 0 THEN Changed("DRAFT", view[r].loaded.status, manifest[m].status)
                         ELSE manifest[m].status
    <3>1. m \in Manifests
      BY <1>1, <1>6 DEF Remove, ManifestOps
    <3>2. left \in Int
      BY <1>2, <1>8
    <3>3. total \in Int /\ status \in ManifestStatuses
      BY <1>8, <3>1, <3>2 DEF Changed, ManifestStatuses, ManifestRows
    <3>4. manifest' = [manifest EXCEPT ![m].total = total, ![m].status = status]
      BY <1>6 DEF Remove
    <3> HIDE DEF m, left, total, status
    <3> QED BY <1>1, <3>3, <3>4 DEF TypeOK, ManifestRows
  <2>3. items' \in SUBSET Items
    BY <1>1, <1>6 DEF Remove, TypeOK
  <2> QED BY <1>1, <1>6, <2>1, <2>2, <2>3, Writes DEF Remove, TypeOK
<1>7. ASSUME HandOver(r) PROVE TInv'
  <2>1. ship' \in [Shipments -> ShipmentRows]
    <3> DEFINE out == {i.ship : i \in view[r].items}
               status(s) == Changed("PICKED_UP", view[r].rows[s].status, ship[s].status)
    <3>1. ASSUME NEW s \in Shipments PROVE status(s) \in ShipmentStatuses
      BY <1>8 DEF Changed, ShipmentStatuses
    <3>2. ship' = [s \in Shipments |-> IF s \notin out THEN ship[s] ELSE
            [ship[s] EXCEPT !.status = status(s)]]
      BY <1>7 DEF HandOver
    <3> HIDE DEF out, status
    <3> QED BY <1>8, <3>1, <3>2 DEF ShipmentRows
  <2>2. manifest' \in [Manifests -> ManifestRows]
    BY <1>1, <1>7 DEF HandOver, TypeOK, ManifestRows, ManifestStatuses
  <2>3. items' \in SUBSET Items
    <3>1. ASSUME NEW i \in Items PROVE [i EXCEPT !.handed = TRUE] \in Items
      BY DEF Items
    <3>2. items' = {IF Among(i, view[r].items) THEN [i EXCEPT !.handed = TRUE] ELSE i : i \in items}
      BY <1>7 DEF HandOver
    <3> QED BY <1>1, <3>1, <3>2 DEF TypeOK
  <2>4. order' \in [Orders -> OrderStatuses]
    BY <1>1, <1>2, <1>7 DEF HandOver, TypeOK, OrderStatuses, Changed
  <2>5. transit' \in Int
    BY <1>1, <1>2, <1>7 DEF HandOver, TypeOK
  <2> QED BY <1>1, <1>7, <2>1, <2>2, <2>3, <2>4, <2>5, Writes DEF HandOver, TypeOK
<1> QED BY <1>3, <1>4, <1>5, <1>6, <1>7

LEMMA TypeInit == Init => TInv
<1> SUFFICES ASSUME Init PROVE TInv
  OBVIOUS
<1>1. "idle" \in Steps /\ "PACKED" \in OrderStatuses /\ Blank.op \notin ManifestOps
  BY DEF Steps, OrderStatuses, Blank, ManifestOps
<1> QED BY <1>1, Rows DEF Init, TInv, TypeOK, Listed

LEMMA TypeNext == TInv /\ [Next]_vars => TInv'
<1> SUFFICES ASSUME TInv, [Next]_vars PROVE TInv'
  OBVIOUS
<1>1. ASSUME UNCHANGED vars PROVE TInv'
  BY <1>1 DEF TInv, TypeOK, Listed, vars, tables
<1>2. ASSUME NEW r \in Requests, Step(r), single' = single PROVE TInv'
  <2>1. ASSUME Fail(r) PROVE TInv'
    BY <1>2, <2>1, Writes DEF Fail, TInv, TypeOK, tables
  <2>2. ASSUME Load(r) PROVE TInv'
    <3>1. \/ \E o \in Orders : pc[r] = "idle" /\ LoadOrder(r, o) /\ UNCHANGED <<tables, locks>>
          \/ \E op \in ShipmentOps, s \in Shipments :
               pc[r] = "idle" /\ LoadShipment(r, op, s) /\ UNCHANGED <<tables, locks>>
          \/ \E op \in ManifestOps, m \in Manifests :
               pc[r] = "idle" /\ LoadManifest(r, op, m) /\ UNCHANGED <<tables, locks>>
          \/ /\ pc[r] = "idle" /\ view' = [view EXCEPT ![r].op = "outside"] /\ Goto(r, "number")
             /\ UNCHANGED <<tables, locks>>
      BY <2>2 DEF Load
    <3> QED BY <1>2, <3>1, ShipmentTypes, NumberTypes, ListReads
  <2>3. CASE ReadSequence(r) \/ Number(r) \/ NumberOutside(r)
    BY <1>2, <2>3, NumberTypes
  <2>4. CASE Create(r) \/ SetStatus(r) \/ ReadOrder(r) \/ Deliver(r)
    BY <1>2, <2>4, ShipmentTypes
  <2>5. CASE SelectShipments(r) \/ SelectItems(r)
    BY <1>2, <2>5, ListReads
  <2>6. CASE RemoveItem(r) \/ HandItem(r) \/ HandOrder(r) \/ HandStock(r)
    BY <1>2, <2>6, ItemTypes
  <2>7. CASE Add(r) \/ Confirm(r) \/ Scan(r) \/ Remove(r) \/ HandOver(r)
    BY <1>2, <2>7, ListTypes
  <2> QED BY <1>2, <2>1, <2>2, <2>3, <2>4, <2>5, <2>6, <2>7 DEF Step
<1>3. ASSUME SecondSummary PROVE TInv'
  BY <1>3 DEF SecondSummary, TInv, TypeOK, Listed, tables
<1> QED BY <1>1, <1>2, <1>3 DEF Next, AtRest

LEMMA TypesKept == Spec => []TInv
BY TypeInit, TypeNext, PTL DEF Spec

(* The tables, and what every request remembers of them, keep their types  *)
(* however the requests overlap and whichever of them fail.                *)
THEOREM TypeCorrect == Spec => []TypeOK
<1>1. TInv => TypeOK
  BY DEF TInv
<1> QED BY <1>1, TypesKept, PTL

-----------------------------------------------------------------------------
(* A request that numbers a shipment has one that has no number yet ...    *)
Unnumbered == \A r \in Requests :
  view[r].op = "awb" /\ pc[r] \in {"number", "write"} =>
    \E s \in Shipments : view[r].ship = {s} /\ ship[s].awb = 0

(* ... and has read the sequence, which has not gone back since.           *)
ReadEarlier == \A r \in Requests :
  view[r].op = "awb" /\ pc[r] = "write" => view[r].number \in 1 .. sequence

(* Every number below the sequence has been given to a shipment.           *)
NoneSkipped == \A n \in 1 .. sequence - 1 : Taken(n)

NInv == TInv /\ AwbAhead /\ Unnumbered /\ ReadEarlier /\ NoneSkipped

(* A step that gives no number, and changes nothing a numbering request    *)
(* has read, unless it has that request read.                              *)
LEMMA Quiet ==
  ASSUME NInv, TInv', sequence' = sequence, \A s \in Shipments : ship'[s].awb = ship[s].awb,
         \A q \in Requests : view'[q].op = "awb" /\ pc'[q] \in {"number", "write"} =>
           \/ view'[q] = view[q] /\ pc'[q] = pc[q]
           \/ pc'[q] = "number" /\ \E s \in Shipments : view'[q].ship = {s} /\ ship[s].awb = 0
           \/ /\ view[q].op = "awb" /\ pc[q] = "number" /\ view'[q].ship = view[q].ship
              /\ view'[q].number = sequence
  PROVE  NInv'
<1>1. sequence \in Nat \ {0}
  BY DEF NInv, TInv, TypeOK
<1>2. AwbAhead' /\ NoneSkipped'
  BY DEF NInv, AwbAhead, NoneSkipped, Taken
<1>3. ASSUME NEW q \in Requests, view'[q].op = "awb", pc'[q] \in {"number", "write"}
      PROVE  \E s \in Shipments : view'[q].ship = {s} /\ ship'[s].awb = 0
  BY <1>3 DEF NInv, Unnumbered
<1>4. ASSUME NEW q \in Requests, view'[q].op = "awb", pc'[q] = "write"
      PROVE  view'[q].number \in 1 .. sequence'
  BY <1>1, <1>4 DEF NInv, ReadEarlier
<1>5. Unnumbered' /\ ReadEarlier'
  BY <1>3, <1>4 DEF Unnumbered, ReadEarlier
<1> QED BY <1>2, <1>5 DEF NInv

(* The acting request is not numbering a shipment any more, or not yet. *)
LEMMA OthersQuiet ==
  ASSUME NInv, TInv', NEW r \in Requests, sequence' = sequence,
         \A s \in Shipments : ship'[s].awb = ship[s].awb,
         \A q \in Requests \ {r} : view'[q] = view[q] /\ pc'[q] = pc[q],
         \/ view'[r].op # "awb" \/ pc'[r] \notin {"number", "write"}
         \/ pc'[r] = "number" /\ \E s \in Shipments : view'[r].ship = {s} /\ ship[s].awb = 0
         \/ /\ view[r].op = "awb" /\ pc[r] = "number" /\ view'[r].ship = view[r].ship
            /\ view'[r].number = sequence
  PROVE  NInv'
BY Quiet

(* A step touches the view and the place of one request. *)
LEMMA OneActs ==
  ASSUME TInv, NEW r \in Requests, Step(r)
  PROVE  \A q \in Requests \ {r} : view'[q] = view[q] /\ pc'[q] = pc[q]
<1>1. view \in [Requests -> Views] /\ pc \in [Requests -> Steps]
  BY DEF TInv, TypeOK
<1>2. ASSUME Done(r) PROVE \A q \in Requests \ {r} : view'[q] = view[q] /\ pc'[q] = pc[q]
  BY <1>1, <1>2 DEF Done, Goto
<1>3. CASE Load(r)
  BY <1>1, <1>3 DEF Load, LoadOrder, LoadShipment, LoadManifest, Goto
<1>4. CASE ReadSequence(r) \/ ReadOrder(r) \/ SelectShipments(r) \/ RemoveItem(r)
  BY <1>1, <1>4 DEF ReadSequence, ReadOrder, SelectShipments, RemoveItem, Goto
<1>5. CASE SelectItems(r)
  BY <1>1, <1>5 DEF SelectItems, Goto
<1>6. CASE HandItem(r) \/ HandOrder(r) \/ HandStock(r)
  BY <1>1, <1>6 DEF HandItem, HandOrder, HandStock, Goto
<1>7. CASE Fail(r) \/ Create(r) \/ SetStatus(r) \/ Number(r) \/ NumberOutside(r) \/ Deliver(r)
  BY <1>2, <1>7 DEF Fail, Create, SetStatus, Number, NumberOutside, Deliver
<1>8. CASE Add(r) \/ Confirm(r) \/ Scan(r) \/ Remove(r) \/ HandOver(r)
  BY <1>2, <1>8 DEF Add, Confirm, Scan, Remove, HandOver
<1> QED BY <1>3, <1>4, <1>5, <1>6, <1>7, <1>8 DEF Step

(* Numbering a shipment: a number that nobody has is the sequence's own. *)
LEMMA NumberAhead ==
  ASSUME NInv, TInv', NumberedApart, NEW r \in Requests, Number(r)
  PROVE  NInv'
<1>1. TypeOK /\ sequence \in Nat \ {0} /\ \A s \in Shipments : ship[s].awb \in Nat
  BY DEF NInv, TInv, TypeOK, ShipmentRows
<1>2. PICK s \in Shipments : view[r].ship = {s} /\ ship[s].awb = 0
  BY DEF NInv, Unnumbered, Number
<1>3. view[r].number = sequence
  BY <1>1 DEF NInv, ReadEarlier, NoneSkipped, Number
<1>4. sequence' = sequence + 1 /\ ship'[s].awb = sequence
        /\ \A t \in Shipments \ {s} : ship'[t].awb = ship[t].awb
  BY <1>1, <1>2, <1>3 DEF Number, TypeOK, ShipmentRows
<1>5. AwbAhead'
  BY <1>1, <1>4 DEF NInv, AwbAhead
<1>6. NoneSkipped'
  <2> SUFFICES ASSUME NEW n \in 1 .. sequence' - 1 PROVE Taken(n)'
    BY DEF NoneSkipped
  <2>1. CASE n = sequence
    BY <1>4, <2>1 DEF Taken
  <2>2. CASE n # sequence
    <3>1. n \in 1 .. sequence - 1
      BY <1>1, <1>4, <2>2
    <3>2. PICK t \in Shipments : ship[t].awb = n
      BY <3>1 DEF NInv, NoneSkipped, Taken
    <3> QED BY <1>2, <1>4, <3>1, <3>2 DEF Taken
  <2> QED BY <2>1, <2>2
<1>7. view'[r].op # "awb"
  BY <1>1 DEF Number, Done, Blank, TypeOK
<1>8. \A q \in Requests \ {r} : view'[q] = view[q] /\ pc'[q] = pc[q]
  BY OneActs DEF Step, NInv
<1>9. ASSUME NEW q \in Requests, view'[q].op = "awb", pc'[q] \in {"number", "write"}
      PROVE  /\ \E t \in Shipments : view'[q].ship = {t} /\ ship'[t].awb = 0
             /\ pc'[q] = "write" => view'[q].number \in 1 .. sequence'
  <2>1. q # r /\ view[q].op = "awb" /\ pc[q] \in {"number", "write"} /\ view[q].ship # {s}
    BY <1>2, <1>7, <1>8, <1>9 DEF NumberedApart, Number
  <2>2. PICK t \in Shipments : view[q].ship = {t} /\ ship[t].awb = 0
    BY <2>1 DEF NInv, Unnumbered
  <2>3. pc[q] = "write" => view[q].number \in 1 .. sequence
    BY <2>1 DEF NInv, ReadEarlier
  <2> QED BY <1>1, <1>4, <1>8, <2>1, <2>2, <2>3
<1>10. Unnumbered' /\ ReadEarlier'
  BY <1>9 DEF Unnumbered, ReadEarlier
<1> QED BY <1>5, <1>6, <1>10 DEF NInv

(* No other endpoint gives a number or moves the sequence. *)
LEMMA NumbersStay ==
  ASSUME TInv, NEW r \in Requests, Step(r), ~ Number(r), ~ NumberOutside(r)
  PROVE  sequence' = sequence /\ \A s \in Shipments : ship'[s].awb = ship[s].awb
<1>1. TypeOK /\ view[r] \in Views /\ \A s \in Shipments : ship[s] \in ShipmentRows
  BY DEF TInv, TypeOK
<1>2. CASE Load(r) \/ Fail(r) \/ ReadSequence(r) \/ ReadOrder(r) \/ SelectShipments(r) \/ SelectItems(r)
  BY <1>2 DEF Load, Fail, ReadSequence, ReadOrder, SelectShipments, SelectItems, tables
<1>3. CASE RemoveItem(r) \/ HandItem(r) \/ HandOrder(r) \/ HandStock(r) \/ Confirm(r) \/ Scan(r)
  BY <1>3 DEF RemoveItem, HandItem, HandOrder, HandStock, Confirm, Scan, tables
<1>4. CASE Create(r)
  BY <1>1, <1>4 DEF Create, TypeOK, ShipmentRows
<1>5. CASE SetStatus(r)
  <2>1. PICK s \in view[r].ship, status \in {Changed(
            IF view[r].op = "pack" THEN "PACKED" ELSE "RTO_INITIATED",
            view[r].rows[t].status, ship[t].status) : t \in view[r].ship} :
          ship' = [ship EXCEPT ![s].status = status]
    BY <1>5 DEF SetStatus
  <2> QED BY <1>1, <1>5, <2>1 DEF TypeOK, ShipmentRows, SetStatus
<1>6. CASE Deliver(r)
  BY <1>1, <1>6 DEF Deliver, ShipmentRows
<1>7. CASE Add(r)
  BY <1>1, <1>7 DEF Add, ShipmentRows
<1>8. CASE Remove(r)
  BY <1>1, <1>8 DEF Remove, ShipmentRows
<1>9. CASE HandOver(r)
  BY <1>1, <1>9 DEF HandOver, ShipmentRows
<1> QED BY <1>2, <1>3, <1>4, <1>5, <1>6, <1>7, <1>8, <1>9 DEF Step

LEMMA NumbersNext == NInv /\ NumberedApart /\ [Next]_vars => NInv'
<1> SUFFICES ASSUME NInv, NumberedApart, [Next]_vars PROVE NInv'
  OBVIOUS
<1>1. TInv /\ TInv' /\ view \in [Requests -> Views] /\ pc \in [Requests -> Steps]
  BY TypeNext DEF NInv, TInv, TypeOK
<1>2. ASSUME UNCHANGED vars \/ SecondSummary PROVE NInv'
  BY <1>1, <1>2, Quiet DEF vars, tables, SecondSummary
<1>3. ASSUME NEW r \in Requests, Step(r), ~ Number(r), ~ NumberOutside(r) PROVE NInv'
  <2>1. \A q \in Requests \ {r} : view'[q] = view[q] /\ pc'[q] = pc[q]
    BY <1>1, <1>3, OneActs
  <2>2. sequence' = sequence /\ \A s \in Shipments : ship'[s].awb = ship[s].awb
    BY <1>1, <1>3, NumbersStay
  <2>3. \/ view'[r].op # "awb" \/ pc'[r] \notin {"number", "write"}
        \/ pc'[r] = "number" /\ \E s \in Shipments : view'[r].ship = {s} /\ ship[s].awb = 0
        \/ /\ view[r].op = "awb" /\ pc[r] = "number" /\ view'[r].ship = view[r].ship
           /\ view'[r].number = sequence
    <3>1. CASE Load(r)
      <4>1. CASE \E o \in Orders : LoadOrder(r, o)
        BY <1>1, <4>1 DEF LoadOrder, Views
      <4>2. CASE \E op \in ShipmentOps, s \in Shipments : LoadShipment(r, op, s)
        <5>1. PICK op \in ShipmentOps, s \in Shipments : LoadShipment(r, op, s)
          BY <4>2
        <5>2. view'[r].op = op /\ view'[r].ship = {s}
          BY <1>1, <5>1 DEF LoadShipment, Views
        <5>3. op = "awb" => pc'[r] = "number" /\ ship[s].awb = 0
          BY <1>1, <5>1 DEF LoadShipment, Permitted, Goto
        <5> QED BY <5>2, <5>3
      <4>3. CASE \E op \in ManifestOps, m \in Manifests : LoadManifest(r, op, m)
        BY <1>1, <4>3 DEF LoadManifest, Views, ManifestOps
      <4>4. CASE view' = [view EXCEPT ![r].op = "outside"]
        BY <1>1, <4>4 DEF Views
      <4> QED BY <3>1, <4>1, <4>2, <4>3, <4>4 DEF Load
    <3>2. CASE ReadSequence(r)
      BY <1>1, <3>2 DEF ReadSequence, Views
    <3>3. CASE ReadOrder(r)
      BY <1>1, <3>3 DEF ReadOrder, Views
    <3>4. CASE SelectShipments(r)
      BY <1>1, <3>4 DEF SelectShipments, Views
    <3>5. CASE SelectItems(r)
      <4>1. PICK S \in SUBSET items : view' = [view EXCEPT ![r].items = S, ![r].todo = S]
        BY <3>5 DEF SelectItems
      <4>2. view[r].op # "awb"
        BY <3>5 DEF SelectItems
      <4> QED BY <1>1, <4>1, <4>2 DEF Views
    <3>6. CASE RemoveItem(r) \/ HandItem(r) \/ HandOrder(r) \/ HandStock(r)
      BY <1>1, <3>6 DEF RemoveItem, HandItem, HandOrder, HandStock, Goto
    <3>7. CASE Fail(r) \/ Create(r) \/ SetStatus(r) \/ Deliver(r) \/ Add(r) \/ Confirm(r)
                 \/ Scan(r) \/ Remove(r) \/ HandOver(r)
      <4>1. Done(r)
        BY <3>7 DEF Fail, Create, SetStatus, Deliver, Add, Confirm, Scan, Remove, HandOver
      <4> QED BY <1>1, <4>1 DEF Done, Goto
    <3> QED BY <1>3, <3>1, <3>2, <3>3, <3>4, <3>5, <3>6, <3>7 DEF Step
  <2> QED BY <1>1, <2>1, <2>2, <2>3, OthersQuiet
<1>4. ASSUME NEW r \in Requests, Number(r) PROVE NInv'
  BY <1>1, <1>4, NumberAhead
<1>5. ASSUME NEW r \in Requests, NumberOutside(r) PROVE NInv'
  BY <1>5 DEF NumberOutside, NumberedApart
<1> QED BY <1>2, <1>3, <1>4, <1>5 DEF Next, AtRest

LEMMA NumbersInit == Init => NInv
<1> SUFFICES ASSUME Init PROVE NInv
  OBVIOUS
<1>1. TInv /\ sequence = 1 /\ \A s \in Shipments : ship[s].awb = 0
  BY TypeInit DEF Init, NoRow
<1>2. \A r \in Requests : view[r].op # "awb"
  BY DEF Init, Blank
<1> QED BY <1>1, <1>2 DEF NInv, AwbAhead, Unnumbered, ReadEarlier, NoneSkipped

(* While no two requests number one shipment at once, and nobody uses the  *)
(* carrier's own generate-awb, the carrier's next number is above every    *)
(* number given: the requests that read the sequence and set it back may   *)
(* overlap in any other way.                                               *)
THEOREM NumbersStayAhead == Spec /\ []NumberedApart => []AwbAhead
<1>1. NInv => AwbAhead
  BY DEF NInv
<1> QED BY <1>1, NumbersInit, NumbersNext, PTL DEF Spec
-----------------------------------------------------------------------------
(* When requests do not overlap: what is on a manifest is counted by the   *)
(* shipments, of which there is one to each item.                          *)
Carried(m)   == {s \in Shipments : ship[s].manifest = m}
ScannedOn(m) == {i.ship : i \in {j \in items : j.manifest = m /\ j.scanned}}
HandedOver   == {i.ship : i \in {j \in items : j.handed}}

Placed ==
  /\ \A i \in items : ship[i.ship].manifest = i.manifest
  /\ \A s \in Shipments : ship[s].manifest # NoManifest => \E i \in items : i.ship = s
  /\ \A i, j \in items : i.ship = j.ship => i = j

Counted == \A m \in Manifests :
  /\ manifest[m].total = Cardinality(Carried(m))
  /\ manifest[m].scanned >= Cardinality(ScannedOn(m))
  /\ manifest[m].status = "DRAFT" <=> Carried(m) = {}

Stocked ==
  /\ transit <= Cardinality(HandedOver) /\ (single => transit = Cardinality(HandedOver))
  /\ \A i \in items : i.handed <=> manifest[i.manifest].status = "HANDED_OVER"
  /\ \A i \in items : i.handed => order[ship[i.ship].order] # "PACKED"

(* A shipment that is created has an order. *)
Owned == \A s \in Shipments : ship[s] = NoRow \/ ship[s].order \in Orders

Tidy == Placed /\ Counted /\ Stocked /\ Owned

(* What a request has read is what the tables hold, and its place is one   *)
(* that its endpoint gets to.                                              *)
On(m)            == {i \in items : i.manifest = m}
OrdersRead(v, S) == \A i \in S : v.orders[ship[i.ship].order] = order[ship[i.ship].order]

InPlace(r) ==
  /\ pc[r] = "idle" => view[r].op = "none"
  /\ pc[r] = "number" => view[r].op \in {"awb", "outside"}
  /\ pc[r] = "stock" => view[r].op = "handover"
  /\ pc[r] \in {"idle", "select"} => view[r].taken = 0

ShipmentRead(r) ==
  /\ view[r].op = "create" => view[r].order \in Orders
  /\ view[r].op \in ShipmentOps => \A s \in view[r].ship : ship[s] # NoRow
  /\ view[r].op = "add" /\ pc[r] = "write" =>
       view[r].ship # {} /\ \A s \in view[r].ship : Addable(s)

ListRead(r) ==
  /\ view[r].op \in ManifestOps =>
       view[r].loaded = manifest[view[r].manifest] /\ OpenFor(view[r].op, view[r].loaded)
  /\ view[r].op = "scan" /\ pc[r] = "write" =>
       \E i \in On(view[r].manifest) : ~ i.scanned /\ view[r].items = {i}
  /\ view[r].op = "remove" /\ pc[r] = "item" => view[r].items \subseteq On(view[r].manifest)
  /\ view[r].op = "handover" /\ pc[r] # "select" => view[r].items = On(view[r].manifest)

ItemsRead(r) ==
  view[r].op \in {"remove", "handover"} /\ pc[r] # "select" =>
    view[r].todo \subseteq view[r].items /\ \A i \in Gone(r) : view[r].rows[i.ship] = ship[i.ship]

(* A handover has deducted a unit of each of n items at most, and of each   *)
(* while there is one summary, from the quantity that stands there.        *)
Deducted(v, n) ==
  v.taken <= n /\ (single => v.taken = n) /\ (v.taken # 0 => v.transit = transit)

(* The unit of the item that a handover is at is not among them yet.       *)
StockRead(r) ==
  /\ view[r].op = "handover" /\ pc[r] = "item" =>
       OrdersRead(view[r], Gone(r)) /\ Deducted(view[r], Cardinality(Gone(r)))
  /\ view[r].op = "handover" /\ pc[r] \in {"order", "stock"} =>
       \E i \in Gone(r) :
         /\ view[r].ship = {i.ship}
         /\ OrdersRead(view[r], IF pc[r] = "order" THEN Gone(r) \ {i} ELSE Gone(r))
         /\ Deducted(view[r], Cardinality(Gone(r)) - 1)

UpToDate(r) == InPlace(r) /\ ShipmentRead(r) /\ ListRead(r) /\ ItemsRead(r) /\ StockRead(r)

AInv == TInv /\ OneBusy /\ Tidy /\ \A r \in Requests : UpToDate(r)

(* Sets of items, and of the shipments they are for, have as many members. *)
LEMMA Shipped ==
  ASSUME NEW S \in SUBSET Items, \A i, j \in S : i.ship = j.ship => i = j
  PROVE  /\ {i.ship : i \in S} \in SUBSET Shipments
         /\ Cardinality({i.ship : i \in S}) = Cardinality(S)
<1> DEFINE T == {i.ship : i \in S}
           f == [i \in S |-> i.ship]
<1>1. T \in SUBSET Shipments
  BY DEF Items
<1>2. f \in Surjection(S, T)
  BY DEF Surjection
<1>3. f \in Injection(S, T)
  <2>1. f \in [S -> T] /\ \A i, j \in S : f[i] = f[j] => i = j
    OBVIOUS
  <2> HIDE DEF f
  <2> QED BY <2>1 DEF Injection, IsInjective
<1>4. IsFiniteSet(S)
  BY AllFinite
<1> HIDE DEF f
<1> QED BY <1>1, <1>2, <1>3, <1>4, FS_Surjection

(* That is what the two properties say. *)
LEMMA TidyAgrees ==
  ASSUME TInv, Tidy
  PROVE  ManifestsAgree /\ DeductedOnce
<1>1. items \in SUBSET Items
  BY DEF TInv, TypeOK
<1>2. \A i, j \in items : i.ship = j.ship => i = j
  BY DEF Tidy, Placed
<1>3. ASSUME NEW S \in SUBSET items PROVE Cardinality({i.ship : i \in S}) = Cardinality(S)
  BY <1>1, <1>2, Shipped
<1>4. ASSUME NEW m \in Manifests
      PROVE  LET on == {i \in items : i.manifest = m} IN
             /\ {i.ship : i \in on} = Carried(m) /\ Cardinality(on) = Cardinality(Carried(m))
             /\ Cardinality({i \in on : i.scanned}) = Cardinality(ScannedOn(m))
             /\ on = {} <=> Carried(m) = {}
  <2> DEFINE on == {i \in items : i.manifest = m}
             scanned == {i \in on : i.scanned}
  <2>1. {i.ship : i \in on} = Carried(m)
    <3>1. ASSUME NEW i \in on PROVE i.ship \in Carried(m)
      BY <1>1 DEF Tidy, Placed, Carried, Items
    <3>2. ASSUME NEW s \in Carried(m) PROVE \E i \in on : i.ship = s
      BY DispatchAssumption DEF Tidy, Placed, Carried
    <3> QED BY <3>1, <3>2
  <2>2. scanned = {j \in items : j.manifest = m /\ j.scanned}
    OBVIOUS
  <2>3. Cardinality(scanned) = Cardinality(ScannedOn(m))
    BY <1>3, <2>2 DEF ScannedOn
  <2>4. Cardinality(on) = Cardinality(Carried(m))
    BY <1>3, <2>1
  <2>5. on = {} <=> Carried(m) = {}
    BY <2>1
  <2> QED BY <2>1, <2>3, <2>4, <2>5
<1>5. ManifestsAgree
  <2>1. ASSUME NEW m \in Manifests
        PROVE  LET on == {i \in items : i.manifest = m} IN
               /\ {i.ship : i \in on} = {s \in Shipments : ship[s].manifest = m}
               /\ manifest[m].total = Cardinality(on)
               /\ manifest[m].scanned >= Cardinality({i \in on : i.scanned})
               /\ manifest[m].status = "DRAFT" <=> on = {}
    <3>1. /\ manifest[m].total = Cardinality(Carried(m))
          /\ manifest[m].scanned >= Cardinality(ScannedOn(m))
          /\ manifest[m].status = "DRAFT" <=> Carried(m) = {}
      BY DEF Tidy, Counted
    <3>2. Carried(m) = {s \in Shipments : ship[s].manifest = m}
      BY DEF Carried
    <3> QED BY <1>4, <3>1, <3>2
  <2> QED BY <1>2, <2>1 DEF ManifestsAgree
<1>6. DeductedOnce
  <2>1. Cardinality(HandedOver) = Cardinality({i \in items : i.handed})
    BY <1>3 DEF HandedOver
  <2> QED BY <2>1 DEF Tidy, Stocked, DeductedOnce
<1> QED BY <1>5, <1>6

LEMMA TidyInit == Init => Tidy
<1> SUFFICES ASSUME Init PROVE Tidy
  OBVIOUS
<1>1. items = {} /\ \A s \in Shipments : ship[s] = NoRow
  BY DEF Init
<1>2. \A m \in Manifests : manifest[m] = NewList /\ Carried(m) = {} /\ ScannedOn(m) = {}
  BY <1>1, DispatchAssumption DEF Init, Carried, ScannedOn, NoRow
<1>3. HandedOver = {} /\ transit = 0
  BY <1>1 DEF HandedOver, Init
<1>4. Cardinality({}) = 0
  BY FS_EmptySet
<1>5. Placed
  BY <1>1 DEF Placed, NoRow
<1>6. Counted
  BY <1>2, <1>4 DEF Counted, NewList
<1>7. Stocked /\ Owned
  BY <1>1, <1>3, <1>4 DEF Stocked, Owned
<1> QED BY <1>5, <1>6, <1>7 DEF Tidy

(* A request that is over, or has not begun, has nothing to be out of date. *)
LEMMA Idle ==
  ASSUME NEW r \in Requests, pc[r] = "idle", view[r].op = "none", view[r].taken = 0
  PROVE  UpToDate(r)
BY DEF UpToDate, InPlace, ShipmentRead, ListRead, ItemsRead, StockRead, ShipmentOps, ManifestOps

LEMMA IdleNext ==
  ASSUME NEW r \in Requests, pc'[r] = "idle", view'[r].op = "none", view'[r].taken = 0
  PROVE  UpToDate(r)'
BY DEF UpToDate, InPlace, ShipmentRead, ListRead, ItemsRead, StockRead, ShipmentOps, ManifestOps

(* While one acts, the others have not begun. *)
LEMMA OthersRest ==
  ASSUME AInv, OneBusy', NEW r \in Requests, Step(r)
  PROVE  \A q \in Requests \ {r} : UpToDate(q)'
<1>1. TInv /\ pc \in [Requests -> Steps]
  BY DEF AInv, TInv, TypeOK
<1>2. \A q \in Requests \ {r} : view'[q] = view[q] /\ pc'[q] = pc[q]
  BY <1>1, OneActs
<1>3. pc[r] # "idle" \/ pc'[r] # "idle"
  <2>1. ASSUME Load(r) PROVE pc'[r] # "idle"
    BY <1>1, <2>1 DEF Load, LoadOrder, LoadShipment, LoadManifest, Goto
  <2>2. ASSUME ~ Load(r) PROVE pc[r] # "idle"
    <3>1. CASE Fail(r) \/ Create(r) \/ SetStatus(r) \/ ReadSequence(r) \/ Number(r)
               \/ NumberOutside(r) \/ ReadOrder(r) \/ Deliver(r) \/ SelectShipments(r)
      BY <3>1 DEF Fail, Create, SetStatus, ReadSequence, Number, NumberOutside, ReadOrder,
         Deliver, SelectShipments
    <3>2. CASE Add(r) \/ Confirm(r) \/ SelectItems(r) \/ Scan(r) \/ RemoveItem(r) \/ Remove(r)
               \/ HandItem(r) \/ HandOrder(r) \/ HandStock(r) \/ HandOver(r)
      BY <3>2 DEF Add, Confirm, SelectItems, Scan, RemoveItem, Remove, HandItem, HandOrder,
         HandStock, HandOver
    <3> QED BY <2>2, <3>1, <3>2 DEF Step
  <2> QED BY <2>1, <2>2
<1>4. ASSUME NEW q \in Requests \ {r} PROVE pc[q] = "idle"
  BY <1>2, <1>3 DEF AInv, OneBusy, Busy
<1>5. ASSUME NEW q \in Requests \ {r} PROVE view[q].op = "none" /\ view[q].taken = 0
  BY <1>4 DEF AInv, UpToDate, InPlace
<1> QED BY <1>2, <1>4, <1>5, IdleNext

(* A step that writes no table. *)
LEMMA AloneGoesOn ==
  ASSUME AInv, OneBusy', single' = single, NEW r \in Requests, Step(r), UNCHANGED tables, UpToDate(r)'
  PROVE  AInv'
<1>1. TInv'
  BY TypeNext DEF AInv, Next
<1>2. Tidy'
  <2>1. Placed' /\ Owned'
    BY DEF AInv, Tidy, Placed, Owned, tables
  <2>2. \A m \in Manifests : Carried(m)' = Carried(m) /\ ScannedOn(m)' = ScannedOn(m)
    BY DEF Carried, ScannedOn, tables
  <2>3. Counted'
    BY <2>2 DEF AInv, Tidy, Counted, tables
  <2>4. HandedOver' = HandedOver
    BY DEF HandedOver, tables
  <2>5. Stocked'
    BY <2>4 DEF AInv, Tidy, Stocked, tables
  <2> QED BY <2>1, <2>3, <2>5 DEF Tidy
<1>3. \A q \in Requests : UpToDate(q)'
  BY OthersRest
<1> QED BY <1>1, <1>2, <1>3 DEF AInv

(* A step that writes what is tidy, and is the request's last. *)
LEMMA AloneEnds ==
  ASSUME AInv, OneBusy', single' = single, NEW r \in Requests, Step(r), Done(r), Tidy'
  PROVE  AInv'
<1>1. TInv'
  BY TypeNext DEF AInv, Next
<1>2. pc'[r] = "idle" /\ view'[r].op = "none" /\ view'[r].taken = 0
  BY DEF AInv, TInv, TypeOK, Done, Goto, Blank
<1>3. \A q \in Requests : UpToDate(q)'
  BY <1>2, IdleNext, OthersRest
<1> QED BY <1>1, <1>3 DEF AInv

(* The endpoints about one shipment leave lists, and which shipments are   *)
(* on them, as they are.                                                   *)
LEMMA SameLists ==
  ASSUME TInv, Tidy, UNCHANGED <<manifest, items, transit, single>>,
         \A s \in Shipments : ship'[s].manifest = ship[s].manifest, Owned',
         \A i \in items : i.handed => order'[ship'[i.ship].order] # "PACKED"
  PROVE  Tidy'
<1>1. \A m \in Manifests : Carried(m)' = Carried(m) /\ ScannedOn(m)' = ScannedOn(m)
  BY DEF Carried, ScannedOn
<1>2. HandedOver' = HandedOver
  BY DEF HandedOver
<1>3. Placed'
  <2>1. \A i \in items : i.ship \in Shipments
    BY DEF TInv, TypeOK, Items
  <2> QED BY <2>1 DEF Tidy, Placed
<1>4. Counted'
  BY <1>1 DEF Tidy, Counted
<1>5. Stocked'
  BY <1>2 DEF Tidy, Stocked
<1> QED BY <1>3, <1>4, <1>5 DEF Tidy

LEMMA ShipmentTidy ==
  ASSUME AInv, single' = single, NEW r \in Requests, Create(r) \/ SetStatus(r) \/ Number(r) \/ Deliver(r)
  PROVE  Tidy'
<1>1. /\ TInv /\ TypeOK /\ view[r] \in Views /\ UpToDate(r) /\ Tidy
      /\ \A s \in Shipments : ship[s] \in ShipmentRows
  BY DEF AInv, TInv, TypeOK
<1>2. /\ \A i \in items : i.ship \in Shipments /\ i.manifest \in Manifests
      /\ \A i \in items : ship[i.ship].manifest = i.manifest
      /\ \A i \in items : i.handed => order[ship[i.ship].order] # "PACKED"
      /\ \A s \in Shipments : ship[s] = NoRow \/ ship[s].order \in Orders
  BY <1>1 DEF TypeOK, Items, Tidy, Placed, Stocked, Owned
<1>3. ASSUME Create(r) PROVE Tidy'
  <2>1. PICK s \in Shipments :
          ship[s] = NoRow
            /\ ship' = [ship EXCEPT ![s].order = view[r].order, ![s].status = "CREATED"]
    BY <1>3 DEF Create
  <2>2. view[r].order \in Orders
    BY <1>1, <1>3 DEF UpToDate, ShipmentRead, Create
  <2>3. \A t \in Shipments : ship'[t].manifest = ship[t].manifest
    BY <1>1, <2>1 DEF TypeOK, ShipmentRows
  <2>4. Owned'
    BY <1>1, <1>2, <2>1, <2>2 DEF Owned, TypeOK, ShipmentRows
  <2>5. \A i \in items : i.ship # s
    BY <1>2, <2>1, DispatchAssumption DEF NoRow
  <2>6. \A i \in items : i.handed => order'[ship'[i.ship].order] # "PACKED"
    BY <1>1, <1>2, <1>3, <2>1, <2>5 DEF Create, TypeOK
  <2> QED BY <1>1, <1>3, <2>3, <2>4, <2>6, SameLists DEF Create
<1>4. ASSUME SetStatus(r) \/ Number(r) PROVE Tidy'
  <2>1. PICK s \in Shipments, awb \in Nat, status \in ShipmentStatuses :
          ship[s] # NoRow /\ ship' = [ship EXCEPT ![s].awb = awb, ![s].status = status]
    <3>1. CASE SetStatus(r)
      <4>1. PICK s \in view[r].ship : ship' = [ship EXCEPT ![s].status = Changed(
              IF view[r].op = "pack" THEN "PACKED" ELSE "RTO_INITIATED", view[r].rows[s].status, @)]
        BY <3>1 DEF SetStatus
      <4>2. s \in Shipments /\ ship[s] # NoRow
        BY <1>1, <3>1 DEF Views, SetStatus, UpToDate, ShipmentRead, ShipmentOps
      <4>3. ship[s].status \in ShipmentStatuses /\ ship[s].awb \in Nat
        BY <1>1, <4>2 DEF ShipmentRows
      <4> DEFINE status == Changed(IF view[r].op = "pack" THEN "PACKED" ELSE "RTO_INITIATED",
                                   view[r].rows[s].status, ship[s].status)
      <4>4. status \in ShipmentStatuses
        BY <4>3 DEF Changed, ShipmentStatuses
      <4>5. ship' = [ship EXCEPT ![s].status = status]
        BY <4>1
      <4> HIDE DEF status
      <4>6. ship' = [ship EXCEPT ![s].awb = ship[s].awb, ![s].status = status]
        BY <1>1, <4>2, <4>5 DEF TypeOK, ShipmentRows
      <4> QED BY <4>2, <4>3, <4>4, <4>6
    <3>2. CASE Number(r)
      <4>1. PICK s \in view[r].ship : ship' = [ship EXCEPT ![s].awb = view[r].number,
              ![s].status = Changed("READY_FOR_PICKUP", view[r].rows[s].status, @)]
        BY <3>2 DEF Number
      <4>2. s \in Shipments /\ ship[s] # NoRow /\ view[r].number \in Nat
        BY <1>1, <3>2 DEF Views, Number, UpToDate, ShipmentRead, ShipmentOps
      <4>3. ship[s].status \in ShipmentStatuses
        BY <1>1, <4>2 DEF ShipmentRows
      <4>4. Changed("READY_FOR_PICKUP", view[r].rows[s].status, ship[s].status) \in ShipmentStatuses
        BY <4>3 DEF Changed, ShipmentStatuses
      <4> QED BY <4>1, <4>2, <4>4
    <3> QED BY <1>4, <3>1, <3>2
  <2>2. /\ \A t \in Shipments : ship'[t].manifest = ship[t].manifest
        /\ \A t \in Shipments : ship'[t].order = ship[t].order
        /\ \A t \in Shipments \ {s} : ship'[t] = ship[t]
    BY <1>1, <2>1 DEF TypeOK, ShipmentRows
  <2>3. Owned'
    BY <1>2, <2>1, <2>2 DEF Owned
  <2>4. UNCHANGED <<manifest, items, order, transit>>
    BY <1>4 DEF SetStatus, Number
  <2>5. \A i \in items : i.handed => order'[ship'[i.ship].order] # "PACKED"
    BY <1>2, <2>2, <2>4
  <2> QED BY <1>1, <2>2, <2>3, <2>4, <2>5, SameLists
<1>5. ASSUME Deliver(r) PROVE Tidy'
  <2>1. view[r].ship \in SUBSET Shipments /\ \A s \in view[r].ship : ship[s] # NoRow
    BY <1>1, <1>5 DEF Views, Deliver, UpToDate, ShipmentRead, ShipmentOps
  <2>2. ship' = [s \in Shipments |->
          IF s \in view[r].ship THEN [ship[s] EXCEPT !.status = "DELIVERED"] ELSE ship[s]]
    BY <1>5 DEF Deliver
  <2>3. \A t \in Shipments : /\ ship'[t].manifest = ship[t].manifest
                             /\ ship'[t].order = ship[t].order
                             /\ t \notin view[r].ship => ship'[t] = ship[t]
    BY <1>1, <2>2 DEF ShipmentRows
  <2>4. Owned'
    BY <1>2, <2>1, <2>3 DEF Owned
  <2>5. ASSUME NEW o \in Orders, order[o] # "PACKED" PROVE order'[o] # "PACKED"
    BY <1>1, <1>5, <2>5 DEF Deliver, TypeOK, Changed
  <2>6. ASSUME NEW i \in items, i.handed PROVE order'[ship'[i.ship].order] # "PACKED"
    <3>1. ship[i.ship].order \in Orders
      BY <1>2, DispatchAssumption DEF NoRow
    <3> QED BY <1>2, <2>3, <2>5, <2>6, <3>1
  <2> QED BY <1>1, <1>5, <2>3, <2>4, <2>6, SameLists DEF Deliver
<1> QED BY <1>3, <1>4, <1>5

(* What is put on a manifest was on none. *)
LEMMA AddTidy ==
  ASSUME AInv, single' = single, NEW r \in Requests, Add(r)
  PROVE  Tidy'
<1> DEFINE m == view[r].manifest
           S == view[r].ship
           total == view[r].loaded.total + Cardinality(S)
           status == Changed("PENDING", view[r].loaded.status, manifest[m].status)
<1>1. /\ TypeOK /\ view[r] \in Views /\ UpToDate(r) /\ Tidy
      /\ \A s \in Shipments : ship[s] \in ShipmentRows
      /\ \A n \in Manifests : manifest[n] \in ManifestRows
  BY DEF AInv, TInv, TypeOK
<1>2. /\ m \in Manifests /\ S \in SUBSET Shipments /\ S # {}
      /\ \A s \in S : ship[s].manifest = NoManifest /\ ship[s] # NoRow
      /\ view[r].loaded = manifest[m] /\ manifest[m].status \in {"DRAFT", "PENDING"}
  <2>1. m \in Manifests
    BY DEF AInv, TInv, Listed, Add, ManifestOps
  <2>2. S # {} /\ \A s \in S : Addable(s)
    BY <1>1 DEF UpToDate, ShipmentRead, Add
  <2>3. view[r].loaded = manifest[m] /\ OpenFor(view[r].op, view[r].loaded)
    BY <1>1 DEF UpToDate, ListRead, Add, ManifestOps
  <2>4. view[r].op = "add"
    BY DEF Add
  <2>5. \A s \in S : ship[s].manifest = NoManifest /\ ship[s] # NoRow
    BY <2>2 DEF Addable, NoRow
  <2> QED BY <1>1, <2>1, <2>2, <2>3, <2>4, <2>5 DEF Views, OpenFor
<1>3. PICK c \in Copies : items' = items \cup
        [manifest : {m}, ship : S, copy : {c}, scanned : {FALSE}, handed : {FALSE}]
  BY DEF Add
<1> DEFINE new == [manifest : {m}, ship : S, copy : {c}, scanned : {FALSE}, handed : {FALSE}]
<1>4. /\ \A i \in new : i.manifest = m /\ i.ship \in S /\ ~ i.scanned /\ ~ i.handed
      /\ \A i, j \in new : i.ship = j.ship => i = j
      /\ \A s \in S : \E i \in new : i.ship = s
      /\ items' = items \cup new
  <2>1. \A s \in S : [manifest |-> m, ship |-> s, copy |-> c, scanned |-> FALSE,
                      handed |-> FALSE] \in new
    OBVIOUS
  <2>2. \A s \in S : \E i \in new : i.ship = s
    BY <2>1
  <2>3. ASSUME NEW i \in new
        PROVE  /\ i.ship \in S
               /\ i = [manifest |-> m, ship |-> i.ship, copy |-> c, scanned |-> FALSE,
                       handed |-> FALSE]
    OBVIOUS
  <2>4. items' = items \cup new
    BY <1>3
  <2> HIDE DEF new
  <2>5. \A i \in new : i.manifest = m /\ i.ship \in S /\ ~ i.scanned /\ ~ i.handed
    BY <2>3
  <2>6. ASSUME NEW i \in new, NEW j \in new, i.ship = j.ship PROVE i = j
    BY <2>3, <2>6
  <2> QED BY <2>2, <2>4, <2>5, <2>6
<1>5. /\ manifest' = [manifest EXCEPT ![m].total = total, ![m].status = status]
      /\ ship' = [s \in Shipments |-> IF s \notin S THEN ship[s]
           ELSE [ship[s] EXCEPT !.manifest = m, !.status = "MANIFESTED"]]
      /\ UNCHANGED <<order, transit>>
  BY DEF Add
<1>6. total = Cardinality(Carried(m)) + Cardinality(S) /\ status = "PENDING"
  BY <1>1, <1>2 DEF Tidy, Counted, Changed
<1> HIDE DEF m, S, total, status, new
<1>7. /\ \A s \in S : ship'[s].manifest = m /\ ship'[s].order = ship[s].order
      /\ \A s \in Shipments \ S : ship'[s] = ship[s]
  BY <1>1, <1>2, <1>5 DEF ShipmentRows
<1>8. /\ manifest'[m].total = total /\ manifest'[m].status = status
      /\ manifest'[m].scanned = manifest[m].scanned
      /\ \A n \in Manifests \ {m} : manifest'[n] = manifest[n]
  BY <1>1, <1>2, <1>5 DEF TypeOK, ManifestRows
<1>9. /\ \A i \in items : i.ship \in Shipments /\ i.manifest \in Manifests
      /\ \A i \in items : i.ship \notin S
      /\ \A i \in items : ship[i.ship].manifest = i.manifest
  <2>1. /\ \A i \in items : i.ship \in Shipments /\ i.manifest \in Manifests
        /\ \A i \in items : ship[i.ship].manifest = i.manifest
    BY <1>1 DEF TypeOK, Items, Tidy, Placed
  <2> QED BY <1>2, <2>1, DispatchAssumption
<1>10. Placed'
  <2>1. \A i \in items' : ship'[i.ship].manifest = i.manifest
    BY <1>4, <1>7, <1>9
  <2>2. \A s \in Shipments : ship'[s].manifest # NoManifest => \E i \in items' : i.ship = s
    BY <1>1, <1>4, <1>7 DEF Tidy, Placed
  <2>3. \A i, j \in items' : i.ship = j.ship => i = j
    BY <1>1, <1>4, <1>9 DEF Tidy, Placed
  <2> QED BY <2>1, <2>2, <2>3 DEF Placed
<1>11. \A n \in Manifests :
         /\ n = m => Carried(n)' = Carried(n) \cup S /\ Carried(n) \cap S = {}
         /\ n # m => Carried(n)' = Carried(n)
  <2>1. ASSUME NEW n \in Manifests, NEW s \in Shipments
        PROVE  /\ s \in S => ship'[s].manifest = m /\ ship[s].manifest # n
               /\ s \notin S => ship'[s].manifest = ship[s].manifest
    BY <1>2, <1>7, DispatchAssumption
  <2>2. ASSUME NEW n \in Manifests
        PROVE  /\ Carried(n) = {s \in Shipments : ship[s].manifest = n}
               /\ Carried(n)' = {s \in Shipments : ship'[s].manifest = n}
    BY DEF Carried
  <2>3. ASSUME NEW n \in Manifests, n = m PROVE Carried(n)' = Carried(n) \cup S
    BY <1>2, <2>1, <2>2, <2>3
  <2>4. ASSUME NEW n \in Manifests PROVE Carried(n) \cap S = {}
    BY <2>1, <2>2
  <2>5. ASSUME NEW n \in Manifests, n # m PROVE Carried(n)' = Carried(n)
    <3>1. \A s \in Shipments : ship'[s].manifest = n <=> ship[s].manifest = n
      BY <2>1, <2>5
    <3> QED BY <2>2, <3>1
  <2> QED BY <2>3, <2>4, <2>5
<1>12. \A n \in Manifests : ScannedOn(n)' = ScannedOn(n)
  BY <1>4 DEF ScannedOn
<1>13. ASSUME NEW n \in Manifests, n = m
       PROVE  Cardinality(Carried(n)') = Cardinality(Carried(n)) + Cardinality(S)
  <2>1. IsFiniteSet(Carried(n)) /\ IsFiniteSet(S)
    BY <1>2, AllFinite DEF Carried
  <2>2. Cardinality(Carried(n) \cup S) =
          Cardinality(Carried(n)) + Cardinality(S) - Cardinality(Carried(n) \cap S)
    BY <2>1, FS_Union
  <2>3. Cardinality(Carried(n)) \in Nat /\ Cardinality(S) \in Nat
    BY <2>1, FS_CardinalityType
  <2>4. Carried(n)' = Carried(n) \cup S /\ Carried(n) \cap S = {}
    BY <1>11, <1>13
  <2>5. Cardinality(Carried(n) \cap S) = 0
    BY <2>4, FS_EmptySet
  <2>6. Cardinality(Carried(n)') = Cardinality(Carried(n) \cup S)
    BY <2>4
  <2> QED BY <2>2, <2>3, <2>5, <2>6
<1>14. Counted'
  <2> SUFFICES ASSUME NEW n \in Manifests
               PROVE  /\ manifest'[n].total = Cardinality(Carried(n)')
                      /\ manifest'[n].scanned >= Cardinality(ScannedOn(n)')
                      /\ manifest'[n].status = "DRAFT" <=> Carried(n)' = {}
    BY DEF Counted
  <2>1. /\ manifest[n].total = Cardinality(Carried(n))
        /\ manifest[n].scanned >= Cardinality(ScannedOn(n))
        /\ manifest[n].status = "DRAFT" <=> Carried(n) = {}
    BY <1>1 DEF Tidy, Counted
  <2>2. CASE n = m
    BY <1>2, <1>6, <1>8, <1>11, <1>12, <1>13, <2>1, <2>2
  <2>3. CASE n # m
    BY <1>8, <1>11, <1>12, <2>1, <2>3
  <2> QED BY <2>2, <2>3
<1>15. Stocked'
  <2>1. HandedOver' = HandedOver
    BY <1>4 DEF HandedOver
  <2>2. \A i \in items : i.handed <=> manifest'[i.manifest].status = "HANDED_OVER"
    BY <1>1, <1>2, <1>6, <1>8, <1>9 DEF Tidy, Stocked
  <2>3. \A i \in items' : i.handed <=> manifest'[i.manifest].status = "HANDED_OVER"
    BY <1>4, <1>6, <1>8, <2>2
  <2>4. \A i \in items' : i.handed => order'[ship'[i.ship].order] # "PACKED"
    BY <1>1, <1>4, <1>5, <1>7, <1>9 DEF Tidy, Stocked
  <2> QED BY <1>1, <1>5, <2>1, <2>3, <2>4 DEF Tidy, Stocked
<1>16. Owned'
  BY <1>1, <1>2, <1>7 DEF Tidy, Owned
<1> QED BY <1>10, <1>14, <1>15, <1>16 DEF Tidy

(* A manifest with items is confirmed. *)
LEMMA ConfirmTidy ==
  ASSUME AInv, single' = single, NEW r \in Requests, Confirm(r)
  PROVE  Tidy'
<1> DEFINE m == view[r].manifest
<1>1. /\ TypeOK /\ view[r] \in Views /\ UpToDate(r) /\ Tidy
      /\ UNCHANGED <<ship, items, order, transit>>
      /\ \A n \in Manifests : manifest[n] \in ManifestRows
  BY DEF AInv, TInv, TypeOK, Confirm
<1>2. m \in Manifests /\ manifest[m].status = "PENDING"
  <2>1. m \in Manifests /\ view[r].op = "confirm"
    BY DEF AInv, TInv, Listed, Confirm, ManifestOps
  <2>2. view[r].loaded = manifest[m] /\ OpenFor(view[r].op, view[r].loaded)
    BY <1>1, <2>1 DEF UpToDate, ListRead, ManifestOps
  <2> QED BY <2>1, <2>2 DEF OpenFor
<1>3. manifest' = [manifest EXCEPT ![m].status = "CONFIRMED"]
  BY DEF Confirm
<1> HIDE DEF m
<1>4. /\ manifest'[m].status = "CONFIRMED"
      /\ \A n \in Manifests : manifest'[n].total = manifest[n].total
                                /\ manifest'[n].scanned = manifest[n].scanned
      /\ \A n \in Manifests \ {m} : manifest'[n] = manifest[n]
  BY <1>1, <1>2, <1>3 DEF TypeOK, ManifestRows
<1>5. \A n \in Manifests : Carried(n)' = Carried(n) /\ ScannedOn(n)' = ScannedOn(n)
  BY <1>1 DEF Carried, ScannedOn
<1>6. HandedOver' = HandedOver
  BY <1>1 DEF HandedOver
<1>7. Placed' /\ Owned'
  BY <1>1 DEF Tidy, Placed, Owned
<1>8. Counted'
  BY <1>1, <1>2, <1>4, <1>5 DEF Tidy, Counted
<1>9. Stocked'
  <2>1. \A i \in items : i.manifest \in Manifests
    BY <1>1 DEF TypeOK, Items
  <2> QED BY <1>1, <1>2, <1>4, <1>6, <2>1 DEF Tidy, Stocked
<1> QED BY <1>7, <1>8, <1>9 DEF Tidy

(* A shipment's only item is scanned. *)
LEMMA ScanTidy ==
  ASSUME AInv, single' = single, NEW r \in Requests, Scan(r)
  PROVE  Tidy'
<1> DEFINE m == view[r].manifest
           n1 == view[r].loaded.scanned + 1
<1>1. /\ TypeOK /\ view[r] \in Views /\ UpToDate(r) /\ Tidy
      /\ UNCHANGED <<ship, order, transit>>
      /\ \A n \in Manifests : manifest[n] \in ManifestRows
  BY DEF AInv, TInv, TypeOK, Scan
<1>2. view[r].op = "scan" /\ pc[r] = "write" /\ m \in Manifests
  BY DEF AInv, TInv, Listed, Scan, ManifestOps
<1>3. /\ view[r].loaded = manifest[m] /\ manifest[m].status \in {"PENDING", "CONFIRMED"}
      /\ \E k \in On(m) : ~ k.scanned /\ view[r].items = {k}
  <2>1. view[r].loaded = manifest[m] /\ OpenFor(view[r].op, view[r].loaded)
    BY <1>1, <1>2 DEF UpToDate, ListRead, ManifestOps
  <2>2. \E k \in On(m) : ~ k.scanned /\ view[r].items = {k}
    BY <1>1, <1>2 DEF UpToDate, ListRead
  <2> QED BY <1>2, <2>1, <2>2 DEF OpenFor
<1>4. PICK k \in items : k.manifest = m /\ ~ k.scanned /\ view[r].items = {k}
  BY <1>3 DEF On
<1>5. /\ items \in SUBSET Items
      /\ \A i \in items : ship[i.ship].manifest = i.manifest
      /\ \A i, j \in items : i.ship = j.ship => i = j
      /\ \A s \in Shipments : ship[s].manifest # NoManifest => \E i \in items : i.ship = s
  BY <1>1 DEF TypeOK, Tidy, Placed
<1> DEFINE scanned == [k EXCEPT !.scanned = TRUE]
<1>6. items' = (items \ {k}) \cup {scanned}
  <2>1. \A i \in items : Among(i, {k}) <=> i = k
    BY <1>5 DEF Among, ItemRow
  <2>2. items' = {IF Among(i, view[r].items) THEN [i EXCEPT !.scanned = TRUE] ELSE i : i \in items}
    BY DEF Scan
  <2> QED BY <1>4, <2>1, <2>2
<1>7. /\ scanned.ship = k.ship /\ scanned.manifest = k.manifest /\ scanned.handed = k.handed
      /\ scanned.scanned
  BY <1>4, <1>5 DEF Items
<1>8. manifest' = [manifest EXCEPT ![m].scanned = n1] /\ n1 = manifest[m].scanned + 1
  BY <1>3 DEF Scan
<1> HIDE DEF m, n1, scanned
<1>9. /\ manifest'[m].scanned = manifest[m].scanned + 1
      /\ \A n \in Manifests : manifest'[n].total = manifest[n].total
                                /\ manifest'[n].status = manifest[n].status
      /\ \A n \in Manifests \ {m} : manifest'[n] = manifest[n]
  BY <1>1, <1>2, <1>8 DEF TypeOK, ManifestRows
<1>10. \A n \in Manifests : Carried(n)' = Carried(n)
  BY <1>1 DEF Carried
<1>11. HandedOver' = HandedOver
  BY <1>4, <1>6, <1>7 DEF HandedOver
<1>12. ASSUME NEW n \in Manifests
       PROVE  /\ n = m => ScannedOn(n)' = ScannedOn(n) \cup {k.ship}
              /\ n # m => ScannedOn(n)' = ScannedOn(n)
  <2>1. ScannedOn(n)' = {i.ship : i \in {j \in items' : j.manifest = n /\ j.scanned}}
    BY DEF ScannedOn
  <2>2. ASSUME n = m
        PROVE  {j \in items' : j.manifest = n /\ j.scanned}
                 = {j \in items : j.manifest = n /\ j.scanned} \cup {scanned}
    BY <1>4, <1>6, <1>7, <2>2
  <2>3. ASSUME n # m
        PROVE  {j \in items' : j.manifest = n /\ j.scanned}
                 = {j \in items : j.manifest = n /\ j.scanned}
    BY <1>4, <1>6, <1>7, <2>3
  <2> QED BY <1>7, <2>1, <2>2, <2>3 DEF ScannedOn
<1>13. Placed'
  <2>1. \A i \in items' : ship'[i.ship].manifest = i.manifest
    BY <1>1, <1>4, <1>5, <1>6, <1>7
  <2>2. \A s \in Shipments : ship'[s].manifest # NoManifest => \E i \in items' : i.ship = s
    <3>1. ASSUME NEW s \in Shipments, NEW i \in items, i.ship = s PROVE \E j \in items' : j.ship = s
      BY <1>6, <1>7, <3>1
    <3> QED BY <1>1, <1>5, <3>1
  <2>3. \A i, j \in items' : i.ship = j.ship => i = j
    BY <1>4, <1>5, <1>6, <1>7
  <2> QED BY <2>1, <2>2, <2>3 DEF Placed
<1>14. Counted'
  <2> SUFFICES ASSUME NEW n \in Manifests
               PROVE  /\ manifest'[n].total = Cardinality(Carried(n)')
                      /\ manifest'[n].scanned >= Cardinality(ScannedOn(n)')
                      /\ manifest'[n].status = "DRAFT" <=> Carried(n)' = {}
    BY DEF Counted
  <2>1. /\ manifest[n].total = Cardinality(Carried(n))
        /\ manifest[n].scanned >= Cardinality(ScannedOn(n))
        /\ manifest[n].status = "DRAFT" <=> Carried(n) = {}
    BY <1>1 DEF Tidy, Counted
  <2>2. CASE n = m
    <3>1. ScannedOn(n) \in SUBSET Shipments
      BY <1>5 DEF ScannedOn, Items
    <3>2. IsFiniteSet(ScannedOn(n))
      BY <3>1, AllFinite
    <3>3. Cardinality(ScannedOn(n) \cup {k.ship}) <= Cardinality(ScannedOn(n)) + 1
      <4>1. Cardinality(ScannedOn(n)) \in Nat
        BY <3>2, FS_CardinalityType
      <4>2. Cardinality(ScannedOn(n) \cup {k.ship})
              = IF k.ship \in ScannedOn(n) THEN Cardinality(ScannedOn(n))
                ELSE Cardinality(ScannedOn(n)) + 1
        BY <3>2, FS_AddElement
      <4> QED BY <4>1, <4>2
    <3>4. /\ Cardinality(ScannedOn(n)) \in Nat /\ Cardinality(ScannedOn(n) \cup {k.ship}) \in Nat
          /\ manifest[n].scanned \in Nat
      <4>1. IsFiniteSet(ScannedOn(n) \cup {k.ship})
        BY <3>2, FS_AddElement
      <4> QED BY <1>1, <3>2, <4>1, FS_CardinalityType DEF ManifestRows
    <3>5. ScannedOn(n)' = ScannedOn(n) \cup {k.ship}
      BY <1>12, <2>2
    <3>6. Cardinality(ScannedOn(n)') <= Cardinality(ScannedOn(n)) + 1
            /\ Cardinality(ScannedOn(n)') \in Nat
      BY <3>3, <3>4, <3>5
    <3>7. manifest'[n].scanned >= Cardinality(ScannedOn(n)')
      BY <1>9, <2>1, <2>2, <3>4, <3>6
    <3> QED BY <1>9, <1>10, <2>1, <3>7
  <2>3. CASE n # m
    BY <1>9, <1>10, <1>12, <2>1, <2>3
  <2> QED BY <2>2, <2>3
<1>15. Stocked'
  <2>1. \A i \in items : i.manifest \in Manifests
    BY <1>5 DEF Items
  <2>2. \A i \in items' : i.handed <=> manifest'[i.manifest].status = "HANDED_OVER"
    BY <1>1, <1>4, <1>6, <1>7, <1>9, <2>1 DEF Tidy, Stocked
  <2>3. \A i \in items' : i.handed => order'[ship'[i.ship].order] # "PACKED"
    BY <1>1, <1>4, <1>6, <1>7 DEF Tidy, Stocked
  <2> QED BY <1>1, <1>11, <2>2, <2>3 DEF Tidy, Stocked
<1>16. Owned'
  BY <1>1 DEF Tidy, Owned
<1> QED BY <1>13, <1>14, <1>15, <1>16 DEF Tidy

(* What is taken off a manifest was on it. *)
LEMMA RemoveTidy ==
  ASSUME AInv, single' = single, NEW r \in Requests, Remove(r)
  PROVE  Tidy'
<1> DEFINE m == view[r].manifest
           K == view[r].items
           T == {i.ship : i \in K}
           left == view[r].loaded.total - Cardinality(K)
           total == Changed(left, view[r].loaded.total, manifest[m].total)
           status == IF left = 0 THEN Changed("DRAFT", view[r].loaded.status, manifest[m].status)
                     ELSE manifest[m].status
<1>1. /\ TypeOK /\ view[r] \in Views /\ UpToDate(r) /\ Tidy
      /\ UNCHANGED <<order, transit>>
      /\ \A s \in Shipments : ship[s] \in ShipmentRows
      /\ \A n \in Manifests : manifest[n] \in ManifestRows
  BY DEF AInv, TInv, TypeOK, Remove
<1>2. /\ view[r].op = "remove" /\ pc[r] = "item" /\ view[r].todo = {} /\ m \in Manifests
  BY DEF AInv, TInv, Listed, Remove, ManifestOps
<1>3. /\ view[r].loaded = manifest[m] /\ manifest[m].status \in {"DRAFT", "PENDING"}
      /\ \A i \in K : i \in items /\ i.manifest = m
      /\ \A i \in K : view[r].rows[i.ship] = ship[i.ship]
  <2>1. view[r].loaded = manifest[m] /\ OpenFor(view[r].op, view[r].loaded)
    BY <1>1, <1>2 DEF UpToDate, ListRead, ManifestOps
  <2>2. K \subseteq On(m)
    BY <1>1, <1>2 DEF UpToDate, ListRead
  <2>3. \A i \in Gone(r) : view[r].rows[i.ship] = ship[i.ship]
    BY <1>1, <1>2 DEF UpToDate, ItemsRead
  <2>4. Gone(r) = K
    BY <1>2 DEF Gone
  <2>5. manifest[m].status \in {"DRAFT", "PENDING"}
    BY <1>2, <2>1 DEF OpenFor
  <2> QED BY <2>1, <2>2, <2>3, <2>4, <2>5 DEF On
<1>4. /\ items \in SUBSET Items /\ \A i \in items : i.ship \in Shipments /\ i.manifest \in Manifests
      /\ \A i \in items : ship[i.ship].manifest = i.manifest
      /\ \A i, j \in items : i.ship = j.ship => i = j
      /\ \A s \in Shipments : ship[s].manifest # NoManifest => \E i \in items : i.ship = s
  BY <1>1 DEF TypeOK, Items, Tidy, Placed
<1>5. items' = items \ K
  <2>1. \A i \in items : Among(i, K) <=> i \in K
    BY <1>3, <1>4 DEF Among, ItemRow
  <2>2. items' = {i \in items : ~ Among(i, view[r].items)}
    BY DEF Remove
  <2> QED BY <2>1, <2>2
<1>6. /\ ship' = [s \in Shipments |-> IF s \notin T THEN ship[s] ELSE
           [ship[s] EXCEPT !.manifest = Changed(NoManifest, view[r].rows[s].manifest, @),
                           !.status = Changed("READY_FOR_PICKUP", view[r].rows[s].status, @)]]
      /\ manifest' = [manifest EXCEPT ![m].total = total, ![m].status = status]
  BY DEF Remove
<1>7. T \in SUBSET Shipments /\ Cardinality(T) = Cardinality(K)
  <2>1. K \in SUBSET Items /\ \A i, j \in K : i.ship = j.ship => i = j
    BY <1>3, <1>4
  <2> QED BY <2>1, Shipped
<1>8. \A s \in T : /\ ship[s].manifest = m /\ ship[s] # NoRow /\ ship[s].order \in Orders
                   /\ view[r].rows[s].manifest = m
  <2>1. ASSUME NEW i \in K PROVE ship[i.ship].manifest = m /\ view[r].rows[i.ship].manifest = m
    BY <1>3, <1>4
  <2>2. ASSUME NEW i \in K PROVE ship[i.ship] # NoRow /\ ship[i.ship].order \in Orders
    <3>1. ship[i.ship] # NoRow
      BY <1>2, <2>1, DispatchAssumption DEF NoRow
    <3> QED BY <1>1, <1>3, <1>4, <3>1 DEF Tidy, Owned
  <2> QED BY <2>1, <2>2
<1>9. total = left /\ left = Cardinality(Carried(m)) - Cardinality(T)
  BY <1>1, <1>2, <1>3, <1>7 DEF Changed, Tidy, Counted
<1>10. status = IF left = 0 THEN "DRAFT" ELSE manifest[m].status
  BY <1>3 DEF Changed
<1>11. \A i \in K : ~ i.handed
  BY <1>1, <1>3 DEF Tidy, Stocked
<1> HIDE DEF m, K, T, left, total, status
<1>12. /\ \A s \in T : ship'[s].manifest = NoManifest /\ ship'[s].order = ship[s].order
       /\ \A s \in Shipments \ T : ship'[s] = ship[s]
  <2>1. ASSUME NEW s \in T PROVE ship'[s].manifest = NoManifest /\ ship'[s].order = ship[s].order
    <3>1. s \in Shipments /\ ship[s] \in ShipmentRows
      BY <1>1, <1>7
    <3>2. Changed(NoManifest, view[r].rows[s].manifest, ship[s].manifest) = NoManifest
      BY <1>2, <1>8, DispatchAssumption DEF Changed
    <3> QED BY <1>6, <3>1, <3>2 DEF ShipmentRows
  <2>2. \A s \in Shipments \ T : ship'[s] = ship[s]
    BY <1>6
  <2> QED BY <2>1, <2>2
<1>13. /\ manifest'[m].total = left /\ manifest'[m].status = status
       /\ manifest'[m].scanned = manifest[m].scanned
       /\ \A n \in Manifests \ {m} : manifest'[n] = manifest[n]
  BY <1>1, <1>2, <1>6, <1>9 DEF TypeOK, ManifestRows
<1>14. \A n \in Manifests :
         /\ n = m => Carried(n)' = Carried(n) \ T /\ T \subseteq Carried(n)
         /\ n # m => Carried(n)' = Carried(n)
  <2>1. ASSUME NEW n \in Manifests
        PROVE  /\ Carried(n) = {s \in Shipments : ship[s].manifest = n}
               /\ Carried(n)' = {s \in Shipments : ship'[s].manifest = n}
    BY DEF Carried
  <2>2. ASSUME NEW n \in Manifests, NEW s \in Shipments
        PROVE  ship'[s].manifest = n <=> ship[s].manifest = n /\ s \notin T
    BY <1>8, <1>12, DispatchAssumption
  <2>3. ASSUME NEW n \in Manifests, n # m PROVE Carried(n)' = Carried(n)
    <3>1. \A s \in Shipments : ship'[s].manifest = n <=> ship[s].manifest = n
      BY <1>8, <2>2, <2>3
    <3> QED BY <2>1, <3>1
  <2>4. ASSUME NEW n \in Manifests, n = m PROVE Carried(n)' = Carried(n) \ T /\ T \subseteq Carried(n)
    BY <1>7, <1>8, <2>1, <2>2, <2>4
  <2> QED BY <2>3, <2>4
<1>15. \A n \in Manifests : ScannedOn(n)' \subseteq ScannedOn(n)
  BY <1>5 DEF ScannedOn
<1>16. ASSUME NEW n \in Manifests
       PROVE  /\ Cardinality(ScannedOn(n)) \in Nat /\ Cardinality(ScannedOn(n)') \in Nat
              /\ Cardinality(ScannedOn(n)') <= Cardinality(ScannedOn(n))
  <2>1. ScannedOn(n) \in SUBSET Shipments
    BY <1>4 DEF ScannedOn
  <2>2. IsFiniteSet(ScannedOn(n)) /\ ScannedOn(n)' \in SUBSET ScannedOn(n)
    BY <1>15, <2>1, AllFinite
  <2>3. IsFiniteSet(ScannedOn(n)') /\ Cardinality(ScannedOn(n)') <= Cardinality(ScannedOn(n))
    BY <2>2, FS_Subset
  <2> QED BY <2>2, <2>3, FS_CardinalityType
<1>17. Placed'
  <2>1. \A i \in items' : i.ship \notin T
    <3>1. ASSUME NEW i \in items, i.ship \in T PROVE i \in K
      BY <1>3, <1>4, <3>1 DEF T
    <3> QED BY <1>5, <3>1
  <2>2. \A i \in items' : ship'[i.ship].manifest = i.manifest
    BY <1>4, <1>5, <1>12, <2>1
  <2>3. \A s \in Shipments : ship'[s].manifest # NoManifest => \E i \in items' : i.ship = s
    <3>1. ASSUME NEW s \in Shipments, ship'[s].manifest # NoManifest
          PROVE  \E i \in items' : i.ship = s
      <4>1. s \notin T /\ ship[s].manifest # NoManifest
        BY <1>12, <3>1
      <4>2. PICK i \in items : i.ship = s
        BY <1>4, <4>1
      <4>3. i \notin K
        BY <4>1, <4>2 DEF T
      <4> QED BY <1>5, <4>2, <4>3
    <3> QED BY <3>1
  <2>4. \A i, j \in items' : i.ship = j.ship => i = j
    BY <1>4, <1>5
  <2> QED BY <2>2, <2>3, <2>4 DEF Placed
<1>18. Counted'
  <2> SUFFICES ASSUME NEW n \in Manifests
               PROVE  /\ manifest'[n].total = Cardinality(Carried(n)')
                      /\ manifest'[n].scanned >= Cardinality(ScannedOn(n)')
                      /\ manifest'[n].status = "DRAFT" <=> Carried(n)' = {}
    BY DEF Counted
  <2>1. /\ manifest[n].total = Cardinality(Carried(n))
        /\ manifest[n].scanned >= Cardinality(ScannedOn(n))
        /\ manifest[n].status = "DRAFT" <=> Carried(n) = {}
        /\ manifest[n].scanned \in Nat
    BY <1>1 DEF Tidy, Counted, ManifestRows
  <2>2. manifest'[n].scanned >= Cardinality(ScannedOn(n)')
    <3>1. manifest'[n].scanned = manifest[n].scanned
      BY <1>13
    <3> QED BY <1>16, <2>1, <3>1
  <2>3. CASE n = m
    <3>1. IsFiniteSet(Carried(n)) /\ IsFiniteSet(T)
      BY <1>7, AllFinite DEF Carried
    <3>2. /\ IsFiniteSet(Carried(n) \ T)
          /\ Cardinality(Carried(n) \ T) = Cardinality(Carried(n)) - Cardinality(Carried(n) \cap T)
      BY <3>1, FS_Difference
    <3>3. Carried(n) \cap T = T /\ Carried(n)' = Carried(n) \ T
      BY <1>14, <2>3
    <3>4. Cardinality(Carried(n)') = left
      BY <1>9, <2>3, <3>2, <3>3
    <3>5. IsFiniteSet(Carried(n)')
      BY <3>2, <3>3
    <3>6. left = 0 <=> Carried(n)' = {}
      BY <3>4, <3>5, FS_EmptySet
    <3>7. left # 0 => status # "DRAFT"
      BY <1>10, <2>1, <2>3, <3>3, <3>6
    <3>8. left = 0 => status = "DRAFT"
      BY <1>10
    <3>9. manifest'[n].total = Cardinality(Carried(n)')
      BY <1>13, <2>3, <3>4
    <3>10. manifest'[n].status = "DRAFT" <=> Carried(n)' = {}
      BY <1>13, <2>3, <3>6, <3>7, <3>8
    <3> QED BY <2>2, <3>9, <3>10
  <2>4. CASE n # m
    BY <1>13, <1>14, <2>1, <2>2, <2>4
  <2> QED BY <2>3, <2>4
<1>19. Stocked'
  <2>1. HandedOver' = HandedOver
    BY <1>5, <1>11 DEF HandedOver
  <2>2. manifest[m].status # "HANDED_OVER" /\ manifest'[m].status # "HANDED_OVER"
    BY <1>3, <1>10, <1>13
  <2>3. \A i \in items' : i.handed <=> manifest'[i.manifest].status = "HANDED_OVER"
    BY <1>1, <1>4, <1>5, <1>13, <2>2 DEF Tidy, Stocked
  <2>4. \A s \in Shipments : ship'[s].order = ship[s].order
    BY <1>12
  <2>5. \A i \in items' : i.handed => order'[ship'[i.ship].order] # "PACKED"
    BY <1>1, <1>4, <1>5, <2>4 DEF Tidy, Stocked
  <2> QED BY <1>1, <2>1, <2>3, <2>5 DEF Tidy, Stocked
<1>20. Owned'
  BY <1>1, <1>8, <1>12 DEF Tidy, Owned
<1> QED BY <1>17, <1>18, <1>19, <1>20 DEF Tidy

(* All that is on a manifest is handed over, and counted once. *)
LEMMA HandOverTidy ==
  ASSUME AInv, single' = single, NEW r \in Requests, HandOver(r)
  PROVE  Tidy'
<1> DEFINE m == view[r].manifest
           K == view[r].items
           T == {i.ship : i \in K}
           handed(i) == [i EXCEPT !.handed = TRUE]
<1>1. /\ TypeOK /\ view[r] \in Views /\ UpToDate(r) /\ Tidy
      /\ \A s \in Shipments : ship[s] \in ShipmentRows
      /\ \A n \in Manifests : manifest[n] \in ManifestRows
  BY DEF AInv, TInv, TypeOK
<1>2. /\ view[r].op = "handover" /\ pc[r] = "item" /\ view[r].todo = {} /\ m \in Manifests
  BY DEF AInv, TInv, Listed, HandOver, ManifestOps
<1>3. /\ manifest[m].status = "CONFIRMED" /\ K = On(m)
      /\ \A i \in K : view[r].rows[i.ship] = ship[i.ship]
      /\ \A i \in K : view[r].orders[ship[i.ship].order] = order[ship[i.ship].order]
      /\ Deducted(view[r], Cardinality(K))
  <2>1. view[r].loaded = manifest[m] /\ OpenFor(view[r].op, view[r].loaded)
    BY <1>1, <1>2 DEF UpToDate, ListRead, ManifestOps
  <2>2. manifest[m].status = "CONFIRMED"
    BY <1>2, <2>1 DEF OpenFor
  <2>3. K = On(m)
    BY <1>1, <1>2 DEF UpToDate, ListRead
  <2>4. Gone(r) = K
    BY <1>2 DEF Gone
  <2>5. \A i \in Gone(r) : view[r].rows[i.ship] = ship[i.ship]
    BY <1>1, <1>2 DEF UpToDate, ItemsRead
  <2>6. OrdersRead(view[r], Gone(r)) /\ Deducted(view[r], Cardinality(Gone(r)))
    BY <1>1, <1>2 DEF UpToDate, StockRead
  <2> QED BY <2>2, <2>3, <2>4, <2>5, <2>6 DEF OrdersRead
<1>4. /\ items \in SUBSET Items /\ \A i \in items : i.ship \in Shipments /\ i.manifest \in Manifests
      /\ \A i \in items : ship[i.ship].manifest = i.manifest
      /\ \A i, j \in items : i.ship = j.ship => i = j
      /\ \A s \in Shipments : ship[s].manifest # NoManifest => \E i \in items : i.ship = s
  BY <1>1 DEF TypeOK, Items, Tidy, Placed
<1>5. \A i \in items : i \in K <=> i.manifest = m
  BY <1>3 DEF On
<1>6. K \subseteq items
  BY <1>3 DEF On
<1>7. items' = (items \ K) \cup {handed(i) : i \in K}
  <2>1. \A i \in items : Among(i, K) <=> i \in K
    BY <1>4, <1>6 DEF Among, ItemRow
  <2>2. items' = {IF Among(i, view[r].items) THEN [i EXCEPT !.handed = TRUE] ELSE i : i \in items}
    BY DEF HandOver
  <2> QED BY <1>6, <2>1, <2>2
<1>8. /\ ship' = [s \in Shipments |-> IF s \notin T THEN ship[s] ELSE
           [ship[s] EXCEPT !.status = Changed("PICKED_UP", view[r].rows[s].status, @)]]
      /\ order' = [o \in Orders |-> IF \A s \in T : view[r].rows[s].order # o THEN order[o]
           ELSE Changed("SHIPPED", view[r].orders[o], order[o])]
      /\ transit' = IF view[r].taken = 0 THEN transit ELSE view[r].transit + view[r].taken
      /\ manifest' = [manifest EXCEPT ![m].status = "HANDED_OVER"]
  BY DEF HandOver
<1>9. /\ T \in SUBSET Shipments /\ Cardinality(T) = Cardinality(K)
      /\ \A s \in T : ship[s].order \in Orders /\ view[r].rows[s].order = ship[s].order
      /\ \A s \in T : view[r].orders[ship[s].order] = order[ship[s].order]
      /\ \A i \in items : i.ship \in T <=> i \in K
  <2>1. K \in SUBSET Items /\ \A i, j \in K : i.ship = j.ship => i = j
    BY <1>4, <1>6
  <2>2. T \in SUBSET Shipments /\ Cardinality(T) = Cardinality(K)
    BY <2>1, Shipped
  <2>3. ASSUME NEW i \in K PROVE ship[i.ship].order \in Orders
    <3>1. ship[i.ship] # NoRow
      BY <1>2, <1>4, <1>5, <1>6, DispatchAssumption DEF NoRow
    <3> QED BY <1>1, <1>4, <1>6, <3>1 DEF Tidy, Owned
  <2>4. \A i \in items : i.ship \in T <=> i \in K
    BY <1>4, <1>6
  <2> QED BY <1>3, <2>2, <2>3, <2>4
<1>10. /\ transit \in Int /\ transit' \in Int
       /\ transit' <= transit + Cardinality(T) /\ (single => transit' = transit + Cardinality(T))
  <2>1. /\ Cardinality(T) = Cardinality(K) /\ Cardinality(K) \in Nat
        /\ transit \in Int /\ view[r].taken \in Nat
    BY <1>1, <1>4, <1>6, <1>9, Finite DEF TypeOK, Views
  <2>2. /\ view[r].taken <= Cardinality(K) /\ (single => view[r].taken = Cardinality(K))
        /\ transit' = transit + view[r].taken
    BY <1>3, <1>8, <2>1 DEF Deducted
  <2> QED BY <2>1, <2>2
<1>11. \A i \in K : handed(i).ship = i.ship /\ handed(i).manifest = i.manifest
                      /\ handed(i).scanned = i.scanned /\ handed(i).handed
  BY <1>4, <1>6 DEF Items
<1> HIDE DEF m, K, handed
<1>12. /\ \A s \in Shipments : ship'[s].order = ship[s].order /\ ship'[s].manifest = ship[s].manifest
       /\ \A s \in Shipments \ T : ship'[s] = ship[s]
  BY <1>1, <1>8 DEF ShipmentRows
<1>13. /\ \A o \in Orders : order'[o] \in {order[o], "SHIPPED"}
       /\ \A s \in T : order'[ship[s].order] # "PACKED"
  <2>1. \A s \in T : order'[ship[s].order] = "SHIPPED"
    BY <1>8, <1>9 DEF Changed
  <2>2. \A o \in Orders : order'[o] \in {order[o], "SHIPPED"}
    BY <1>8 DEF Changed
  <2> QED BY <2>1, <2>2
<1> HIDE DEF T
<1>14. /\ manifest'[m].status = "HANDED_OVER"
       /\ \A n \in Manifests : manifest'[n].total = manifest[n].total
                                 /\ manifest'[n].scanned = manifest[n].scanned
       /\ \A n \in Manifests \ {m} : manifest'[n] = manifest[n]
  BY <1>1, <1>2, <1>8 DEF TypeOK, ManifestRows
<1>15. \A n \in Manifests : Carried(n)' = Carried(n)
  BY <1>12 DEF Carried
<1>16. ASSUME NEW n \in Manifests PROVE ScannedOn(n)' = ScannedOn(n)
  <2> DEFINE new == {j \in items' : j.manifest = n /\ j.scanned}
             old == {j \in items : j.manifest = n /\ j.scanned}
  <2>1. \A j \in new : \E i \in old : i.ship = j.ship
    BY <1>6, <1>7, <1>11
  <2>2. \A i \in old : \E j \in new : j.ship = i.ship
    <3>1. ASSUME NEW i \in old, i \in K PROVE handed(i) \in new
      BY <1>7, <1>11, <3>1
    <3>2. ASSUME NEW i \in old, i \notin K PROVE i \in new
      BY <1>7, <3>2
    <3> QED BY <1>11, <3>1, <3>2
  <2>3. ScannedOn(n) = {i.ship : i \in old} /\ ScannedOn(n)' = {i.ship : i \in new}
    BY DEF ScannedOn
  <2> HIDE DEF new, old
  <2> QED BY <2>1, <2>2, <2>3
<1>17. \A i \in items : i.handed => i \notin K
  BY <1>1, <1>3, <1>5 DEF Tidy, Stocked
<1>18. HandedOver' = HandedOver \cup T /\ HandedOver \cap T = {}
  <2> DEFINE new == {j \in items' : j.handed}
             old == {j \in items : j.handed}
  <2>1. new = old \cup {handed(i) : i \in K}
    BY <1>7, <1>11, <1>17
  <2>2. T = {j.ship : j \in {handed(i) : i \in K}}
    BY <1>11 DEF T
  <2>3. HandedOver = {i.ship : i \in old} /\ HandedOver' = {i.ship : i \in new}
    BY DEF HandedOver
  <2>4. \A i \in old : i.ship \notin T
    BY <1>9, <1>17
  <2> HIDE DEF new, old
  <2> QED BY <2>1, <2>2, <2>3, <2>4
<1>19. Placed'
  <2>1. \A j \in items' : \E i \in items : /\ i.ship = j.ship /\ i.manifest = j.manifest
                                           /\ j = IF i \in K THEN handed(i) ELSE i
    BY <1>6, <1>7, <1>11
  <2>2. \A i \in items' : ship'[i.ship].manifest = i.manifest
    BY <1>4, <1>12, <2>1
  <2>3. \A s \in Shipments : ship'[s].manifest # NoManifest => \E i \in items' : i.ship = s
    <3>1. ASSUME NEW i \in items PROVE \E j \in items' : j.ship = i.ship
      BY <1>7, <1>11
    <3> QED BY <1>4, <1>12, <3>1
  <2>4. \A i, j \in items' : i.ship = j.ship => i = j
    BY <1>4, <2>1
  <2> QED BY <2>2, <2>3, <2>4 DEF Placed
<1>20. Counted'
  BY <1>1, <1>2, <1>3, <1>14, <1>15, <1>16 DEF Tidy, Counted
<1>21. Stocked'
  <2>1. transit' <= Cardinality(HandedOver') /\ (single' => transit' = Cardinality(HandedOver'))
    <3>1. HandedOver \in SUBSET Shipments
      BY <1>4 DEF HandedOver
    <3>2. IsFiniteSet(HandedOver) /\ IsFiniteSet(T)
      BY <1>9, <3>1, AllFinite
    <3>3. Cardinality(HandedOver \cup T) =
            Cardinality(HandedOver) + Cardinality(T) - Cardinality(HandedOver \cap T)
      BY <3>2, FS_Union
    <3>4. Cardinality(HandedOver \cap T) = 0
      BY <1>18, FS_EmptySet
    <3>5. Cardinality(HandedOver) \in Nat /\ Cardinality(T) \in Nat
      BY <3>2, FS_CardinalityType
    <3>6. transit <= Cardinality(HandedOver) /\ (single => transit = Cardinality(HandedOver))
      BY <1>1 DEF Tidy, Stocked
    <3>7. Cardinality(HandedOver') = Cardinality(HandedOver \cup T)
      BY <1>18
    <3> QED BY <1>10, <3>3, <3>4, <3>5, <3>6, <3>7
  <2>2. \A i \in items' : i.handed <=> manifest'[i.manifest].status = "HANDED_OVER"
    <3>1. ASSUME NEW i \in items \ K PROVE i.handed <=> manifest'[i.manifest].status = "HANDED_OVER"
      BY <1>1, <1>4, <1>5, <1>14 DEF Tidy, Stocked
    <3>2. ASSUME NEW i \in K PROVE manifest'[handed(i).manifest].status = "HANDED_OVER"
      BY <1>5, <1>6, <1>11, <1>14
    <3> QED BY <1>7, <1>11, <3>1, <3>2
  <2>3. \A i \in items' : i.handed => order'[ship'[i.ship].order] # "PACKED"
    <3>1. ASSUME NEW i \in items \ K, i.handed PROVE order'[ship'[i.ship].order] # "PACKED"
      <4>1. order[ship[i.ship].order] # "PACKED" /\ i.ship \in Shipments
        BY <1>1, <1>4, <3>1 DEF Tidy, Stocked
      <4>2. ship[i.ship].order \in Orders
        <5>1. ship[i.ship] # NoRow
          BY <1>4, DispatchAssumption DEF NoRow
        <5> QED BY <1>1, <4>1, <5>1 DEF Tidy, Owned
      <4> QED BY <1>12, <1>13, <4>1, <4>2
    <3>2. ASSUME NEW i \in K PROVE order'[ship'[handed(i).ship].order] # "PACKED"
      BY <1>4, <1>6, <1>9, <1>11, <1>12, <1>13
    <3> QED BY <1>7, <3>1, <3>2
  <2> QED BY <2>1, <2>2, <2>3 DEF Stocked
<1>22. Owned'
  BY <1>1, <1>9, <1>12 DEF Tidy, Owned
<1> QED BY <1>19, <1>20, <1>21, <1>22 DEF Tidy

(* A request begins. *)
LEMMA LoadAlone ==
  ASSUME AInv, single' = single, NEW r \in Requests, Load(r)
  PROVE  UpToDate(r)'
<1>1. /\ TypeOK /\ view \in [Requests -> Views] /\ pc \in [Requests -> Steps]
      /\ UNCHANGED <<tables, locks>> /\ view[r].taken = 0
  BY DEF AInv, TInv, TypeOK, Load, UpToDate, InPlace
<1>2. ASSUME NEW o \in Orders, LoadOrder(r, o) PROVE UpToDate(r)'
  <2>1. view'[r].op = "create" /\ view'[r].order = o /\ pc'[r] = "write"
    BY <1>1, <1>2 DEF LoadOrder, Goto, Views
  <2> QED BY <2>1 DEF UpToDate, InPlace, ShipmentRead, ListRead, ItemsRead, StockRead, ShipmentOps,
          ManifestOps
<1>3. ASSUME NEW op \in ShipmentOps, NEW s \in Shipments, LoadShipment(r, op, s) PROVE UpToDate(r)'
  <2>1. /\ view'[r].op = op /\ view'[r].ship = {s} /\ ship[s] # NoRow
        /\ pc'[r] \in {"number", "order", "write"} /\ (pc'[r] = "number" => op = "awb")
    BY <1>1, <1>3 DEF LoadShipment, Goto, Views, Permitted
  <2>2. ship' = ship
    BY <1>1 DEF tables
  <2>3. op \in {"pack", "awb", "deliver", "rto"}
    BY DEF ShipmentOps
  <2>4. InPlace(r)'
    BY <2>1, <2>3 DEF InPlace
  <2>5. ShipmentRead(r)'
    BY <2>1, <2>2, <2>3 DEF ShipmentRead
  <2>6. ListRead(r)'
    BY <2>1, <2>3 DEF ListRead, ManifestOps
  <2>7. ItemsRead(r)' /\ StockRead(r)'
    BY <2>1, <2>3 DEF ItemsRead, StockRead
  <2> QED BY <2>4, <2>5, <2>6, <2>7 DEF UpToDate
<1>4. ASSUME NEW op \in ManifestOps, NEW m \in Manifests, LoadManifest(r, op, m) PROVE UpToDate(r)'
  <2>1. /\ view'[r].op = op /\ view'[r].manifest = m /\ view'[r].loaded = manifest[m]
        /\ OpenFor(op, manifest[m]) /\ pc'[r] = IF op = "confirm" THEN "write" ELSE "select"
        /\ view'[r].taken = 0
    BY <1>1, <1>4 DEF LoadManifest, Goto, Views
  <2>2. manifest' = manifest
    BY <1>1 DEF tables
  <2>3. InPlace(r)' /\ ShipmentRead(r)'
    BY <2>1 DEF InPlace, ShipmentRead, ShipmentOps, ManifestOps
  <2>4. ListRead(r)'
    BY <2>1, <2>2 DEF ListRead, ManifestOps, OpenFor
  <2>5. ItemsRead(r)' /\ StockRead(r)'
    BY <2>1 DEF ItemsRead, StockRead, ManifestOps
  <2> QED BY <2>3, <2>4, <2>5 DEF UpToDate
<1>5. ASSUME view' = [view EXCEPT ![r].op = "outside"], Goto(r, "number") PROVE UpToDate(r)'
  <2>1. view'[r].op = "outside" /\ pc'[r] = "number"
    BY <1>1, <1>5 DEF Goto, Views
  <2> QED BY <2>1 DEF UpToDate, InPlace, ShipmentRead, ListRead, ItemsRead, StockRead, ShipmentOps,
          ManifestOps
<1> QED BY <1>2, <1>3, <1>4, <1>5 DEF Load

(* A request reads on, before it has come to any item. *)
LEMMA ReadAlone ==
  ASSUME AInv, single' = single, NEW r \in Requests,
         ReadSequence(r) \/ ReadOrder(r) \/ SelectShipments(r) \/ SelectItems(r)
  PROVE  UpToDate(r)'
<1>1. /\ TypeOK /\ view \in [Requests -> Views] /\ pc \in [Requests -> Steps] /\ UpToDate(r)
      /\ UNCHANGED tables
  BY DEF AInv, TInv, TypeOK, ReadSequence, ReadOrder, SelectShipments, SelectItems
<1>2. UNCHANGED <<ship, manifest, items, order, transit>>
  BY <1>1 DEF tables
<1>3. ASSUME ReadSequence(r) \/ ReadOrder(r) PROVE UpToDate(r)'
  <2>1. view[r].op \in {"awb", "outside", "deliver"}
    BY <1>1, <1>3 DEF ReadSequence, ReadOrder, UpToDate, InPlace
  <2>2. pc'[r] = "write" /\ view'[r].op = view[r].op /\ view'[r].ship = view[r].ship
    <3>1. CASE ReadSequence(r)
      BY <1>1, <3>1 DEF ReadSequence, Goto, Views
    <3>2. CASE ReadOrder(r)
      BY <1>1, <3>2 DEF ReadOrder, Goto, Views
    <3> QED BY <1>3, <3>1, <3>2
  <2> QED BY <1>1, <1>2, <2>1, <2>2 DEF UpToDate, InPlace, ShipmentRead, ListRead, ItemsRead,
          StockRead, ShipmentOps, ManifestOps
<1>4. ASSUME SelectShipments(r) PROVE UpToDate(r)'
  <2> DEFINE able == {s \in Shipments : Addable(s)}
  <2>1. PICK S \in (SUBSET able) \ {{}} : view' = [view EXCEPT ![r].ship = S]
    BY <1>4 DEF SelectShipments
  <2>2. /\ view[r].op = "add" /\ view'[r].op = "add" /\ view'[r].ship = S /\ pc'[r] = "write"
        /\ view'[r].manifest = view[r].manifest /\ view'[r].loaded = view[r].loaded
    BY <1>1, <1>4, <2>1 DEF SelectShipments, Goto, Views
  <2>3. InPlace(r)' /\ ItemsRead(r)' /\ StockRead(r)'
    BY <2>2 DEF InPlace, ItemsRead, StockRead
  <2>4. ShipmentRead(r)'
    <3>1. S # {} /\ \A s \in S : Addable(s)
      <4>1. \A s \in able : Addable(s)
        OBVIOUS
      <4> HIDE DEF able
      <4> QED BY <4>1
    <3>2. \A s \in S : Addable(s)'
      BY <1>2, <3>1 DEF Addable
    <3> QED BY <2>2, <3>1, <3>2 DEF ShipmentRead, ShipmentOps
  <2>5. ListRead(r)'
    BY <1>1, <1>2, <2>2 DEF UpToDate, ListRead, ManifestOps
  <2> QED BY <2>3, <2>4, <2>5 DEF UpToDate
<1>5. ASSUME SelectItems(r) PROVE UpToDate(r)'
  <2>1. PICK S \in SUBSET items :
          /\ view' = [view EXCEPT ![r].items = S, ![r].todo = S]
          /\ \/ view[r].op = "remove" /\ pc'[r] = "item" /\ S \subseteq On(view[r].manifest)
             \/ /\ view[r].op = "scan" /\ pc'[r] = "write"
                /\ \E i \in On(view[r].manifest) : ~ i.scanned /\ S = {i}
             \/ view[r].op = "handover" /\ pc'[r] = "item" /\ S = On(view[r].manifest)
    <3> DEFINE mine == {i \in items : i.manifest = view[r].manifest}
               Use(set) == view' = [view EXCEPT ![r].items = set, ![r].todo = set]
    <3>0. mine = On(view[r].manifest) /\ mine \in SUBSET items
      BY DEF On
    <3>1. CASE /\ view[r].op = "remove" /\ Goto(r, "item")
               /\ \E S \in SUBSET Shipments : Use({i \in mine : i.ship \in S /\ ~ i.handed})
      <4>1. PICK S \in SUBSET Shipments : Use({i \in mine : i.ship \in S /\ ~ i.handed})
        BY <3>1
      <4>2. {i \in mine : i.ship \in S /\ ~ i.handed} \subseteq mine
        OBVIOUS
      <4>3. pc'[r] = "item"
        BY <1>1, <3>1 DEF Goto
      <4> QED BY <3>0, <3>1, <4>1, <4>2, <4>3
    <3>2. CASE /\ view[r].op = "scan" /\ Goto(r, "write")
               /\ \E i \in mine : ~ i.scanned /\ Use({i})
      BY <1>1, <3>0, <3>2 DEF Goto
    <3>3. CASE view[r].op = "handover" /\ Use(mine) /\ Goto(r, "item")
      BY <1>1, <3>0, <3>3 DEF Goto
    <3> QED BY <1>5, <3>1, <3>2, <3>3 DEF SelectItems
  <2>2. /\ view'[r].op = view[r].op /\ view'[r].items = S /\ view'[r].todo = S
        /\ view'[r].manifest = view[r].manifest /\ view'[r].loaded = view[r].loaded
        /\ view'[r].taken = 0
    <3>1. view[r].taken = 0
      BY <1>1, <1>5 DEF SelectItems, UpToDate, InPlace
    <3> QED BY <1>1, <2>1, <3>1 DEF Views
  <2>3. Gone(r)' = {} /\ Cardinality(Gone(r)') = 0
    BY <2>2, FS_EmptySet DEF Gone
  <2>4. \A m : On(m)' = On(m)
    BY <1>2 DEF On
  <2>5. InPlace(r)' /\ ShipmentRead(r)'
    BY <2>1, <2>2 DEF InPlace, ShipmentRead, ShipmentOps
  <2>6. ListRead(r)'
    BY <1>1, <1>2, <2>1, <2>2, <2>4 DEF UpToDate, ListRead, ManifestOps
  <2>7. ItemsRead(r)'
    BY <2>2, <2>3 DEF ItemsRead
  <2>8. StockRead(r)'
    BY <2>1, <2>2, <2>3 DEF StockRead, OrdersRead, Deducted
  <2> QED BY <2>5, <2>6, <2>7, <2>8 DEF UpToDate
<1> QED BY <1>3, <1>4, <1>5

(* A removal or a handover comes to an item: what it has of the items      *)
(* before stays as it was, and what it keeps of this one is its row.       *)
LEMMA NextItem ==
  ASSUME AInv, single' = single, NEW r \in Requests, NEW i \in view[r].todo, pc[r] = "item",
         view[r].op \in {"remove", "handover"},
         view'[r].op = view[r].op, view'[r].manifest = view[r].manifest,
         view'[r].loaded = view[r].loaded, view'[r].items = view[r].items,
         view'[r].rows = Read(r, i.ship), view'[r].todo = view[r].todo \ {i},
         pc'[r] \in {"item", "order"}, pc'[r] = "order" => view[r].op = "handover",
         UNCHANGED tables
  PROVE  /\ i \in items /\ i \notin Gone(r) /\ Gone(r)' = Gone(r) \cup {i}
         /\ InPlace(r)' /\ ShipmentRead(r)' /\ ListRead(r)' /\ ItemsRead(r)'
<1>1. /\ TypeOK /\ view[r] \in Views /\ UpToDate(r) /\ Tidy
      /\ UNCHANGED <<ship, manifest, items, order, transit>>
  BY DEF AInv, TInv, TypeOK, tables
<1>2. view[r].todo \subseteq view[r].items /\ view[r].items \subseteq On(view[r].manifest)
  BY <1>1 DEF UpToDate, ItemsRead, ListRead
<1>3. i \in items /\ i \notin Gone(r) /\ Gone(r)' = Gone(r) \cup {i}
  BY <1>2 DEF Gone, On
<1>4. \A m : On(m)' = On(m)
  BY <1>1 DEF On
<1>5. InPlace(r)' /\ ShipmentRead(r)'
  BY DEF InPlace, ShipmentRead, ShipmentOps
<1>6. ListRead(r)'
  BY <1>1, <1>4 DEF UpToDate, ListRead, ManifestOps
<1>7. ItemsRead(r)'
  <2>1. \A j \in items : j.ship \in Shipments
    BY <1>1 DEF TypeOK, Items
  <2>2. Gone(r) \subseteq items
    BY <1>2 DEF Gone, On
  <2>3. \A j \in Gone(r) : view[r].rows[j.ship] = ship[j.ship]
    BY <1>1 DEF UpToDate, ItemsRead
  <2>4. view[r].rows \in [Shipments -> ShipmentRows]
    BY <1>1 DEF Views
  <2>5. \A j \in Gone(r) \cup {i} : Read(r, i.ship)[j.ship] = ship[j.ship]
    <3>1. CASE \E j \in Gone(r) : j.ship = i.ship
      BY <2>3, <3>1 DEF Read
    <3>2. CASE ~ \E j \in Gone(r) : j.ship = i.ship
      <4>1. Read(r, i.ship) = [view[r].rows EXCEPT ![i.ship] = ship[i.ship]]
        BY <3>2 DEF Read
      <4> QED BY <1>3, <2>1, <2>2, <2>3, <2>4, <4>1
    <3> QED BY <3>1, <3>2
  <2>6. \A j \in Gone(r)' : view'[r].rows[j.ship] = ship'[j.ship]
    BY <1>1, <1>3, <2>5
  <2>7. view'[r].todo \subseteq view'[r].items
    BY <1>2
  <2> QED BY <2>6, <2>7 DEF ItemsRead
<1> QED BY <1>3, <1>5, <1>6, <1>7

LEMMA RemoveItemAlone ==
  ASSUME AInv, single' = single, NEW r \in Requests, RemoveItem(r)
  PROVE  UpToDate(r)'
<1>1. view \in [Requests -> Views] /\ pc \in [Requests -> Steps] /\ UNCHANGED tables
  BY DEF AInv, TInv, TypeOK, RemoveItem
<1>2. PICK i \in view[r].todo :
        view' = [view EXCEPT ![r].rows = Read(r, i.ship), ![r].todo = @ \ {i}]
  BY DEF RemoveItem
<1>3. /\ view'[r].op = view[r].op /\ view'[r].manifest = view[r].manifest
      /\ view'[r].loaded = view[r].loaded /\ view'[r].items = view[r].items
      /\ view'[r].rows = Read(r, i.ship) /\ view'[r].todo = view[r].todo \ {i}
  BY <1>1, <1>2 DEF Views
<1>4. view[r].op = "remove" /\ pc[r] = "item" /\ pc'[r] = "item"
  BY DEF RemoveItem
<1>5. InPlace(r)' /\ ShipmentRead(r)' /\ ListRead(r)' /\ ItemsRead(r)'
  BY <1>1, <1>3, <1>4, NextItem
<1>6. StockRead(r)'
  BY <1>3, <1>4 DEF StockRead
<1> QED BY <1>5, <1>6 DEF UpToDate

LEMMA HandItemAlone ==
  ASSUME AInv, single' = single, NEW r \in Requests, HandItem(r)
  PROVE  UpToDate(r)'
<1>1. /\ TypeOK /\ view \in [Requests -> Views] /\ pc \in [Requests -> Steps] /\ UpToDate(r)
      /\ UNCHANGED tables /\ UNCHANGED <<ship, order, transit>>
  BY DEF AInv, TInv, TypeOK, HandItem, tables
<1>2. PICK i \in view[r].todo :
        view' = [view EXCEPT ![r].ship = {i.ship}, ![r].rows = Read(r, i.ship), ![r].todo = @ \ {i}]
  BY DEF HandItem
<1>3. /\ view'[r].op = view[r].op /\ view'[r].manifest = view[r].manifest
      /\ view'[r].loaded = view[r].loaded /\ view'[r].items = view[r].items
      /\ view'[r].rows = Read(r, i.ship) /\ view'[r].todo = view[r].todo \ {i}
      /\ view'[r].ship = {i.ship} /\ view'[r].orders = view[r].orders
      /\ view'[r].transit = view[r].transit /\ view'[r].taken = view[r].taken
  BY <1>1, <1>2 DEF Views
<1>4. view[r].op = "handover" /\ pc[r] = "item" /\ pc'[r] = "order"
  BY <1>1 DEF HandItem, Goto
<1>5. /\ i \in items /\ i \notin Gone(r) /\ Gone(r)' = Gone(r) \cup {i}
      /\ InPlace(r)' /\ ShipmentRead(r)' /\ ListRead(r)' /\ ItemsRead(r)'
  BY <1>1, <1>3, <1>4, NextItem
<1>6. OrdersRead(view[r], Gone(r)) /\ Deducted(view[r], Cardinality(Gone(r)))
  BY <1>1, <1>4 DEF UpToDate, StockRead
<1>7. OrdersRead(view[r], Gone(r) \ {i})'
  <2>1. Gone(r)' \ {i} = Gone(r)
    BY <1>5
  <2> QED BY <1>1, <1>3, <1>6, <2>1 DEF OrdersRead
<1>8. Deducted(view[r], Cardinality(Gone(r)) - 1)'
  <2>1. Gone(r) \in SUBSET Items
    BY <1>1 DEF Gone, Views
  <2>2. IsFiniteSet(Gone(r)) /\ Cardinality(Gone(r)) \in Nat
    BY <2>1, AllFinite, FS_CardinalityType
  <2>3. Cardinality(Gone(r)') = Cardinality(Gone(r)) + 1
    BY <1>5, <2>2, FS_AddElement
  <2>4. Cardinality(Gone(r)') - 1 = Cardinality(Gone(r))
    BY <2>2, <2>3
  <2> QED BY <1>1, <1>3, <1>6, <2>4 DEF Deducted
<1>9. StockRead(r)'
  <2>1. i \in Gone(r)'
    BY <1>5
  <2> QED BY <1>3, <1>4, <1>7, <1>8, <2>1 DEF StockRead
<1> QED BY <1>5, <1>9 DEF UpToDate

LEMMA HandOrderAlone ==
  ASSUME AInv, single' = single, NEW r \in Requests, HandOrder(r)
  PROVE  UpToDate(r)'
<1>1. /\ TypeOK /\ view \in [Requests -> Views] /\ pc \in [Requests -> Steps] /\ UpToDate(r)
      /\ Tidy /\ UNCHANGED <<ship, manifest, items, order, transit>>
  BY DEF AInv, TInv, TypeOK, HandOrder, tables
<1>2. view[r].op = "handover" /\ pc[r] = "order" /\ pc'[r] = "stock"
  BY <1>1 DEF HandOrder, Goto
<1>3. PICK k \in Gone(r) :
        /\ view[r].ship = {k.ship} /\ OrdersRead(view[r], Gone(r) \ {k})
        /\ Deducted(view[r], Cardinality(Gone(r)) - 1)
  <2>1. pc[r] \in {"order", "stock"}
    BY <1>2
  <2>2. \E k \in Gone(r) :
          /\ view[r].ship = {k.ship}
          /\ OrdersRead(view[r], IF pc[r] = "order" THEN Gone(r) \ {k} ELSE Gone(r))
          /\ Deducted(view[r], Cardinality(Gone(r)) - 1)
    BY <1>1, <1>2, <2>1 DEF UpToDate, StockRead
  <2> QED BY <1>2, <2>2
<1>4. /\ Gone(r) \subseteq items /\ \A i \in items : i.ship \in Shipments /\ i.manifest \in Manifests
      /\ \A i \in Gone(r) : view[r].rows[i.ship] = ship[i.ship]
      /\ \A i \in items : ship[i.ship].manifest = i.manifest
      /\ \A i, j \in items : i.ship = j.ship => i = j
  <2>1. view[r].items = On(view[r].manifest) /\ \A i \in Gone(r) : view[r].rows[i.ship] = ship[i.ship]
    BY <1>1, <1>2 DEF UpToDate, ListRead, ItemsRead
  <2>2. Gone(r) \subseteq items
    BY <2>1 DEF Gone, On
  <2> QED BY <1>1, <2>1, <2>2 DEF TypeOK, Items, Tidy, Placed
<1> DEFINE o == view[r].rows[k.ship].order
           known == o \in {view[r].rows[i.ship].order : i \in {j \in Gone(r) : j.ship # k.ship}}
           read == [view[r].orders EXCEPT ![o] = IF known THEN @ ELSE order[o]]
<1>5. view' = [view EXCEPT ![r].order = o, ![r].orders[o] = IF known THEN @ ELSE order[o]]
  <2>1. PICK s \in view[r].ship :
          LET p == view[r].rows[s].order IN
          view' = [view EXCEPT ![r].order = p, ![r].orders[p] =
            IF p \in {view[r].rows[i.ship].order : i \in {j \in Gone(r) : j.ship # s}}
            THEN @ ELSE order[p]]
    BY DEF HandOrder
  <2>2. s = k.ship
    BY <1>3
  <2> QED BY <2>1, <2>2
<1>6. o = ship[k.ship].order /\ o \in Orders
  <2>1. ship[k.ship] # NoRow
    BY <1>3, <1>4, DispatchAssumption DEF NoRow
  <2> QED BY <1>1, <1>3, <1>4, <2>1 DEF Tidy, Owned
<1>7. known => view[r].orders[o] = order[o]
  <2>1. ASSUME known PROVE view[r].orders[o] = order[o]
    <3>1. PICK i \in Gone(r) : i.ship # k.ship /\ view[r].rows[i.ship].order = o
      BY <2>1
    <3>2. i \in Gone(r) \ {k} /\ ship[i.ship].order = o
      BY <1>4, <3>1
    <3> QED BY <1>3, <3>2 DEF OrdersRead
  <2> QED BY <2>1
<1>8. view[r].orders \in [Orders -> OrderStatuses]
  BY <1>1 DEF Views
<1>9. view' = [view EXCEPT ![r].order = o, ![r].orders = read]
  BY <1>5
<1> HIDE DEF o, known
<1>10. read[o] = order[o] /\ \A p \in Orders \ {o} : read[p] = view[r].orders[p]
  BY <1>6, <1>7, <1>8
<1> HIDE DEF read
<1>11. /\ view'[r].op = view[r].op /\ view'[r].manifest = view[r].manifest
       /\ view'[r].loaded = view[r].loaded /\ view'[r].items = view[r].items
       /\ view'[r].rows = view[r].rows /\ view'[r].todo = view[r].todo
       /\ view'[r].ship = view[r].ship /\ view'[r].orders = read
       /\ view'[r].transit = view[r].transit /\ view'[r].taken = view[r].taken
  BY <1>1, <1>9 DEF Views
<1>12. Gone(r)' = Gone(r)
  BY <1>11 DEF Gone
<1>13. OrdersRead(view[r], Gone(r))'
  <2>1. ASSUME NEW i \in Gone(r) PROVE read[ship[i.ship].order] = order[ship[i.ship].order]
    <3>1. CASE ship[i.ship].order = o
      BY <1>10, <3>1
    <3>2. CASE ship[i.ship].order # o
      <4>1. i \in Gone(r) \ {k}
        BY <1>6, <3>2
      <4>2. view[r].orders[ship[i.ship].order] = order[ship[i.ship].order]
        BY <1>3, <4>1 DEF OrdersRead
      <4>3. ship[i.ship].order \in Orders
        <5>1. ship[i.ship] # NoRow
          BY <1>4, DispatchAssumption DEF NoRow
        <5> QED BY <1>1, <1>4, <5>1 DEF Tidy, Owned
      <4> QED BY <1>10, <3>2, <4>2, <4>3
    <3> QED BY <3>1, <3>2
  <2> QED BY <1>1, <1>11, <1>12, <2>1 DEF OrdersRead
<1>14. InPlace(r)' /\ ShipmentRead(r)'
  BY <1>2, <1>11 DEF InPlace, ShipmentRead, ShipmentOps
<1>15. ListRead(r)' /\ ItemsRead(r)'
  <2>1. \A m : On(m)' = On(m)
    BY <1>1 DEF On
  <2>2. view[r].loaded = manifest[view[r].manifest] /\ OpenFor(view[r].op, view[r].loaded)
          /\ view[r].items = On(view[r].manifest)
    BY <1>1, <1>2 DEF UpToDate, ListRead, ManifestOps
  <2>3. view[r].todo \subseteq view[r].items
    BY <1>1, <1>2 DEF UpToDate, ItemsRead
  <2>4. ListRead(r)'
    BY <1>1, <1>2, <1>11, <2>1, <2>2 DEF ListRead
  <2>5. ItemsRead(r)'
    BY <1>1, <1>4, <1>11, <1>12, <2>3 DEF ItemsRead
  <2> QED BY <2>4, <2>5
<1>16. StockRead(r)'
  BY <1>1, <1>2, <1>3, <1>11, <1>12, <1>13 DEF StockRead, Deducted
<1> QED BY <1>14, <1>15, <1>16 DEF UpToDate

LEMMA HandStockAlone ==
  ASSUME AInv, single' = single, NEW r \in Requests, HandStock(r)
  PROVE  UpToDate(r)'
<1>1. /\ TypeOK /\ view \in [Requests -> Views] /\ pc \in [Requests -> Steps] /\ UpToDate(r)
      /\ UNCHANGED <<ship, manifest, items, order, transit>>
  BY DEF AInv, TInv, TypeOK, HandStock, tables
<1>2. view[r].op = "handover" /\ pc[r] = "stock" /\ pc'[r] = "item"
  BY <1>1 DEF HandStock, Goto, UpToDate, InPlace
<1>3. PICK k \in Gone(r) :
        /\ OrdersRead(view[r], Gone(r))
        /\ Deducted(view[r], Cardinality(Gone(r)) - 1)
  <2>1. pc[r] \in {"order", "stock"}
    BY <1>2
  <2>2. \E k \in Gone(r) :
          /\ view[r].ship = {k.ship}
          /\ OrdersRead(view[r], IF pc[r] = "order" THEN Gone(r) \ {k} ELSE Gone(r))
          /\ Deducted(view[r], Cardinality(Gone(r)) - 1)
    BY <1>1, <1>2, <2>1 DEF UpToDate, StockRead
  <2> QED BY <1>2, <2>2
<1> DEFINE w == [view[r] EXCEPT !.transit = IF view[r].taken = 0 THEN transit ELSE @,
                               !.taken = @ + 1]
           v == IF single THEN w ELSE view[r]
<1>4. v = view'[r]
  BY <1>1 DEF HandStock
<1>5. Deducted(v, Cardinality(Gone(r)))
  <2>1. Gone(r) \in SUBSET Items
    BY <1>1 DEF Gone, Views
  <2>2. Cardinality(Gone(r)) \in Nat /\ view[r].taken \in Nat
    BY <1>1, <2>1, Finite DEF Views
  <2>3. CASE single
    <3>1. v.taken = view[r].taken + 1 /\ v.transit = IF view[r].taken = 0 THEN transit ELSE view[r].transit
      BY <1>1, <2>3 DEF Views
    <3> HIDE DEF v
    <3> QED BY <1>3, <2>2, <2>3, <3>1 DEF Deducted
  <2>4. CASE ~ single
    BY <1>3, <2>2, <2>4 DEF Deducted
  <2> QED BY <2>3, <2>4
<1>6. /\ view'[r].op = view[r].op /\ view'[r].manifest = view[r].manifest
      /\ view'[r].loaded = view[r].loaded /\ view'[r].items = view[r].items
      /\ view'[r].rows = view[r].rows /\ view'[r].todo = view[r].todo
      /\ view'[r].orders = view[r].orders
  BY <1>1, <1>4 DEF Views
<1> HIDE DEF v
<1>7. Gone(r)' = Gone(r)
  BY <1>6 DEF Gone
<1>8. InPlace(r)' /\ ShipmentRead(r)'
  BY <1>2, <1>6 DEF InPlace, ShipmentRead, ShipmentOps
<1>9. ListRead(r)' /\ ItemsRead(r)'
  <2>1. \A m : On(m)' = On(m)
    BY <1>1 DEF On
  <2>2. view[r].loaded = manifest[view[r].manifest] /\ OpenFor(view[r].op, view[r].loaded)
          /\ view[r].items = On(view[r].manifest)
    BY <1>1, <1>2 DEF UpToDate, ListRead, ManifestOps
  <2>3. view[r].todo \subseteq view[r].items
          /\ \A i \in Gone(r) : view[r].rows[i.ship] = ship[i.ship]
    BY <1>1, <1>2 DEF UpToDate, ItemsRead
  <2>4. ListRead(r)'
    BY <1>1, <1>2, <1>6, <2>1, <2>2 DEF ListRead
  <2>5. ItemsRead(r)'
    BY <1>1, <1>6, <1>7, <2>3 DEF ItemsRead
  <2> QED BY <2>4, <2>5
<1>10. StockRead(r)'
  <2>1. Deducted(view[r], Cardinality(Gone(r)))'
    BY <1>1, <1>4, <1>5, <1>7 DEF Deducted
  <2> QED BY <1>1, <1>2, <1>3, <1>6, <1>7, <2>1 DEF StockRead, OrdersRead
<1> QED BY <1>8, <1>9, <1>10 DEF UpToDate

LEMMA AloneNext == AInv /\ OneBusy' /\ [Next]_vars => AInv'
<1> SUFFICES ASSUME AInv, OneBusy', [Next]_vars PROVE AInv'
  OBVIOUS
<1>1. ASSUME UNCHANGED vars \/ SecondSummary PROVE AInv'
  <2>1. TInv'
    BY TypeNext DEF AInv
  <2>2. UNCHANGED <<ship, manifest, items, order, transit, pc, view>> /\ (single' => single)
    BY <1>1 DEF vars, tables, SecondSummary
  <2>3. Tidy'
    <3>1. \A m \in Manifests : Carried(m)' = Carried(m) /\ ScannedOn(m)' = ScannedOn(m)
      BY <2>2 DEF Carried, ScannedOn
    <3>2. HandedOver' = HandedOver
      BY <2>2 DEF HandedOver
    <3>3. Placed' /\ Owned'
      BY <2>2 DEF AInv, Tidy, Placed, Owned
    <3>4. Counted'
      BY <2>2, <3>1 DEF AInv, Tidy, Counted
    <3>5. Stocked'
      BY <2>2, <3>2 DEF AInv, Tidy, Stocked
    <3> QED BY <3>3, <3>4, <3>5 DEF Tidy
  <2>4. ASSUME NEW r \in Requests PROVE UpToDate(r)'
    <3>1. UpToDate(r) /\ Gone(r)' = Gone(r) /\ \A m : On(m)' = On(m)
      BY <2>2 DEF AInv, Gone, On
    <3>2. InPlace(r)' /\ ShipmentRead(r)'
      BY <2>2, <3>1 DEF UpToDate, InPlace, ShipmentRead, Addable
    <3>3. ListRead(r)' /\ ItemsRead(r)'
      BY <2>2, <3>1 DEF UpToDate, ListRead, ItemsRead
    <3>4. StockRead(r)'
      BY <2>2, <3>1 DEF UpToDate, StockRead, OrdersRead, Deducted
    <3> QED BY <3>2, <3>3, <3>4 DEF UpToDate
  <2> QED BY <2>1, <2>3, <2>4 DEF AInv
<1>2. ASSUME NEW r \in Requests, Step(r), single' = single PROVE AInv'
  <2>1. ASSUME UNCHANGED tables, UpToDate(r)' PROVE AInv'
    BY <1>2, <2>1, AloneGoesOn
  <2>2. ASSUME Done(r), Tidy' PROVE AInv'
    BY <1>2, <2>2, AloneEnds
  <2>3. CASE Load(r)
    BY <1>2, <2>1, <2>3, LoadAlone DEF Load
  <2>4. CASE ReadSequence(r) \/ ReadOrder(r) \/ SelectShipments(r) \/ SelectItems(r)
    <3>1. UNCHANGED tables
      BY <2>4 DEF ReadSequence, ReadOrder, SelectShipments, SelectItems
    <3> QED BY <1>2, <2>1, <2>4, <3>1, ReadAlone
  <2>5. CASE RemoveItem(r)
    BY <1>2, <2>1, <2>5, RemoveItemAlone DEF RemoveItem
  <2>6. CASE HandItem(r)
    BY <1>2, <2>1, <2>6, HandItemAlone DEF HandItem
  <2>7. CASE HandOrder(r)
    BY <1>2, <2>1, <2>7, HandOrderAlone DEF HandOrder
  <2>8. CASE HandStock(r)
    BY <1>2, <2>1, <2>8, HandStockAlone DEF HandStock
  <2>9. CASE Fail(r) \/ NumberOutside(r)
    <3>1. Done(r) /\ UNCHANGED <<ship, manifest, items, order, transit>>
      BY <2>9 DEF Fail, NumberOutside, tables
    <3>2. \A i \in items : i.handed => order'[ship'[i.ship].order] # "PACKED"
      BY <3>1 DEF AInv, Tidy, Stocked
    <3>3. Owned' /\ \A s \in Shipments : ship'[s].manifest = ship[s].manifest
      BY <3>1 DEF AInv, Tidy, Owned
    <3> QED BY <1>2, <2>2, <3>1, <3>2, <3>3, SameLists DEF AInv
  <2>10. CASE Create(r) \/ SetStatus(r) \/ Number(r) \/ Deliver(r)
    BY <1>2, <2>2, <2>10, ShipmentTidy DEF Create, SetStatus, Number, Deliver
  <2>11. CASE Add(r)
    BY <1>2, <2>2, <2>11, AddTidy DEF Add
  <2>12. CASE Confirm(r)
    BY <1>2, <2>2, <2>12, ConfirmTidy DEF Confirm
  <2>13. CASE Scan(r)
    BY <1>2, <2>2, <2>13, ScanTidy DEF Scan
  <2>14. CASE Remove(r)
    BY <1>2, <2>2, <2>14, RemoveTidy DEF Remove
  <2>15. CASE HandOver(r)
    BY <1>2, <2>2, <2>15, HandOverTidy DEF HandOver
  <2> QED BY <1>2, <2>3, <2>4, <2>5, <2>6, <2>7, <2>8, <2>9, <2>10, <2>11, <2>12, <2>13, <2>14,
          <2>15 DEF Step
<1> QED BY <1>1, <1>2 DEF Next, AtRest

LEMMA AloneInit == Init => AInv
<1> SUFFICES ASSUME Init PROVE AInv
  OBVIOUS
<1>1. TInv /\ Tidy
  BY TypeInit, TidyInit
<1>2. \A r \in Requests : pc[r] = "idle" /\ view[r].op = "none" /\ view[r].taken = 0
  BY DEF Init, Blank
<1>3. OneBusy
  BY <1>2 DEF OneBusy, Busy
<1> QED BY <1>1, <1>2, <1>3, Idle DEF AInv

(* In a behaviour in which no two requests overlap, AInv holds throughout. *)
AloneInv == mode = "alone" => AInv

LEMMA AloneKept == ModesSpec => []AloneInv
<1>1. ModesInit => AloneInv
  BY AloneInit DEF ModesInit, AloneInv
<1>2. AloneInv /\ [ModesNext]_<<vars, mode>> => AloneInv'
  <2> SUFFICES ASSUME AloneInv, [ModesNext]_<<vars, mode>>, mode' = "alone" PROVE AInv'
    BY DEF AloneInv
  <2>1. mode = "alone" /\ [Next]_vars
    BY DEF ModesNext
  <2>2. AInv
    BY <2>1 DEF AloneInv
  <2>3. OneBusy'
    <3>1. CASE ModesNext
      BY <2>1, <3>1 DEF ModesNext
    <3>2. CASE UNCHANGED <<vars, mode>>
      BY <2>2, <3>2 DEF AInv, OneBusy, Busy, vars
    <3> QED BY <3>1, <3>2
  <2> QED BY <2>1, <2>2, <2>3, AloneNext
<1> QED BY <1>1, <1>2, PTL DEF ModesSpec

(* When requests do not overlap, the manifests, the shipments and the items *)
(* agree after add-shipments, remove-shipments, scans, confirmations and   *)
(* handovers of any shipments in any order, whichever of them fail.        *)
THEOREM AloneManifestsAgree == ModesSpec => []SerialManifestsAgree
<1>1. AloneInv => SerialManifestsAgree
  BY TidyAgrees DEF AloneInv, AInv, SerialManifestsAgree
<1> QED BY <1>1, AloneKept, PTL

(* When requests do not overlap, complete_handover takes each item's unit  *)
(* out of stock once while the product has one summary, and never twice    *)
(* once it has two; handed-over orders are not PACKED again.               *)
THEOREM AloneDeductedOnce == ModesSpec => []SerialDeductedOnce
<1>1. AloneInv => SerialDeductedOnce
  BY TidyAgrees DEF AloneInv, AInv, SerialDeductedOnce
<1> QED BY <1>1, AloneKept, PTL

(* A request that does not overlap sets the sequence to the number after   *)
(* the one it holds now.                                                   *)
ReadNow == \A r \in Requests :
  view[r].op \in {"awb", "outside"} /\ pc[r] = "write" => view[r].number = sequence

LEMMA AloneAheadNext == AInv /\ AwbAhead /\ ReadNow /\ OneBusy' /\ [Next]_vars => AwbAhead' /\ ReadNow'
<1> SUFFICES ASSUME AInv, AwbAhead, ReadNow, OneBusy', [Next]_vars PROVE AwbAhead' /\ ReadNow'
  OBVIOUS
<1>1. /\ TInv /\ sequence \in Nat /\ view \in [Requests -> Views] /\ pc \in [Requests -> Steps]
      /\ \A s \in Shipments : ship[s] \in ShipmentRows /\ ship[s].awb \in Nat
  BY DEF AInv, TInv, TypeOK, ShipmentRows
<1>2. ASSUME UNCHANGED vars \/ SecondSummary PROVE AwbAhead' /\ ReadNow'
  BY <1>2 DEF AwbAhead, ReadNow, vars, tables, SecondSummary
<1>3. ASSUME NEW r \in Requests, Step(r) PROVE AwbAhead' /\ ReadNow'
  <2>1. \A q \in Requests \ {r} : view'[q] = view[q] /\ pc'[q] = pc[q]
    BY <1>1, <1>3, OneActs
  <2>2. ASSUME Number(r) \/ NumberOutside(r) PROVE AwbAhead' /\ ReadNow'
    <3>1. view[r].number = sequence /\ sequence' = sequence + 1 /\ Done(r) /\ pc[r] = "write"
      BY <2>2 DEF Number, NumberOutside, ReadNow
    <3>2. \A s \in Shipments : ship'[s].awb \in {ship[s].awb, sequence}
      <4>1. CASE Number(r)
        <5>1. PICK s \in view[r].ship, status \in {Changed("READY_FOR_PICKUP",
                  view[r].rows[t].status, ship[t].status) : t \in view[r].ship} :
                ship' = [ship EXCEPT ![s].awb = view[r].number, ![s].status = status]
          BY <4>1 DEF Number
        <5> QED BY <1>1, <3>1, <5>1 DEF AInv, TInv, TypeOK, ShipmentRows
      <4>2. CASE NumberOutside(r)
        BY <4>2 DEF NumberOutside
      <4> QED BY <2>2, <4>1, <4>2
    <3>3. AwbAhead'
      BY <1>1, <3>1, <3>2 DEF AwbAhead
    <3>4. pc'[r] = "idle"
      BY <1>1, <3>1 DEF Done, Goto
    <3>5. \A q \in Requests \ {r} : pc[q] = "idle"
      BY <3>1 DEF AInv, OneBusy, Busy
    <3>6. \A q \in Requests : pc'[q] # "write"
      BY <2>1, <3>4, <3>5
    <3> QED BY <3>3, <3>6 DEF ReadNow
  <2>3. ASSUME ~ Number(r), ~ NumberOutside(r) PROVE AwbAhead' /\ ReadNow'
    <3>1. sequence' = sequence /\ \A s \in Shipments : ship'[s].awb = ship[s].awb
      BY <1>1, <1>3, <2>3, NumbersStay
    <3>2. view'[r].op \in {"awb", "outside"} /\ pc'[r] = "write" => view'[r].number = sequence
      <4>1. ASSUME Done(r) PROVE pc'[r] = "idle"
        BY <1>1, <4>1 DEF Done, Goto
      <4>2. CASE Load(r)
        <5>1. CASE \E o \in Orders : LoadOrder(r, o)
          BY <1>1, <5>1 DEF LoadOrder, Views
        <5>2. CASE \E op \in ShipmentOps, s \in Shipments : LoadShipment(r, op, s)
          <6>1. PICK op \in ShipmentOps, s \in Shipments : LoadShipment(r, op, s)
            BY <5>2
          <6>2. view'[r].op = op /\ (op = "awb" => pc'[r] = "number") /\ op # "outside"
            BY <1>1, <6>1 DEF LoadShipment, Goto, Views, ShipmentOps
          <6> QED BY <6>2
        <5>3. CASE \E op \in ManifestOps, m \in Manifests : LoadManifest(r, op, m)
          BY <1>1, <5>3 DEF LoadManifest, Views, ManifestOps
        <5>4. CASE view' = [view EXCEPT ![r].op = "outside"] /\ Goto(r, "number")
          BY <1>1, <5>4 DEF Goto, Views
        <5> QED BY <4>2, <5>1, <5>2, <5>3, <5>4 DEF Load
      <4>3. CASE ReadSequence(r)
        BY <1>1, <4>3 DEF ReadSequence, Views
      <4>4. CASE ReadOrder(r)
        BY <1>1, <4>4 DEF ReadOrder, Views
      <4>5. CASE SelectShipments(r)
        BY <1>1, <4>5 DEF SelectShipments, Views
      <4>6. CASE SelectItems(r)
        <5>1. PICK S \in SUBSET items : view' = [view EXCEPT ![r].items = S, ![r].todo = S]
          BY <4>6 DEF SelectItems
        <5>2. view[r].op \notin {"awb", "outside"}
          BY <4>6 DEF SelectItems
        <5> QED BY <1>1, <5>1, <5>2 DEF Views
      <4>7. CASE RemoveItem(r) \/ HandItem(r) \/ HandOrder(r) \/ HandStock(r)
        BY <1>1, <4>7 DEF RemoveItem, HandItem, HandOrder, HandStock, Goto
      <4>8. CASE Fail(r) \/ Create(r) \/ SetStatus(r) \/ Deliver(r) \/ Add(r) \/ Confirm(r)
                   \/ Scan(r) \/ Remove(r) \/ HandOver(r)
        <5>1. Done(r)
          BY <4>8 DEF Fail, Create, SetStatus, Deliver, Add, Confirm, Scan, Remove, HandOver
        <5> QED BY <4>1, <5>1
      <4> QED BY <1>3, <2>3, <4>2, <4>3, <4>4, <4>5, <4>6, <4>7, <4>8 DEF Step
    <3>3. AwbAhead'
      BY <3>1 DEF AwbAhead
    <3>4. ReadNow'
      BY <2>1, <3>1, <3>2 DEF ReadNow
    <3> QED BY <3>3, <3>4
  <2> QED BY <2>2, <2>3
<1> QED BY <1>2, <1>3 DEF Next, AtRest

(* In both modes, and with the carrier's own generate-awb where requests   *)
(* do not overlap, the carrier's next number is above every number given.  *)
THEOREM ModesStayAhead == ModesSpec => []AwbAhead
<1> DEFINE Ahead == /\ mode \in {"alone", "numbers"}
                    /\ mode = "alone" => AInv /\ AwbAhead /\ ReadNow
                    /\ mode = "numbers" => NInv /\ NumberedApart
<1>1. ModesInit => Ahead
  <2> SUFFICES ASSUME ModesInit PROVE Ahead
    OBVIOUS
  <2>1. NInv /\ AInv /\ mode \in {"alone", "numbers"}
    BY NumbersInit, AloneInit DEF ModesInit
  <2>2. AwbAhead /\ ReadNow /\ NumberedApart
    <3>1. \A r \in Requests : view[r].op = "none"
      BY DEF ModesInit, Init, Blank
    <3> QED BY <2>1, <3>1 DEF NInv, ReadNow, NumberedApart
  <2> QED BY <2>1, <2>2
<1>2. Ahead /\ [ModesNext]_<<vars, mode>> => Ahead'
  <2> SUFFICES ASSUME Ahead, [ModesNext]_<<vars, mode>> PROVE Ahead'
    OBVIOUS
  <2>1. mode' = mode /\ mode \in {"alone", "numbers"} /\ [Next]_vars
    BY DEF ModesNext
  <2>2. CASE mode = "alone"
    <3>1. AInv /\ AwbAhead /\ ReadNow
      BY <2>2
    <3>2. OneBusy'
      <4>1. CASE ModesNext
        BY <2>2, <4>1 DEF ModesNext
      <4>2. CASE UNCHANGED <<vars, mode>>
        BY <3>1, <4>2 DEF AInv, OneBusy, Busy, vars
      <4> QED BY <4>1, <4>2
    <3>3. AInv' /\ AwbAhead' /\ ReadNow'
      BY <2>1, <3>1, <3>2, AloneNext, AloneAheadNext
    <3> QED BY <2>1, <2>2, <3>3
  <2>3. CASE mode = "numbers"
    <3>1. NInv /\ NumberedApart
      BY <2>3
    <3>2. NumberedApart'
      <4>1. CASE ModesNext
        BY <2>3, <4>1 DEF ModesNext
      <4>2. CASE UNCHANGED <<vars, mode>>
        BY <3>1, <4>2 DEF NumberedApart, vars
      <4> QED BY <4>1, <4>2
    <3>3. NInv'
      BY <2>1, <3>1, NumbersNext
    <3> QED BY <2>1, <2>3, <3>2, <3>3
  <2> QED BY <2>1, <2>2, <2>3
<1>3. Ahead => AwbAhead
  BY DEF NInv
<1> QED BY <1>1, <1>2, <1>3, PTL DEF ModesSpec
=============================================================================
