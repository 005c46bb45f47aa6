------------------------------ MODULE Dispatch ------------------------------
(***************************************************************************)
(* Shipments from their creation to the carrier: numbering them with the   *)
(* carrier's air waybill (AWB) sequence, putting them on manifests,        *)
(* scanning, confirming and handing over a manifest, which ships the       *)
(* orders and takes the goods out of stock, and delivering                 *)
(* (app/api/v1/endpoints/shipments.py, manifests.py, transporters.py).     *)
(*                                                                         *)
(* Every request is one READ COMMITTED transaction.  A SELECT sees what is *)
(* committed, and first flushes what the request has changed: the rows are *)
(* locked from then on.  An object once loaded keeps the values it was     *)
(* loaded with; an UPDATE sets the changed columns to values computed from *)
(* them, and fails if the row is gone.  What a request writes is seen by   *)
(* others when it commits, so an endpoint whose SELECTs all come first     *)
(* writes in one step.                                                     *)
(*                                                                         *)
(* One carrier, one warehouse, one product, one unit in each order.  Its   *)
(* stock has a row of inventory_summary, until overlapping acceptances of  *)
(* goods insert another (GoodsReceipt); that is never undone.  The         *)
(* endpoints that cancel a shipment or a manifest, or update either, fail  *)
(* on every call (an unknown status name, an unloaded relationship) and    *)
(* are rolled back, so no shipment is ever CANCELLED or RTO_DELIVERED.     *)
(* A manifest that is not yet created is one nobody has added to.          *)
(***************************************************************************)
EXTENDS Integers, FiniteSets, FiniteSetsExt

CONSTANTS
  Requests,    \* requests that may be under way at once; each serves many
  Orders,      \* orders that are ready to be shipped
  Shipments,   \* rows of shipments
  Manifests,   \* rows of manifests
  NoOrder,     \* the order of a shipment that is not created
  NoManifest,  \* manifest_id IS NULL
  Copies,      \* tells items of one shipment on one manifest apart
  MaxSequence, \* bound on the carrier's sequence
  MaxScanned   \* bound on a manifest's scanned_shipments

ASSUME DispatchAssumption ==
  /\ NoOrder \notin Orders /\ NoManifest \notin Manifests
  /\ IsFiniteSet(Shipments) /\ IsFiniteSet(Manifests) /\ IsFiniteSet(Copies)
  /\ Copies \subseteq Nat \ {0} /\ MaxSequence \in Nat \ {0} /\ MaxScanned \in Nat \ {0}

VARIABLES
  ship,      \* shipments
  manifest,  \* manifests
  items,     \* manifest_items
  order,     \* status of each order
  transit,   \* in_transit_quantity of the inventory summary; total_quantity
             \* and allocated_quantity have fallen by the same
  single,    \* the product has one row of inventory_summary, not two
  sequence,  \* awb_sequence_current of the carrier
  locks,     \* rows a running transaction holds
  pc,        \* what each request does next
  view       \* what it has been asked for, has read, and has yet to flush

tables == <<ship, manifest, items, order, transit, sequence>>
vars   == <<tables, single, locks, pc, view>>

ShipmentStatuses == {"NONE", "CREATED", "PACKED", "READY_FOR_PICKUP", "MANIFESTED", "PICKED_UP",
                     "DELIVERED", "RTO_INITIATED"}
ManifestStatuses == {"DRAFT", "PENDING", "CONFIRMED", "HANDED_OVER"}
OrderStatuses    == {"PACKED", "SHIPPED", "DELIVERED"}
ShipmentOps      == {"pack", "awb", "deliver", "rto"}
ManifestOps      == {"add", "remove", "scan", "confirm", "handover"}
Ops              == {"none", "create", "outside"} \cup ShipmentOps \cup ManifestOps
Steps            == {"idle", "select", "number", "order", "item", "stock", "write"}

ShipmentRows == [order : Orders \cup {NoOrder}, status : ShipmentStatuses, awb : Nat,
                 manifest : Manifests \cup {NoManifest}]
ManifestRows == [status : ManifestStatuses, total : Int, scanned : Nat]
Items        == [manifest : Manifests, ship : Shipments, copy : Copies, scanned : BOOLEAN,
                 handed : BOOLEAN]
Views        == [op : Ops, order : Orders \cup {NoOrder}, ship : SUBSET Shipments,
                 manifest : Manifests \cup {NoManifest}, loaded : ManifestRows, number : Nat,
                 rows : [Shipments -> ShipmentRows], items : SUBSET Items,
                 todo : SUBSET Items, orders : [Orders -> OrderStatuses], transit : Int,
                 taken : Nat]

NoRow   == [order |-> NoOrder, status |-> "NONE", awb |-> 0, manifest |-> NoManifest]
NewList == [status |-> "DRAFT", total |-> 0, scanned |-> 0]
Blank   == [op |-> "none", order |-> NoOrder, ship |-> {}, manifest |-> NoManifest,
            loaded |-> NewList, number |-> 0, rows |-> [s \in Shipments |-> NoRow],
            items |-> {}, todo |-> {}, orders |-> [o \in Orders |-> "PACKED"], transit |-> 0,
            taken |-> 0]

Init ==
  /\ ship = [s \in Shipments |-> NoRow] /\ manifest = [m \in Manifests |-> NewList]
  /\ items = {} /\ order = [o \in Orders |-> "PACKED"]
  /\ transit = 0 /\ sequence = 1 /\ single = TRUE
  /\ locks = {} /\ pc = [r \in Requests |-> "idle"] /\ view = [r \in Requests |-> Blank]

-----------------------------------------------------------------------------
Goto(r, step) == pc' = [pc EXCEPT ![r] = step]

Free(r, things) == \A q \in Requests, thing \in things : <<thing, q>> \in locks => q = r
Take(r, things) == Free(r, things) /\ locks' = locks \cup (things \X {r})

ShipRow(s)  == <<"shipment", s>>
ListRow(m)  == <<"manifest", m>>
ItemRow(i)  == <<"item", <<i.manifest, i.ship, i.copy>>>>
OrderRow(o) == <<"order", o>>
Sequence    == <<"carrier", 0>>
Summary     == <<"summary", 0>>

(* The row of item i is among those of S. *)
Among(i, S) == \E j \in S : ItemRow(j) = ItemRow(i)

(* What a column holds after an UPDATE that sets only changed columns. *)
Changed(new, loaded, now) == IF new = loaded THEN now ELSE new

(* Mutant: locks outlive their transaction. *)
BugDone(r) ==
  /\ UNCHANGED locks
  /\ Goto(r, "idle")
  /\ view' = [view EXCEPT ![r] = Blank]

(* conn.commit(): the request has written, and is over. *)
Done(r) ==
  /\ locks' = {l \in locks : l[2] # r}
  /\ Goto(r, "idle")
  /\ view' = [view EXCEPT ![r] = Blank]

(* Lost connections, deadlocks, updates of rows that are gone, two items   *)
(* where one is expected, a number that is taken: everything is undone.    *)
Fail(r) == pc[r] # "idle" /\ Done(r) /\ UNCHANGED tables

-----------------------------------------------------------------------------
(* create_shipment: the order has no active shipment. *)
LoadOrder(r, o) ==
  /\ \A s \in Shipments : ship[s].order # o
  /\ view' = [view EXCEPT ![r].op = "create", ![r].order = o]
  /\ Goto(r, "write")

Create(r) ==
  /\ pc[r] = "write" /\ view[r].op = "create"
  /\ \E s \in Shipments :
       /\ ship[s] = NoRow
       /\ ship' = [ship EXCEPT ![s].order = view[r].order, ![s].status = "CREATED"]
  /\ Done(r)
  /\ UNCHANGED <<manifest, items, order, transit, sequence>>

(* The check each shipment endpoint makes on the row it has loaded. *)
Permitted(op, row) ==
  /\ row # NoRow
  /\ \/ op = "pack" /\ row.status = "CREATED"
     \/ op = "awb" /\ row.awb = 0
     \/ op \in {"deliver", "rto"} /\ row.status # "DELIVERED"

LoadShipment(r, op, s) ==
  /\ Permitted(op, ship[s])
  /\ view' = [view EXCEPT ![r].op = op, ![r].ship = {s}, ![r].rows[s] = ship[s]]
  /\ Goto(r, CASE op = "awb" -> "number" [] op = "deliver" -> "order" [] OTHER -> "write")

(* pack_shipment and initiate_rto *)
SetStatus(r) ==
  /\ pc[r] = "write" /\ view[r].op \in {"pack", "rto"}
  /\ \E s \in view[r].ship :
       /\ Free(r, {ShipRow(s)})
       /\ ship' = [ship EXCEPT ![s].status = Changed(
            IF view[r].op = "pack" THEN "PACKED" ELSE "RTO_INITIATED", view[r].rows[s].status, @)]
  /\ Done(r)
  /\ UNCHANGED <<manifest, items, order, transit, sequence>>

(* Both generate_awb endpoints read the carrier's sequence ... *)
ReadSequence(r) ==
  /\ pc[r] = "number" /\ sequence <= MaxSequence
  /\ view' = [view EXCEPT ![r].number = sequence]
  /\ Goto(r, "write")
  /\ UNCHANGED <<tables, locks>>

(* Mutant: awb_number is not unique. *)
BugTaken(n) == FALSE

(* awb_number is unique. *)
Taken(n) == \E s \in Shipments : ship[s].awb = n

(* ... and set it to the next.  The shipment's endpoint gives the number   *)
(* to the shipment, and makes it READY_FOR_PICKUP whatever its status.     *)
Number(r) ==
  LET n == view[r].number IN
  /\ pc[r] = "write" /\ view[r].op = "awb" /\ ~ Taken(n)
  /\ \E s \in view[r].ship :
       /\ Free(r, {Sequence, ShipRow(s)})
       /\ ship' = [ship EXCEPT ![s].awb = n,
                               ![s].status = Changed("READY_FOR_PICKUP", view[r].rows[s].status, @)]
  /\ sequence' = n + 1
  /\ Done(r)
  /\ UNCHANGED <<manifest, items, order, transit>>

NumberOutside(r) ==
  /\ pc[r] = "write" /\ view[r].op = "outside" /\ Free(r, {Sequence})
  /\ sequence' = view[r].number + 1
  /\ Done(r)
  /\ UNCHANGED <<ship, manifest, items, order, transit>>

(* mark_delivered: the SELECT of the order flushes the shipment. *)
ReadOrder(r) ==
  /\ pc[r] = "order" /\ view[r].op = "deliver"
  /\ \E s \in view[r].ship :
       /\ Take(r, {ShipRow(s)})
       /\ view' = [view EXCEPT ![r].order = ship[s].order, ![r].orders = order]
  /\ Goto(r, "write")
  /\ UNCHANGED tables

Deliver(r) ==
  LET o == view[r].order IN
  /\ pc[r] = "write" /\ view[r].op = "deliver" /\ Free(r, {OrderRow(o)})
  /\ ship' = [s \in Shipments |->
       IF s \in view[r].ship THEN [ship[s] EXCEPT !.status = "DELIVERED"] ELSE ship[s]]
  /\ order' = [order EXCEPT ![o] = Changed("DELIVERED", view[r].orders[o], @)]
  /\ Done(r)
  /\ UNCHANGED <<manifest, items, transit, sequence>>

-----------------------------------------------------------------------------
(* Mutant: a manifest that was handed over may be handed over again. *)
BugOpenFor(op, list) ==
  \/ op \in {"add", "remove"} /\ list.status \in {"DRAFT", "PENDING"}
  \/ op = "scan" /\ list.status \in {"PENDING", "CONFIRMED"}
  \/ op = "confirm" /\ list.status = "PENDING" /\ list.total # 0
  \/ op = "handover" /\ list.status \in {"CONFIRMED", "HANDED_OVER"}

(* The check each manifest endpoint makes on the row it has loaded. *)
OpenFor(op, list) ==
  \/ op \in {"add", "remove"} /\ list.status \in {"DRAFT", "PENDING"}
  \/ op = "scan" /\ list.status \in {"PENDING", "CONFIRMED"}
  \/ op = "confirm" /\ list.status = "PENDING" /\ list.total # 0
  \/ op = "handover" /\ list.status = "CONFIRMED"

LoadManifest(r, op, m) ==
  /\ OpenFor(op, manifest[m])
  /\ op = "scan" => manifest[m].scanned < MaxScanned
  /\ view' = [view EXCEPT ![r].op = op, ![r].manifest = m, ![r].loaded = manifest[m]]
  /\ Goto(r, IF op = "confirm" THEN "write" ELSE "select")

(* Mutant: a shipment that is on a manifest may be put on another. *)
BugAddable(s) == ship[s].status \in {"PACKED", "READY_FOR_PICKUP"}

Addable(s) ==
  ship[s].status \in {"PACKED", "READY_FOR_PICKUP"} /\ ship[s].manifest = NoManifest

(* add-shipments selects those of the caller's shipments it may add. *)
SelectShipments(r) ==
  /\ pc[r] = "select" /\ view[r].op = "add"
  /\ \E S \in (SUBSET {s \in Shipments : Addable(s)}) \ {{}} : view' = [view EXCEPT ![r].ship = S]
  /\ Goto(r, "write")
  /\ UNCHANGED <<tables, locks>>

Add(r) ==
  LET m == view[r].manifest
      v == view[r] IN
  /\ pc[r] = "write" /\ v.op = "add"
  /\ Free(r, {ListRow(m)} \cup {ShipRow(s) : s \in v.ship})
  /\ \E c \in Copies :
       /\ \A i \in items \cup UNION {view[q].items : q \in Requests} :
            i.manifest = m /\ i.ship \in v.ship => i.copy # c
       /\ items' = items \cup
            [manifest : {m}, ship : v.ship, copy : {c}, scanned : {FALSE}, handed : {FALSE}]
  /\ ship' = [s \in Shipments |-> IF s \notin v.ship THEN ship[s]
       ELSE [ship[s] EXCEPT !.manifest = m, !.status = "MANIFESTED"]]
  /\ manifest' = [manifest EXCEPT ![m].total = v.loaded.total + Cardinality(v.ship),
                                  ![m].status = Changed("PENDING", v.loaded.status, @)]
  /\ Done(r)
  /\ UNCHANGED <<order, transit, sequence>>

(* confirm_manifest *)
Confirm(r) ==
  /\ pc[r] = "write" /\ view[r].op = "confirm" /\ Free(r, {ListRow(view[r].manifest)})
  /\ manifest' = [manifest EXCEPT ![view[r].manifest].status = "CONFIRMED"]
  /\ Done(r)
  /\ UNCHANGED <<ship, items, order, transit, sequence>>

(* Of the manifest's items, those asked for, the one scanned, or all. *)
SelectItems(r) ==
  LET mine     == {i \in items : i.manifest = view[r].manifest}
      Use(set) == view' = [view EXCEPT ![r].items = set, ![r].todo = set] IN
  /\ pc[r] = "select"
  /\ \/ /\ view[r].op = "remove" /\ Goto(r, "item")
        /\ \E S \in SUBSET Shipments : Use({i \in mine : i.ship \in S /\ ~ i.handed})
     \/ /\ view[r].op = "scan" /\ Goto(r, "write")
        /\ \E i \in mine : ~ i.scanned /\ (\A j \in mine : j.ship = i.ship => j = i) /\ Use({i})
     \/ view[r].op = "handover" /\ Use(mine) /\ Goto(r, "item")
  /\ UNCHANGED <<tables, locks>>

(* The rows of those of its items that a request has gone through. *)
Gone(r) == view[r].items \ view[r].todo

(* scan_shipment_for_handover *)
Scan(r) ==
  LET v == view[r] IN
  /\ pc[r] = "write" /\ v.op = "scan" /\ \A i \in v.items : Among(i, items)
  /\ Free(r, {ListRow(v.manifest)} \cup {ItemRow(i) : i \in v.items})
  /\ items' = {IF Among(i, v.items) THEN [i EXCEPT !.scanned = TRUE] ELSE i : i \in items}
  /\ manifest' = [manifest EXCEPT ![v.manifest].scanned = v.loaded.scanned + 1]
  /\ Done(r)
  /\ UNCHANGED <<ship, order, transit, sequence>>

(* The SELECT of a shipment keeps the row it has loaded before. *)
Read(r, s) ==
  IF \E i \in Gone(r) : i.ship = s THEN view[r].rows ELSE [view[r].rows EXCEPT ![s] = ship[s]]

(* remove-shipments, item by item: each SELECT flushes the one before. *)
RemoveItem(r) ==
  /\ pc[r] = "item" /\ view[r].op = "remove"
  /\ \E i \in view[r].todo :
       /\ Take(r, UNION {{ListRow(j.manifest), ShipRow(j.ship), ItemRow(j)} : j \in Gone(r)})
       /\ view' = [view EXCEPT ![r].rows = Read(r, i.ship), ![r].todo = @ \ {i}]
  /\ UNCHANGED <<tables, pc>>

Remove(r) ==
  LET v    == view[r]
      m    == v.manifest
      out  == {i.ship : i \in v.items}
      left == v.loaded.total - Cardinality(v.items) IN
  /\ pc[r] = "item" /\ v.op = "remove" /\ v.todo = {}
  /\ Free(r, {ListRow(m)} \cup {ShipRow(s) : s \in out} \cup {ItemRow(i) : i \in v.items})
  /\ ship' = [s \in Shipments |-> IF s \notin out THEN ship[s] ELSE
       [ship[s] EXCEPT !.manifest = Changed(NoManifest, v.rows[s].manifest, @),
                       !.status = Changed("READY_FOR_PICKUP", v.rows[s].status, @)]]
  /\ items' = {i \in items : ~ Among(i, v.items)}
  /\ manifest' = [manifest EXCEPT
       ![m].total = Changed(left, v.loaded.total, @),
       ![m].status = IF left = 0 THEN Changed("DRAFT", v.loaded.status, @) ELSE @]
  /\ Done(r)
  /\ UNCHANGED <<order, transit, sequence>>

(* complete_handover, item by item: the SELECT of the shipment flushes the *)
(* item, and the summary if an item before has changed it ...              *)
HandItem(r) ==
  /\ pc[r] = "item" /\ view[r].op = "handover"
  /\ \E i \in view[r].todo :
       /\ Among(i, items)
       /\ Take(r, {ItemRow(i)} \cup (IF view[r].taken = 0 THEN {} ELSE {Summary}))
       /\ view' = [view EXCEPT ![r].ship = {i.ship}, ![r].rows = Read(r, i.ship),
                               ![r].todo = @ \ {i}]
  /\ Goto(r, "order")
  /\ UNCHANGED tables

(* ... the SELECT of its order flushes the shipment ... *)
HandOrder(r) ==
  /\ pc[r] = "order" /\ view[r].op = "handover"
  /\ \E s \in view[r].ship :
       LET o == view[r].rows[s].order IN
       /\ Take(r, {ShipRow(s)})
       /\ view' = [view EXCEPT ![r].order = o, ![r].orders[o] =
            IF o \in {view[r].rows[i.ship].order : i \in {j \in Gone(r) : j.ship # s}}
            THEN @ ELSE order[o]]
  /\ Goto(r, "stock")
  /\ UNCHANGED tables

(* ... and that of the order's items flushes the order, now SHIPPED; then  *)
(* the unit is deducted from the quantity the first SELECT of the summary  *)
(* has read.  That SELECT fails where there are two: the handler catches   *)
(* every error of the deduction, and goes on.                              *)
HandStock(r) ==
  LET v == view[r] IN
  /\ pc[r] = "stock"
  /\ Take(r, IF v.orders[v.order] = "SHIPPED" THEN {} ELSE {OrderRow(v.order)})
  /\ view' = IF ~ single THEN view ELSE
       [view EXCEPT ![r].transit = IF v.taken = 0 THEN transit ELSE @, ![r].taken = @ + 1]
  /\ Goto(r, "item")
  /\ UNCHANGED tables

HandOver(r) ==
  LET v   == view[r]
      out == {i.ship : i \in v.items} IN
  /\ pc[r] = "item" /\ v.op = "handover" /\ v.todo = {}
  /\ Free(r, {ListRow(v.manifest)} \cup (IF v.taken = 0 THEN {} ELSE {Summary}))
  /\ items' = {IF Among(i, v.items) THEN [i EXCEPT !.handed = TRUE] ELSE i : i \in items}
  /\ ship' = [s \in Shipments |-> IF s \notin out THEN ship[s] ELSE
       [ship[s] EXCEPT !.status = Changed("PICKED_UP", v.rows[s].status, @)]]
  /\ order' = [o \in Orders |-> IF \A s \in out : v.rows[s].order # o THEN order[o]
       ELSE Changed("SHIPPED", v.orders[o], order[o])]
  /\ transit' = IF v.taken = 0 THEN transit ELSE v.transit + v.taken
  /\ manifest' = [manifest EXCEPT ![v.manifest].status = "HANDED_OVER"]
  /\ Done(r)
  /\ UNCHANGED sequence

-----------------------------------------------------------------------------
Load(r) ==
  /\ pc[r] = "idle"
  /\ \/ \E o \in Orders : LoadOrder(r, o)
     \/ \E op \in ShipmentOps, s \in Shipments : LoadShipment(r, op, s)
     \/ \E op \in ManifestOps, m \in Manifests : LoadManifest(r, op, m)
     \/ view' = [view EXCEPT ![r].op = "outside"] /\ Goto(r, "number")
  /\ UNCHANGED <<tables, locks>>

Step(r) ==
  \/ Load(r) \/ Fail(r) \/ Create(r) \/ SetStatus(r) \/ ReadSequence(r) \/ Number(r)
  \/ NumberOutside(r) \/ ReadOrder(r) \/ Deliver(r) \/ SelectShipments(r) \/ Add(r) \/ Confirm(r)
  \/ SelectItems(r) \/ Scan(r) \/ RemoveItem(r) \/ Remove(r) \/ HandItem(r) \/ HandOrder(r)
  \/ HandStock(r) \/ HandOver(r)

(* Everything is delivered, and nobody asks for anything. *)
AtRest == (\A r \in Requests : pc[r] = "idle") /\ UNCHANGED vars

(* Two acceptances of the product's goods overlap, and each inserts the    *)
(* summary it has not found: the key does not tell NULL variants apart.    *)
SecondSummary == single /\ single' = FALSE /\ UNCHANGED <<tables, locks, pc, view>>

Next ==
  \/ (\E r \in Requests : Step(r)) /\ UNCHANGED single
  \/ SecondSummary \/ AtRest

Spec == Init /\ [][Next]_vars

-----------------------------------------------------------------------------
(* The state has the types of the tables and the request handlers. *)
TypeOK ==
  /\ ship \in [Shipments -> ShipmentRows] /\ manifest \in [Manifests -> ManifestRows]
  /\ items \in SUBSET Items /\ order \in [Orders -> OrderStatuses]
  /\ transit \in Int /\ sequence \in Nat \ {0} /\ single \in BOOLEAN
  /\ \A l \in locks : l[2] \in Requests /\ pc[l[2]] # "idle"
  /\ pc \in [Requests -> Steps] /\ view \in [Requests -> Views]

(* Nobody asks the carrier's own generate-awb for a number, and no two     *)
(* requests are numbering one shipment at once.                            *)
NumberedApart ==
  \A r, q \in Requests :
    /\ view[r].op # "outside"
    /\ r # q /\ view[r].op = "awb" /\ view[q].op = "awb" => view[q].ship # view[r].ship

(* A carrier's next number is above every number it has given to a         *)
(* shipment, so generate_awb of another shipment can succeed, though the   *)
(* sequence is read without a lock and set from what was read: while       *)
(* requests are NumberedApart, one that would set it back fails on the     *)
(* number it would give again.                                             *)
AwbAhead == \A s \in Shipments : ship[s].awb < sequence

(* The two records of what is on a manifest agree, its total counts it, no *)
(* scan goes uncounted, and no shipment is on two: add-shipments,          *)
(* remove-shipments and handover each write three tables.  (scanned may    *)
(* count more: remove-shipments does not lower it, so all_scanned may hold *)
(* of a manifest with shipments that are not.)                             *)
ManifestsAgree ==
  /\ \A m \in Manifests :
       LET on == {i \in items : i.manifest = m} IN
       /\ {i.ship : i \in on} = {s \in Shipments : ship[s].manifest = m}
       /\ manifest[m].total = Cardinality(on)
       /\ manifest[m].scanned >= Cardinality({i \in on : i.scanned})
       /\ manifest[m].status = "DRAFT" <=> on = {}
  /\ \A i, j \in items : i.ship = j.ship => i = j

(* No unit is deducted for what has not left, or twice: stock in transit   *)
(* is at most what was handed over, and exactly that as long as the        *)
(* product has one summary.  (With two, complete_handover swallows the     *)
(* failed deduction and ships the order.)  What was handed over is what    *)
(* the handed-over manifests hold, and its orders are no longer PACKED.    *)
DeductedOnce ==
  LET out == {i \in items : i.handed} IN
  /\ transit <= Cardinality(out) /\ (single => transit = Cardinality(out))
  /\ out = {i \in items : manifest[i.manifest].status = "HANDED_OVER"}
  /\ \A i \in out : order[ship[i.ship].order] # "PACKED"
=============================================================================
