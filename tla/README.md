# ILMS: formal models of the multi-tenant core

ILMS is a multi-tenant ERP: a FastAPI application (`src/app`) over
PostgreSQL through SQLAlchemy's asyncio sessions, one schema per tenant, with
background jobs in the same process and a Next.js front end. This directory
holds TLA+ models of the parts whose correctness depends on the order of
events, their TLC configurations, and TLAPS proofs of their main properties.

    tlc -config DocSeqSafety.cfg MCDocumentSequence      # check one run
    tlapm DocumentSequenceProofs.tla                     # check one module's proofs

`PROJECT.json` lists the runs, the source lines each definition stands for, a
mutation that breaks each property, the hazards, the findings and the theorems.

## How the program runs

Four facts of the code shape every model.

* **One process, one event loop.** A single uvicorn process serves requests and
  runs the scheduler. What lies between two `await`s is one step; everything
  else interleaves.
* **One transaction per request.** The tenant session is bound to a connection
  that `SET search_path` has already put in a transaction
  (`app/database.py:161-181`). `db.commit()` in an endpoint only flushes;
  `conn.commit()` when the request ends makes everything durable together,
  and any exception that leaves the endpoint rolls everything back. A flush
  that fails (a unique key) rolls back the whole transaction even where the
  endpoint catches the exception. So "one step of several fails" means that
  all the request's writes go, and the models have one `Commit` and one `Abort`.
* **READ COMMITTED.** A `SELECT` sees what is committed; an `UPDATE` waits for
  the row's lock and then writes values computed from what was read earlier;
  an `INSERT` waits for an uncommitted row with the same key and fails after a
  committed one. These rules are the external part of the models.
* **Public-schema sessions differ.** `get_db` and `async_session_maker` own
  their transactions: there `commit()` commits (ModuleAccess).

## Inventory

| Component | State | Operations | What is hard | What makes it correct |
|---|---|---|---|---|
| Document sequences (`services/document_sequence_service.py`, endpoints of `purchase.py`, `grn.py`, `sales_returns.py`) | `document_sequences`, `document_sequence_audit`, numbers in the document tables | issue, peek, verify, repair, create, delete | row locks, first row of a year, verify that reads without locks, aborts | no number twice, counters only grow, audit explains the counter |
| Module access (`core/module_decorators.py`, `module_management*`) | `tenant_subscriptions`, in-process cache | check, subscribe, unsubscribe, clear | cache filled after an await, crash before the clear, two subscribes | one active row, bounded staleness, changes take effect |
| Tenant sessions (`middleware/tenant.py`, `api/deps.py`, `database.py`) | connection pool | open, commit, roll back, finalise | up to five connections per request, generators nobody exhausts | all or nothing, connections return |
| Job runner (`jobs/tenant_job_runner.py`, `scheduler.py`) | semaphore, connections, summary | list, gather, run per tenant, summarise | shared semaphore, one failure among many, missing commit | share of the pool, complete summary, durable work |
| Goods receipt (`endpoints/grn.py`, `services/grn_service.py`) | GRNs, order lines, stock items, inventory summary, movements, vendor invoices | submit, quality check, force, accept, put-away, cancel | checks without locks, swallowed errors, unique keys with NULLs | goods enter stock once, acceptance is whole, books agree |
| Product costing (`services/costing_service.py`) | `product_costs` | receipt, landed cost | read-modify-write | quantity on hand equals stock |
| Purchase orders, approvals (`purchase.py`, `approvals.py`, `po_state_machine.py`) | order status, approval requests | submit, approve, reject, send, receive, close, cancel | many writers past the state machine | terminal states stay, approval and order agree |
| Customer credit (`order_service.py`, `orders.py`, `customers.py`) | orders of a customer, `credit_used`, ledger receipts | office and web orders, cancel, set status, pay, receive | nothing is locked; a repeated cancel; numbers that are counted | credit used within the limit, every order counted, no more charged than owed |
| Payments (`payments.py`, `payment_service.py`, `order_service.py`) | `payment_status`, `amount_paid`, gateway orders, webhook events | create gateway order, verify, webhook, office payment | late, repeated and lost events; two attempts for one order | PAID only for money received, nothing invented, a captured payment is seen |
| Inventory, allocation, picking (`inventory_service.py`, `picklist_service.py`) | stock items, summary, picklists | pick, complete | two orders take one item | an item serves one order |
| Transfers, adjustments, counts (`transfer_service.py`, `cycle_count_service.py`) | transfers, summaries of two warehouses | approve, dispatch, receive | repeated dispatch, partial receipt | stock conserved |
| Serialisation (`serialization.py`) | serial counters, `po_serials` | allocate, activate | counters without locks | ranges disjoint |
| Sign-in and OTP (`otp_service.py`, `auth_service.py`) | OTP rows | create, verify | attempt count read before write | attempts bounded |
| Billing, onboarding, tenant schemas | subscriptions, schemas | sign up, migrate | DDL, external calls | - |
| Shipping (`shipments.py`, `manifests.py`, `transporters.py`) | shipments, manifests and items, the carrier's AWB sequence, inventory summary | create, pack, number, deliver, return; add, remove, scan, confirm, hand over | sequence read without a lock, three tables written per request, handover item by item | numbers given once, manifests agree with shipments, stock leaves once |
| Returns, WMS, DOM, marketplaces | task and document rows | status changes | external services | - |
| Accounting, GST, TDS | journals, returns | post, file | arithmetic, closed periods | entries balance |
| S&OP, AI, reports, notifications, front ends | - | calculations, I/O | - | - |

Interactions: every tenant endpoint goes through the middleware, two tenant
sessions and `require_module`, so TenantWork and ModuleAccess are under
everything else. `create_grn` takes its number from the document sequences.
`accept_grn` writes purchase orders, costs, stock, movements and invoices.
Approvals write purchase orders. Orders write credit, picklists and journals;
handing over a manifest writes shipments, orders and the inventory summary; the
payment gateway's page and webhook write orders behind everybody's back.

## Modules

| Module | Stands for | Checked by | Proved in |
|---|---|---|---|
| `NumberRegister` | what document numbering promises: an atomic register per sequence | as a property of `DocumentSequence` | |
| `DocumentSequence` | the numbering service with its locks and transactions | `MCDocumentSequence` | `DocumentSequenceProofs` |
| `ModuleAccess` | subscriptions of one tenant and the access cache | `MCModuleAccess` | `ModuleAccessProofs` |
| `TenantWork` | requests and jobs sharing the connection pool | `MCTenantWork` | `TenantWorkProofs` |
| `GoodsReceipt` | goods receipt notes and all that accepting one writes | `MCGoodsReceipt` | `GoodsReceiptProofs` |
| `Dispatch` | shipments, manifests, the carrier's numbers and the handover | `MCDispatch` | `DispatchProofs` |
| `CustomerCredit` | one customer's credit against orders, payments and receipts | `MCCustomerCredit` | `CustomerCreditProofs` |
| `PaymentSettlement` | how an order comes to be PAID, by gateway or office | `MCPaymentSettlement` | `PaymentSettlementProofs` |
| `ModuleAccessModes`, `GoodsReceiptModes`, `DispatchModes`, `CustomerCreditModes`, `PaymentModes` | the module they extend, under a condition on what overlaps | the MC module of that module | the proofs of that module |
| `SumTheorems` | facts about `SumFunctionOnSet`, for the proofs | | itself |

Definitions called `Bug...` are mutations of the definition that follows them:
plausible mistakes in that code, one for each property, none of them used by
`Next`.

A `...Modes` module adds a variable, `alone` or `mode`, that is chosen at the
beginning and never changes, and restricts the steps by it: one run, and one
theorem, then covers overlapping requests and requests that come one at a time.
`ModesSpec` bounds nothing, and the theorems about modes are about it; what an MC
module adds to it are bounds for TLC and symmetry. A property named `Serial...`,
`Alone...`, `Overlap...`, `Office...`, `Careful...` or `Exact...` is the property
of the module it extends, claimed for the modes in which the code has it. Where a
property needs a mode, the README says what breaks it otherwise.

### DocumentSequence

`rows`, `docs` and `audit` are the committed tables; `holder` and `work` the row
lock and the holder's uncommitted counter; `pending` a request's uncommitted
audit records. A request walks through the statements of its endpoint: `lock`
(`SELECT ... FOR UPDATE`), `insert` if there is no row, `locked`
(increment or raise, with its audit record), `document` (the endpoint's
INSERT, unique on the number), `ready`, and `Commit`; `Abort` may strike
before any of them. A `verify` request visits its sequences in order, reads
the counter (`read`), then the largest number (`scan`), and repairs if the
counter it read is behind; all within one transaction, so it keeps the rows it
repaired while it goes on to the next. Numbers stand for their sequence part:
formatting and `split_part` are inverse for numbers the service formats
(`PR/APL/25-26/00001`). `GET /grn/next-number` and
`/sales-returns/next-number` really consume a number ("peek"). A repair takes
any integer, as its endpoint does (`purchase.py:185`): a row that exists ignores a smaller
one, a missing row is inserted with it, even if negative, and the audit then
records 0 as the old number. Imported documents carry positive numbers; 0 and negative
ones are only on documents issued from such a row.

### ModuleAccess

`rows` and `active` are the subscription rows of each module (named by the
request that inserted them), `cache` the process's cache with ages in ticks,
`seen` and `since` a query's answer and its age, and `last` a history variable:
how long ago the table last gave each answer. `UniqueRows` chooses
between the two schemas the repository contains: the table that the application
creates (`database_init.py:131-149`, `models/tenant.py`) has no unique key, the one of
migration 001 has. `TypeOK` includes that no tenant loses a base module. `Restart` empties the cache and
ends the requests; `Fail` after a commit leaves the cache uncleared. `Tick`
lets time pass as long as no answered query would wait longer than
`MaxLatency`: the event loop resumes a task within that bound.

### TenantWork

`conns` holds the connections checked out, each with its purpose. A request
takes the middleware's, its endpoint session's and that of `get_current_user`
(in either order), where permissions are required that of
`get_user_permissions` (both abandoned at the `return` inside their loop, closed by
`Finalise`), and, on a cache miss, that of `require_module`, held around the
endpoint. A job lists the tenants on a connection of its own, outside the
semaphore, then runs one task per tenant under the shared semaphore: `JobShare` is about
the tasks, and all jobs together use at most one connection per fired job more.
`TimesOut` is the pool's timeout: a worker may fail there at any time and must
when the pool stays full. `wrote` and `durable` tell what a session wrote and
what was committed.

### GoodsReceipt

A request loads its GRN (`view[r].grn`), checks its status, and, for an
acceptance, passes through the flushes of `accept_grn` in order: validation
status, order line, statuses, product cost, stock items, inventory summary,
movement, `stock_items_created`, invoice, commit. `view` carries what it read and
what it has written and not committed; `locks` the rows and unique keys its
transaction holds. `Changed` stands for SQLAlchemy's UPDATE, which leaves a
column alone if the new value equals the loaded one. `by` names the request
that made a row. Errors that are swallowed without touching the
transaction (two summary rows, stock already created) skip to the next part;
errors of a flush end the request without a trace (`Fail`). A GRN accepts the
number of units that its quality check names, which may be 0 or negative, or 0 if
the check does not name its item (`grn.py:473-506`): then cost and stock are skipped
(`costing_service.py:202`, `grn_service.py:245`), while line, invoice and the stocked
flag are written all the same. `AcceptIsWhole` is about acceptances of some units.
Where a serial was scanned for a GRN, `create_stock_items_from_grn`
makes an item for each serial and none for the other units
(`grn_service.py:257`), while cost and summary count all that were accepted.
`EachScanned` says that no such unit is in stock: `SerialBooksAgree` needs it
for cost and summary, and not for lines, orders and invoices.

### Dispatch

Each endpoint is a request: `Load...` is its first `SELECT` and the check it
makes on the row; what it writes after its last `SELECT` is one step, since
nobody sees it before the commit. `view` holds the rows the request has loaded,
which SQLAlchemy does not read again, and `Changed` is the UPDATE that leaves a
column alone if the new value equals the loaded one. Handover and
`remove-shipments` go through the items of the manifest one by one; every
`SELECT` flushes, and so locks, what the item before has changed. That is why
`HandItem`, `HandOrder` and `HandStock` are separate steps. The deduction's errors
are swallowed (`manifests.py:687-691`), and it always fails once overlapping receipts
have given the product a second summary row (`SecondSummary`, which is never
undone: `single` stays FALSE): the order is then SHIPPED and nothing deducted. So
`DeductedOnce` demands that stock leaves at most once for an item, and
exactly once while there is one row. `generate_awb` of a
shipment and the carrier's own `generate-awb` (`outside`) read the sequence and set it to
the number after the one read. `Fail` stands for everything that rolls back: lost
connections, deadlocks, an UPDATE of a row that is gone, a number already taken.

### CustomerCredit

An order in the office counts the day's orders for its number, loads the
customer, checks `credit_used + total <= credit_limit`, inserts the order and
sets `credit_used` from what it loaded. The website's order loads the customer
first. Order numbers are unique, so an insert waits for an uncommitted order
of the same number (`locks`) and fails after a committed one: this alone orders
office orders. A number is a date and a place in that day's count (`today`,
`Midnight`), so it does not order two of them that overlap at midnight. Cancelling,
setting the status, paying and receiving load the order
and the customer and write once. `loaded` is the order as read. The statuses that
can be cancelled are one value, `OPEN`, so `Statused` lets one of them be written
over another that came in between.

`Gateway` and `Courier` are the writers that leave `credit_used` alone:
`verify_payment` and the `order.paid` event set what is paid (and, for the first,
the status), the Shiprocket webhook and the warehouse's requests set any status. What
is true of credit depends on them, so there are four modes: `any` has everything,
overlapping; `office` has office orders only, overlapping, with none under way at
midnight; `alone` one request at a time and neither gateway nor courier;
`careful` one thing at a time, gateway and courier included, as long as
no cancelled order has its status set and no amount paid is lowered.

### PaymentSettlement

`gateway` is Razorpay as the code uses it: an order, for an amount, of which an
attempt may fail, be authorized, be captured. `answered` is what became of each
webhook event. `Verify` is the page's call, possible any number of times once the
payment is authorized, since the page keeps the signed answer; `Handle` and
`Lose` are the webhook's handler, which answers 200 even if it raises;
`Duplicate` is an event that is sent again. `verify` and the handlers are one
UPDATE each; creating a gateway order and office payments read the order first
(`requests`). `Paise` is `int(amount * 100)`, which may be one paisa short, so a
gateway order for 19.99 is one of 1998 paise. `payment.captured` and the refund
events change no row, because a statement of each handler can never succeed.

`Unchecked` holds what the handlers take without checking it: `verify` updates the
order its request names, which nothing compares with the gateway order
(`payments.py:184`), and an event without a signature header is handled like a signed
one, "for testing" (`payments.py:372`). With such steps an order can be PAID without
a payment, so no property but the types (and the liveness property) is claimed of
them: the mode `open` of `PaymentModes` has them, `any` has what the page and the
gateway do of their own accord, `exact` besides lets pages ask for the order's
total only, and `alone` besides lets nothing overlap a request and has no receipts
of 0 (`schemas/order.py:64` allows them). Outside `exact`, `verify` records the order's
total as paid whatever amount the page asked for (`payments.py:174`).

## Runs

| Run | Instance | Shows |
|---|---|---|
| `doc_seq_safety` | 3 requests, 2 sequences, counters 0 or 1 (row missing or present), imported number 2, repair to 3 or -2 | all safety properties of numbering and `RegisterSpec` |
| `doc_seq_live` | 2 requests, same data | every request ends |
| `module_access` | 3 requests, overlapping or one at a time, 2 modules, TTL 2, latency 1, no unique key | bounded staleness; one at a time, one active row and changes take effect |
| `module_access_immediate` | 2 requests at once | violation: see findings |
| `tenant_work` | 2 requests, 2 jobs, 2 tenants, pool of 3, semaphore of 1 | atomic requests, share of the jobs' tasks, summaries, everybody ends |
| `tenant_work_persist` | 1 job | violation: see findings |
| `goods_receipt` | 3 requests, 2 at once or one at a time; 3 GRNs of 2 orders, 1 serial, quantities 0 to 2 | goods stocked once, acceptances whole; one at a time, books agree and cancelled GRNs have nothing |
| `goods_receipt_books` | 2 at once | violation: see findings |
| `dispatch` | 3 requests, 3 shipments, 2 orders, 2 manifests, 3 numbers | overlapping: the sequence stays ahead of the numbers given; one at a time: manifests agree, stock leaves at most once, and exactly once while there is one summary row |
| `customer_credit` | 2 requests, limit 2, totals 1 and 2, 3 orders, 2 days | overlapping: credit within the limit, office orders all counted; one at a time: never overcharged without gateway and courier, debt within the limit with them |
| `payment_settlement` | 1 order and one to be mistaken for it, 2 gateway orders, 2 requests, total 2, amounts 0 to 2 | what is checked: PAID only for money; pages for the total: nothing invented but a paisa; one at a time: paid until a failure; captured payments are seen |
| `payment_idempotent` | 1 request, same data | violation: see findings |

Bounds, and why they are enough:

* *Requests.* In `DocumentSequence`, `ModuleAccess` and `GoodsReceipt` each is
  served once: two make every race between a read and a write; the third lets a
  later request meet the result (a create after an aborted insert, a
  verification around two creates, a check after a race). In the three later
  modules a request that has ended takes up the next call, so two
  stand for any history of pairs. `dispatch` needs three at once: with two, the
  sequence stays ahead even if both number the same shipment; with three it does
  not, and that is why `NumberedApart` is part of the mode.
* *Sequences.* Two let a verification hold one row and wait for the next while
  creates hold either. `InitialCounters = {1}` with a missing row, document
  2 and repair 3 give every order of counter, documents and repair; repair -2 of a
  missing row, a counter from which numbers below 1 are issued.
* *TTL 2, latency 1.* Ages below, at and above the lifetime, with an answer that
  ages while it waits; ages stop at `Horizon`, past which nothing depends on
  them.
* *Pool of 3.* Less than the five connections one request may need, so a request
  can be blocked by itself, by the other and by a job. The real values are 15
  and 5; only the order of demand and limit matters. In the MC module every job that
  succeeds has written (`JobsWrite`): one that has not has nothing to lose.
* *GRNs.* Two of one order (the shared line, cost and summary), one with a serial
  printed for it; a third of another order for which the same serial was
  scanned (not printed for it, so only a skipped validation gets that far).
  Each accepts one unit of an order of two, or none, or, one at a time, two: this reaches
  both receiving statuses, over-receipt, units without a serial and acceptances
  of nothing; where requests overlap, only the second GRN may be accepted with none.
  Negative quantities are in the proofs only. `MaxActive`
  bounds overlap to two; the theorems of `GoodsReceiptProofs` have no such limit.
* *Shipments and manifests.* Three shipments can be numbered by three requests
  that all hold an old number. One at a time there are two shipments: both on
  one manifest, one on each, moved from one to the other, and handed over in
  one handover with two items, where the second item meets the locks, the order
  and the quantity of the first. The second summary row comes before or during a
  handover, so that one item of it is deducted and the next is not.
  `MaxScanned` 1 stops the count after one scan.
* *Credit.* A limit of two and totals of one and two: below, at and above the
  limit. `office` has three orders on two days: one may be committed between the
  count and the insert of another, and the second day's count starts again. `careful`
  has three as long as nothing was received; `any` and `alone` have two, on one day, and `any` without
  changes of status, receipts, gateway and courier, which touch `credit_used` as
  cancellations and payments do or not at all. Amounts of 0 are in the proofs only.
* *Payments.* One order, because each statement is keyed by the order or by its
  gateway order; in `open` a second one, which an answer may name instead. Two
  gateway orders are two attempts to pay it, so events of an abandoned attempt
  arrive for an order that now refers to the other: this is in `alone`; the
  other modes open one, and `exact` has the overlap of two requests. `any` has the
  receipts of 0.

Symmetry over requests is used only in runs without liveness properties;
requests are interchangeable in every initial state set, except in `MCDispatch`,
which names the one that runs alone and uses symmetry of orders and shipments only.
The cfgs leave the deadlock check on: `AllEnded` and `AtRest` let a finished
instance stutter, and `ModuleAccess` can always let time pass.

## Fairness

* `DocumentSequence!FairSpec`: weak fairness of each request's next statement,
  since asyncio runs every ready task and PostgreSQL grants a row lock when it is
  free (the requests are finitely many, so a row that others hold is in the end
  free for good), and of the rollback of a request whose statement failed. An
  arbitrary abort is never assumed to happen.
* `TenantWork!FairSpec`: weak fairness of each worker's next step, of the failure
  of a worker that waits at a full pool (`DB_POOL_TIMEOUT`), and of the
  finalisation of abandoned generators (asyncio's generator hooks). `EverybodyEnds`
  fails without the second, which is the point of the property.
* `PaymentSettlement!Fairness`: weak fairness of each webhook event that has not
  been answered, since the gateway repeats an event until it gets an answer. Nothing
  makes a page call `verify`, an attempt succeed, or the office do anything.
  `MCPaymentSettlement` and `MCTenantWork` state the same of the steps their modes and
  bounds allow.
* The other modules claim safety only.

## Proofs

All proofs hold for every value of the constants under the named assumptions:
`ConstantsAssumption` (the visiting order has no repetition, counters and
repairs are integers, imported numbers positive, the two markers are not requests or numbers), `AccessAssumption`,
`WorkAssumption` (requests, jobs and tasks are distinct and finitely many),
`ReceiptAssumption`, `DispatchAssumption` (finitely many shipments, manifests and
copies), `CreditAssumption` and `PaymentAssumption`. TLC evaluates each on every
run of its module. Every module's type invariant is proved (`TypeCorrect`).
What holds only of some modes is a theorem about `ModesSpec`: the bounds of the
MC modules are not assumed.

* **DocumentSequenceProofs.** `IInv` is `TypeOK`, `LockDiscipline`,
  `ReadersVerify` (a request at `read` or `scan` is a verification) and `NewRow` (the holder
  of a row that it inserted has logged nothing about it, so a repair may give it any number).
  `LockDiscipline` is already the right strengthening: a held row's working counter
  is at or above the committed one, pending audit ranges lie between the two, and
  committed ones at or below the committed counter. `AuditPartition` and its
  preservation need `IInv` and that a new range starts at the working counter,
  above everything logged. `CountersGrow` and `SyncKept` follow at `Commit`, the
  only step that changes `rows` upward and `docs` by a number the holder issued; `SyncKept` also
  needs `LowDocs`: a document below 1 was issued, so its sequence has a row that is past it.
  For `ServiceIsRegister` the commit must map to one `Issue`, `SkipAhead` or a
  stutter of `NumberRegister`; this needs `IssueShape`: a request that issues holds one row and has
  exactly one pending record, whose range is one wide and ends at the working counter,
  and a request that only syncs has no `GET_NEXT` record. `CollisionsNeedDrift`
  follows from `IssueShape`: the number on a document is one above the committed
  counter. `TrailExplains` adds `WorkExplained`: a working counter is mentioned by
  the pending records, or is the committed one. `VerifySyncs` adds `VerifyShape`,
  what a verification has established for the sequences before the one it is at
  and for what it has read of that one; `SyncKept` keeps it true while others go on.
* **ModuleAccessProofs.** `IInv` adds `Honest`: `last` knows what the table answers
  now; a query waiting to be stored is as old as `since` says; a cached
  answer was given at most its age plus `MaxLatency` ago. `AnswersAreRecent` follows at
  `LookUp` and `Store`.   `AloneImmediate` needs, beside the property, `QueryCurrent`: the answer that a
  query is about to store is still the table's. While the state is settled no
  change is under way, so with one request at a time none can come between.
  `AloneOneActiveRow` needs that a request about to insert its row still finds no
  active one; no unique key is assumed.
* **TenantWorkProofs.** `IInv` adds to the types `RequestsAtomic`, `SummaryAddsUp` and
  `Permitted`: a task that has or wants its connection holds a permit, every task
  holds its own connection only, and permits are at most `MaxConcurrent`. `JobShare`
  is then a count: the tasks' connections inject into the permits.
  `SummariesAddUp` splits a gathered job's tasks into those that are done and
  those that failed.
* **GoodsReceiptProofs.** `IInv` has four parts. `Finite`: tables are finite, so a
  count is a number. `Exclusive`: no two requests hold the same row or key.
  `Pending`: what a running request has in its `view` is its own, for its GRN, and
  covered by locks once past the flush that takes them. `Committed`: every stocked GRN has
  an invoice, every GRN at most one; stock items, and invoices for some units,
  were made by the same requests (`Whole`); serials once. The proofs hold for any
  accepted quantity, 0 and negative ones included: an invoice carries the quantity
  that its acceptance put into line and stock, which tells the two cases apart.
  Goods are stocked once because an acceptance that stocked goods
  commits only with its invoice, whose number is the GRN's.
  `AloneBooks` and `AloneCancelled` rest on `AloneInv`. `Current`: what a request
  has read of its GRN, order and sheets, and what it has written, fits the tables
  as they are, at each of its steps (`UpToDate`). `Rows`: goods in stock are of
  GRNs that stay accepted, each with the units it should have, and a sheet has
  one row. `Books`: the lines agree with the invoices, and each sheet's sum is the
  sum of what was accepted of the GRNs in stock. It counts accepted units, not
  items: this is inductive also for GRNs of which some units were not scanned,
  and under `EachScanned` the two sums are the same. No invariant of one request
  would do without `OneActive`: the commit installs values computed from what was
  read six flushes earlier.
* **DispatchProofs.** `NumbersStayAhead` assumes `[]NumberedApart`, the condition
  under which the code has the property. Beside `AwbAhead` the invariant says that
  every number below the sequence has been given (`NoneSkipped`), that a
  request has read a number at or below the sequence (`ReadEarlier`), and that its
  shipment has none yet (`Unnumbered`). A number that is not taken can then only be
  the sequence itself, so a request that would set the sequence back
  fails on the unique key. `ModesStayAhead` states `AwbAhead` for both modes of the
  run; one at a time the number a request has read is the sequence (`ReadNow`),
  which covers the carrier's own `generate-awb` as well.
  `AloneManifestsAgree` and `AloneDeductedOnce` rest on `AInv`. Of the tables it says
  `Tidy`: shipments and items refer to each other (`Placed`), a manifest's total,
  count of scans and status fit its items (`Counted`), stock in transit is at most the
  number of items handed over, and that number while there is one summary row, and
  their orders are not PACKED (`Stocked`). Of
  a request it says `UpToDate`: its shipment, its manifest and its items are as it
  read them, those still to do are part of those it loaded, and a handover
  has deducted (`taken`) at most the items gone, less the item it is at, and all of
  them while there is one summary row, from the quantity in the table (`StockRead`). Counts of items are compared through the shipments they
  are for, since no shipment is on two.
* **CustomerCreditProofs.** `IInv` adds to `UsedWithinLimit` that every value a
  request has read of `credit_used` is within the limit, and after the check stays
  there with the order's amount added (`Checked`): a lost update replaces one
  value within the limit by another. `Placed` says which requests have a number.
  `OfficeCounts` needs `OfficeInv`: the numbers of a day are given without gaps, a request's number
  is of today, one request at most inserts an order with a number, and the credit a request has read is still
  `credit_used` as long as the number it counted is free; so whoever gets that number
  adds to the right value. `AloneNotOvercharged` and `CarefulLimit` need `AloneInv`: the
  request under way has read what is there, and `credit_used` is at most what
  is owed order by order in `alone`, and at least what is outstanding in `careful`. What
  `Gateway` and `Courier` change then only lowers what is outstanding (`Kept`); it also lowers
  what is owed, which is why `alone` has neither.
* **PaymentSettlementProofs.** `TInv` is the type and `Linked` (gateway orders,
  requests and events are about orders that exist), and every step keeps it.
  Every genuine step also keeps `Paying`, with `Covered`: unless a payment of the
  order was authorized, `amount_paid`, also as a request has read it, is at most
  what the office received. `PaidOnlyIfMoneyCame` follows for every overlap.
  `ExactPayments` needs `ExactInv`: gateway orders are for the total or a paisa less,
  and also the `amount_paid` that a request has read is at most a paisa above what
  came in. `AlonePayments` needs `AloneInv`: a request has read what is there, and an
  order marked PAID has its total paid but for a paisa, so that no receipt of
  more than 0 can make it partially paid again.
* **SumTheorems.** `SumFunctionOnSet` is a fold, which the provers cannot unfold,
  and the library's induction theorems take an operator. Here induction is over
  sets instead: a set of numbers that is not empty has a least one (`Least`, from the
  library's well-founded order of the naturals), so a set that contains every
  finite set whose smaller sets it contains, contains all of them (`Subsets`). From this come
  what the credit, payment and receipt proofs use: a sum is a number, changes by
  what is added, removed or changed, and grows with its terms.

Every safety property and every action property that a passing run checks is
proved. Checked by TLC and not proved: liveness (`RequestsEnd`,
`EverybodyEnds`, `OverlapCapturedIsSeen`), which needs fairness and ENABLED, beyond
the prover. Not proved because it is false in general: `ChangesImmediate`, `OneActiveRow`,
`BooksAgree`, `CancelledHasNothing`, `ManifestsAgree`, `DeductedOnce`,
`OrdersCounted`, `NeverOvercharged`, `OutstandingWithinLimit`, `NothingInvented` and
`PaidUntilFailed` without their modes, and `AwbAhead` without `NumberedApart`.

## Findings

1. `module_access_immediate`: subscribing promises immediate effect
   (`module_management.py:146`), but a query answered before the commit is cached
   after the clear, and stands for up to five minutes. `BoundedStaleness` is what
   the code does guarantee.
2. `tenant_work_persist`: `tenant_job_runner.py:172` never commits the
   connection, so jobs report success and keep nothing.
3. `goods_receipt_books`: overlapping acceptances lose updates of received quantity,
   cost and summary, or create a summary row twice.
4. `payment_idempotent`: the webhook is documented as safe to receive duplicate events
   (`payments.py:353`), but a repeated `payment.failed` makes a paid order FAILED
   (`payments.py:579`).

Met while modelling, outside the runs:

* *Documents and modules.* The numbering service's docstring promises database triggers
  that keep sequences in sync, and none exist; the repair endpoint's docstring
  says the counter "will be set to this number", but a smaller number is
  ignored (`CounterMonotone` holds because of that). `database_init.py:132-150`
  creates `tenant_subscriptions` without the unique key of migration 001: two
  overlapping subscribes then give a module two active rows and make it unusable
  (`OneActiveRow` fails when requests overlap; only one at a time, `SerialOneActiveRow`,
  does it hold). With the key, a cancelled row blocks the tenant from ever rejoining.
* *Goods receipt.* If fewer serials were scanned than units accepted, the units
  without one get no stock item, but cost and summary count them
  (`grn_service.py:257`; `EachScanned`). A GRN whose quality check named no item can
  be accepted with nothing: it is marked as stocked, and has an invoice for 0. A cancellation can overwrite an acceptance (`grn.py:867`;
  `CancelledHasNothing` fails when requests overlap). The receiving endpoints of
  `purchase.py` (2764, 3104, 3175) cannot complete, those of `grn.py` are in use.
* *Purchase orders.* Approving an order raises (`import logging` further down the
  function makes the name local), `convert_requisition` uses an undefined
  `today` (`purchase.py:952`), approvals touch unloaded relationships, escalated
  requests can no longer be decided, the resets set any status, and
  `po_state_machine.py:4` is not the single source of status changes.
* *Shipping.* Two requests that number one shipment while a third holds an older
  number set the AWB sequence back, as does the carrier's own `generate-awb`
  (`transporters.py:434`); later numbers are then refused as taken until the sequence
  has caught up. Two overlapping `create_shipment` calls make two active
  shipments of an order (`shipments.py:200`). `remove-shipments` does not lower
  `scanned_shipments`, so `all_scanned` (`manifest.py:188`) may hold too early.
  Updating or cancelling a shipment or a manifest always fails. A handover only logs
  that its deduction failed (`manifests.py:687-691`): once a product has two summary
  rows (finding 3) its orders are SHIPPED and its stock stays where it was. `mark_delivered`
  reads an unset variable in its costing fallback.
* *Credit.* Setting the status of a cancelled order lets what is owed exceed the
  limit, and cancelling twice gives the credit back twice
  (`docs/SERVICE_CRM_USER_GUIDE.md:95` promises the limit). Gateway payments
  (`payments.py:169-178`, `612-625`) and cancellations by the courier (`shipping.py:577-603`)
  leave `credit_used` as it was, so that later orders are refused for less than
  the limit (`NeverOvercharged` fails with them, one at a time). Website orders that overlap
  (`orders.py:568`), or office orders that overlap at midnight (`order_service.py:36-45`), may go
  uncounted (`OrdersCounted` fails). An error of the website's
  stock allocation is meant to leave the order in place (`orders.py:777`), but rolls
  back the whole request.
* *Payments.* `verify_payment` makes a CANCELLED order CONFIRMED. The handler of
  `payment.captured` selects `customers.name`, which is not a column, and the refund
  handlers' `:name::text` is never bound. The scheduled `check_pending_payments` only
  counts (`tenant_job_runner.py:329`), and the reconciler of `jobs/order_jobs.py:17` has no
  caller, so an `order.paid` whose handler failed is never made up for.
* *Stock.* Receiving a transfer compares a boolean column with a number
  (`transfer_service.py:363`) and always fails; approving an adjustment imports a class
  that does not exist; stock reservation and channel inventory call the cache
  without the tenant it requires; `allocate_stock_for_order` has no caller.

## Not modelled

Deleting GRNs, channel allocation and several lines or serials per GRN; the
formatting of numbers, so that movement numbers past 9999 in a day (a string
maximum, `grn_service.py:468`) are not seen; PostgreSQL's deadlock detector, which the
models replace by a failure possible at any step; when the response is sent
relative to the commit, which depends on the FastAPI version installed; what
job functions compute; prices, taxes and journals of orders; more than one carrier,
warehouse or product in `Dispatch`. Endpoints that cannot succeed (listed under
"Met while modelling") are left out, because they change nothing: this is why
purchase order approval, stock transfers, adjustments and stock reservation, which
would deserve models, have none. The components marked `not_modelled` in
`PROJECT.json` each give a reason; most of the repository is records, reports,
calculations and screens without a protocol.

## Plan

Done: `DocumentSequence` with `NumberRegister`, `ModuleAccess`, `TenantWork`,
`GoodsReceipt`, `Dispatch`, `CustomerCredit` and `PaymentSettlement`, each with its
proofs, those of the modes included.

Candidates, in this order:

1. Picklists: completing one sets its orders to PICKED whatever their status
   (`picklist_service.py:338`); with cancellation and `Dispatch`, the whole way of an
   order.
2. Sales returns: receiving and refunding against the shipment delivered.
3. Serial ranges (`serialization.py`) and one-time passwords (`otp_service.py`):
   counters read before they are written.
4. Pure operators (weighted average cost, string maximum of numbers, TDS and GST)
   against reference definitions over bounded inputs.
5. Proofs: abstract specifications, as `NumberRegister` is one, of the access
   cache (an answer that lags the table) and of settlement (an order and its money).
