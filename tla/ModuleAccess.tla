---------------------------- MODULE ModuleAccess ----------------------------
(***************************************************************************)
(* Which modules one tenant may use: the rows of tenant_subscriptions, the *)
(* in-process cache of require_module (app/core/module_decorators.py), and *)
(* the endpoints that subscribe and unsubscribe                            *)
(* (app/api/v1/endpoints/module_management.py).                            *)
(*                                                                         *)
(* One process runs every request on one event loop: what lies between two *)
(* awaits is one step.  The endpoints here use get_db, whose sessions own  *)
(* their transaction, so commit() really commits.  An active row never has *)
(* an expires_at: both constructors of TenantSubscription pass None.       *)
(*                                                                         *)
(* The migration alembic/versions/001_create_multitenant_schema.py makes    *)
(* (tenant_id, module_id) unique; the table the application itself creates *)
(* (app/database_init.py) and the model do not: UniqueRows says which of   *)
(* the two schemas is deployed.                                            *)
(*                                                                         *)
(* Time is counted in ticks since an event, up to the age that matters.    *)
(***************************************************************************)
EXTENDS Integers, FiniteSets

CONSTANTS
  Requests,     \* identities of HTTP requests, each served once
  Modules,      \* module codes
  SystemAdmin,  \* the module that guards the subscription endpoints
  BaseModules,  \* modules no tenant may leave
  TTL,          \* _CACHE_TTL_SECONDS, in ticks
  MaxLatency,   \* ticks a query's answer may wait to be handled
  MaxInFlight,  \* requests the event loop has started and not finished
  UniqueRows,   \* TRUE: the table has the constraint uq_tenant_module
  Onboarding,   \* creator of the rows a tenant starts with
  NoEntry       \* the cache has no entry

ASSUME AccessAssumption ==
  /\ SystemAdmin \in Modules /\ BaseModules \subseteq Modules
  /\ TTL \in Nat \ {0} /\ MaxLatency \in Nat /\ MaxInFlight \in Nat \ {0}
  /\ UniqueRows \in BOOLEAN
  /\ Onboarding \notin Requests
  /\ NoEntry \notin [access : {"yes", "no"}, age : Nat]

VARIABLES
  rows,    \* subscription rows of each module, named by their creator
  active,  \* those whose status is "active"
  cache,   \* _module_access_cache: the answer and how long ago it was stored
  last,    \* ticks since the table last answered yes, and no, for a module
  pc,      \* what each request does next
  op,      \* what each request is for
  module,  \* the module it uses, joins or leaves
  seen,    \* the active rows its query returned
  since    \* ticks since that query was answered

table  == <<rows, active, last>>
locals == <<pc, op, module, seen, since>>
vars   == <<rows, active, cache, last, pc, op, module, seen, since>>

Ops     == {"use", "subscribe", "unsubscribe"}
Ended   == {"done", "denied", "failed", "lost"}
Steps   == {"new", "query", "store", "body", "write", "clear"} \cup Ended
Horizon == TTL + MaxLatency + 1
Answers == {"yes", "no"}
Entries == [access : Answers, age : 0 .. TTL]

(* has_access: is there an active row? *)
Answer(found) == IF found = {} THEN "no" ELSE "yes"

Init ==
  /\ active \in [Modules -> {{}, {Onboarding}}]
  /\ rows = active
  /\ \A m \in BaseModules \cup {SystemAdmin} : active[m] # {}
  /\ cache = [m \in Modules |-> NoEntry]
  /\ last = [m \in Modules |-> [a \in Answers |->
               IF a = Answer(active[m]) THEN 0 ELSE Horizon]]
  /\ pc = [r \in Requests |-> "new"]
  /\ op \in [Requests -> Ops]
  /\ module \in [Requests -> Modules]
  /\ seen = [r \in Requests |-> {}]
  /\ since = [r \in Requests |-> 0]

-----------------------------------------------------------------------------
Goto(r, step) == pc' = [pc EXCEPT ![r] = step]

(* Access granted: the endpoint runs.  Otherwise 403. *)
Decide(r, answer) == Goto(r, IF answer = "yes" THEN "body" ELSE "denied")

(* The module the decorator of the endpoint names. *)
Required(r) == IF op[r] = "use" THEN module[r] ELSE SystemAdmin

InFlight == {r \in Requests : pc[r] \notin Ended \cup {"new"}}

(* Mutant: an entry never expires. *)
BugFresh(m) == cache[m] # NoEntry

(* The cache has an answer younger than its TTL. *)
Fresh(m) == cache[m] # NoEntry /\ cache[m].age < TTL

(* The cached answer decides.  Otherwise an expired entry is dropped; when *)
(* other tenants' entries fill the cache, so are all expired ones.         *)
LookUp(r) ==
  LET m == Required(r) IN
  /\ pc[r] = "new" /\ Cardinality(InFlight) < MaxInFlight
  /\ \/ /\ Fresh(m)
        /\ Decide(r, cache[m].access)
        /\ UNCHANGED cache
     \/ /\ ~ Fresh(m)
        /\ \E full \in BOOLEAN :
             cache' = [n \in Modules |->
               IF n = m \/ (full /\ ~ Fresh(n)) THEN NoEntry ELSE cache[n]]
        /\ Goto(r, "query")
  /\ UNCHANGED <<table, op, module, seen, since>>

(* check_module_access: scalar_one_or_none raises if two rows match. *)
Query(r) ==
  LET found == active[Required(r)] IN
  /\ pc[r] = "query"
  /\ IF Cardinality(found) > 1
     THEN Goto(r, "failed") /\ UNCHANGED <<seen, since>>
     ELSE /\ Goto(r, "store")
          /\ seen' = [seen EXCEPT ![r] = found]
          /\ since' = [since EXCEPT ![r] = 0]
  /\ UNCHANGED <<table, cache, op, module>>

(* The answer is cached when the query's await returns. *)
Store(r) ==
  /\ pc[r] = "store"
  /\ cache' = [cache EXCEPT ![Required(r)] = [access |-> Answer(seen[r]), age |-> 0]]
  /\ Decide(r, Answer(seen[r]))
  /\ UNCHANGED <<table, op, module, seen, since>>

(* An endpoint of the module runs. *)
UseModule(r) ==
  /\ pc[r] = "body" /\ op[r] = "use"
  /\ Goto(r, "done")
  /\ UNCHANGED <<table, cache, op, module, seen, since>>

(* Mutant: subscribing does not check for an active row. *)
BugResubscribe(r, found) ==
  op[r] = "unsubscribe" /\ (found = {} \/ module[r] \in BaseModules)

(* Mutant: unsubscribing does not check for a base module. *)
BugLeaveBase(r, found) ==
  IF op[r] = "subscribe" THEN found # {} ELSE found = {}

(* The ValueErrors: already subscribed; nothing to leave; a base module. *)
Refused(r, found) ==
  IF op[r] = "subscribe" THEN found # {} ELSE found = {} \/ module[r] \in BaseModules

(* subscribe_to_modules and unsubscribe_from_modules read the active rows. *)
ReadRows(r) ==
  LET found == active[module[r]] IN
  /\ pc[r] = "body" /\ op[r] \in {"subscribe", "unsubscribe"}
  /\ Goto(r, IF Refused(r, found) THEN "failed" ELSE "write")
  /\ seen' = [seen EXCEPT ![r] = found]
  /\ UNCHANGED <<table, cache, op, module, since>>

(* uq_tenant_module rejects a second row, whatever the first one's status. *)
Conflict(m) == UniqueRows /\ rows[m] # {}

(* The table's answer for m changes, or stays, to what it answers now. *)
AnswerNow(m) ==
  last' = [last EXCEPT ![m] = [a \in Answers |-> IF a = Answer(active'[m]) THEN 0 ELSE @[a]]]

(* Subscribing inserts a row and commits. *)
Join(r) ==
  LET m == module[r] IN
  /\ pc[r] = "write" /\ op[r] = "subscribe"
  /\ IF Conflict(m) THEN Goto(r, "failed") /\ UNCHANGED table
     ELSE /\ rows' = [rows EXCEPT ![m] = @ \cup {r}]
          /\ active' = [active EXCEPT ![m] = @ \cup {r}]
          /\ AnswerNow(m)
          /\ Goto(r, "clear")
  /\ UNCHANGED <<cache, op, module, seen, since>>

(* Unsubscribing cancels the rows it read and commits. *)
Leave(r) ==
  LET m == module[r] IN
  /\ pc[r] = "write" /\ op[r] = "unsubscribe"
  /\ active' = [active EXCEPT ![m] = @ \ seen[r]]
  /\ AnswerNow(m)
  /\ Goto(r, "clear")
  /\ UNCHANGED <<rows, cache, op, module, seen, since>>

(* Mutant: the endpoint answers without clearing the cache. *)
BugClear(r) ==
  /\ pc[r] = "clear"
  /\ Goto(r, "done")
  /\ UNCHANGED <<table, cache, op, module, seen, since>>

(* clear_module_access_cache_for_tenant, then the answer. *)
Clear(r) ==
  /\ pc[r] = "clear"
  /\ cache' = [m \in Modules |-> NoEntry]
  /\ Goto(r, "done")
  /\ UNCHANGED <<table, op, module, seen, since>>

(* A lost connection.  After the commit, the cache stays as it is. *)
Fail(r) ==
  /\ pc[r] \in {"query", "body", "write", "clear"}
  /\ Goto(r, IF pc[r] = "clear" THEN "lost" ELSE "failed")
  /\ UNCHANGED <<table, cache, op, module, seen, since>>

(* The process is restarted: the cache and the running requests are gone. *)
Restart ==
  /\ cache' = [m \in Modules |-> NoEntry]
  /\ pc' = [r \in Requests |-> IF r \in InFlight THEN "failed" ELSE pc[r]]
  /\ UNCHANGED <<table, op, module, seen, since>>

(* One tick later, up to the age that matters. *)
Later(ticks, bound) == IF ticks < bound THEN ticks + 1 ELSE bound

Aged(entry) ==
  IF entry = NoEntry THEN NoEntry ELSE [entry EXCEPT !.age = Later(@, TTL)]

(* Time passes; no answered query waits longer than MaxLatency. *)
Tick ==
  /\ \A r \in Requests : pc[r] = "store" => since[r] < MaxLatency
  /\ cache' = [m \in Modules |-> Aged(cache[m])]
  /\ last' = [m \in Modules |-> [a \in Answers |->
       IF a = Answer(active[m]) THEN 0 ELSE Later(last[m][a], Horizon)]]
  /\ since' = [r \in Requests |-> IF pc[r] = "store" THEN since[r] + 1 ELSE since[r]]
  /\ UNCHANGED <<rows, active, pc, op, module, seen>>

Step(r) ==
  \/ LookUp(r) \/ Query(r) \/ Store(r) \/ UseModule(r)
  \/ ReadRows(r) \/ Join(r) \/ Leave(r) \/ Clear(r) \/ Fail(r)

Next == (\E r \in Requests : Step(r)) \/ Restart \/ Tick

Spec == Init /\ [][Next]_vars

-----------------------------------------------------------------------------
(* The state has the types of the table, the cache and the handlers; a     *)
(* tenant keeps an active row of every base module, whatever requests do,  *)
(* because no request that cancels rows passes the checks for such a one.  *)
TypeOK ==
  /\ rows \in [Modules -> SUBSET (Requests \cup {Onboarding})]
  /\ active \in [Modules -> SUBSET (Requests \cup {Onboarding})]
  /\ cache \in [Modules -> Entries \cup {NoEntry}]
  /\ last \in [Modules -> [Answers -> 0 .. Horizon]]
  /\ pc \in [Requests -> Steps]
  /\ op \in [Requests -> Ops]
  /\ module \in [Requests -> Modules]
  /\ seen \in [Requests -> SUBSET (Requests \cup {Onboarding})]
  /\ since \in [Requests -> 0 .. MaxLatency]
  /\ \A m \in BaseModules : active[m] # {}
  /\ \A r \in Requests :
       pc[r] = "write" /\ op[r] = "unsubscribe" => module[r] \notin BaseModules

(* A request is let in, or turned away, only on an answer the table gave   *)
(* for its module less than TTL plus the latency of one query ago, however *)
(* queries, subscription changes, clears, lost connections and restarts    *)
(* interleave: the cache is never older than its TTL promises.             *)
BoundedStaleness ==
  [][\A r \in Requests : pc[r] \in {"new", "store"} /\ pc'[r] \in {"body", "denied"} =>
       last[Required(r)][IF pc'[r] = "body" THEN "yes" ELSE "no"] < TTL + MaxLatency]_vars

(* No subscription change is between its commit and its clear. *)
Settled == \A r \in Requests : pc[r] \notin {"clear", "lost"}

(* "take effect immediately": with no change in progress, no cached answer *)
(* contradicts the table.                                                  *)
ChangesImmediate ==
  Settled => \A m \in Modules : Fresh(m) => cache[m].access = Answer(active[m])

(* A tenant has at most one active row per module; with two, every check   *)
(* of that module raises and the module is lost to the tenant.             *)
OneActiveRow == \A m \in Modules : \A a, b \in active[m] : a = b
=============================================================================
