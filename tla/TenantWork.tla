----------------------------- MODULE TenantWork -----------------------------
(***************************************************************************)
(* How tenant work uses the database: HTTP requests                        *)
(* (app/middleware/tenant.py, app/api/deps.py, app/core/                   *)
(* module_decorators.py, get_tenant_session of app/database.py) and        *)
(* background jobs (app/jobs/tenant_job_runner.py), which share one pool   *)
(* of connections.                                                         *)
(*                                                                         *)
(* A request to a protected endpoint holds up to five connections at once: *)
(* the middleware's, which stays open around the whole request; that of    *)
(* its tenant session; that of the session which looked the user up, and   *)
(* that of the session which looked up the user's permissions, generators  *)
(* nobody exhausts, closed when the event loop finalises them; and that of *)
(* require_module, if its cache has no answer.  (An endpoint that raises   *)
(* abandons the generator of its own session in the same way.)  A worker   *)
(* that finds the pool empty waits, and fails with a timeout if it stays   *)
(* empty.                                                                  *)
(*                                                                         *)
(* The writes of a session bound to a connection are kept only if that     *)
(* connection commits: session.commit() alone does not                     *)
(* (app/database.py, get_tenant_session).  Closing it rolls back.          *)
(***************************************************************************)
EXTENDS Integers, FiniteSets

CONSTANTS
  Requests,       \* HTTP requests to protected endpoints
  Jobs,           \* scheduled jobs, each fired once
  Tenants,        \* the active tenants
  PoolLimit,      \* DB_POOL_SIZE + DB_MAX_OVERFLOW
  MaxConcurrent   \* permits of the job runner's semaphore

ASSUME WorkAssumption ==
  /\ PoolLimit \in Nat \ {0} /\ MaxConcurrent \in Nat \ {0}
  /\ IsFiniteSet(Requests) /\ IsFiniteSet(Jobs) /\ IsFiniteSet(Tenants)
  /\ Requests \cap Jobs = {} /\ (Requests \cup Jobs) \cap (Jobs \X Tenants) = {}

Tasks   == Jobs \X Tenants
Workers == Requests \cup Jobs \cup Tasks
Slots   == {"middleware", "main", "user", "perms", "module", "list", "task"}

VARIABLES
  pc,       \* what each worker does next
  conns,    \* connections checked out: a worker and what it uses each for
  permits,  \* tasks inside the semaphore
  wrote,    \* workers whose session has written something
  durable,  \* workers whose writes are committed
  summary   \* what each job reports: how many tenants succeeded and failed

vars == <<pc, conns, permits, wrote, durable, summary>>

Ended == {"done", "failed"}
Steps == {"new", "tenant", "main", "user", "auth", "perms", "permit", "session", "module",
          "miss", "check", "endpoint", "commit", "list", "gather", "idle", "queued", "connect", "job"} \cup Ended

(* The steps that wait for a connection. *)
Waiting == {"new", "main", "user", "perms", "session", "miss", "connect"}

Init ==
  /\ pc = [w \in Workers |-> IF w \in Tasks THEN "idle" ELSE "new"]
  /\ conns = {} /\ permits = {} /\ wrote = {} /\ durable = {}
  /\ summary = [j \in Jobs |-> [successful |-> 0, failed |-> 0]]

-----------------------------------------------------------------------------
Goto(w, step) == pc' = [pc EXCEPT ![w] = step]

Room == Cardinality(conns) < PoolLimit

CheckOut(w, slot) == Room /\ conns' = conns \cup {<<w, slot>>}

Held(w) == {c \in conns : c[1] = w}

(* What the async with blocks of a request give back as they exit. *)
Scoped(r) == {<<r, "middleware">>, <<r, "module">>}

(* The middleware opens the public session that finds the tenant. *)
Arrive(r) ==
  /\ pc[r] = "new" /\ CheckOut(r, "middleware")
  /\ Goto(r, "tenant")
  /\ UNCHANGED <<permits, wrote, durable, summary>>

(* The tenant is known; the endpoint's dependencies are resolved, the      *)
(* session or the user first, as the endpoint names them.                  *)
FindTenant(r) ==
  /\ pc[r] = "tenant"
  /\ \E step \in {"main", "user"} : Goto(r, step)
  /\ UNCHANGED <<conns, permits, wrote, durable, summary>>

(* get_db_with_tenant, for the endpoint's own session ... *)
OpenMain(r) ==
  /\ pc[r] \in {"main", "session"} /\ CheckOut(r, "main")
  /\ Goto(r, IF pc[r] = "main" THEN "user" ELSE "module")
  /\ UNCHANGED <<permits, wrote, durable, summary>>

(* ... and again in get_current_user. *)
OpenUser(r) ==
  /\ pc[r] = "user" /\ CheckOut(r, "user")
  /\ Goto(r, "auth")
  /\ UNCHANGED <<permits, wrote, durable, summary>>

(* The endpoint has its session, or opens it next. *)
Resolved(r) == IF <<r, "main">> \in conns THEN "module" ELSE "session"

(* The user is found, and returned from inside the generator's loop.  Some *)
(* endpoints require permissions, which users below SUPER_ADMIN look up.   *)
Authenticate(r) ==
  /\ pc[r] = "auth"
  /\ \E step \in {"perms", Resolved(r)} : Goto(r, step)
  /\ UNCHANGED <<conns, permits, wrote, durable, summary>>

(* get_user_permissions opens a session of its own ... *)
OpenPermissions(r) ==
  /\ pc[r] = "perms" /\ CheckOut(r, "perms")
  /\ Goto(r, "permit")
  /\ UNCHANGED <<permits, wrote, durable, summary>>

(* ... and returns from inside its loop too. *)
Authorise(r) ==
  /\ pc[r] = "permit"
  /\ Goto(r, Resolved(r))
  /\ UNCHANGED <<conns, permits, wrote, durable, summary>>

(* Sessions whose generator nobody iterates any more: those of the user's  *)
(* and the permissions' lookup once it has returned or raised, and the     *)
(* endpoint's when an exception was thrown into get_db_with_tenant around  *)
(* it.                                                                     *)
Abandoned(r) ==
  {c \in conns : \/ c = <<r, "user">> /\ pc[r] # "auth"
                 \/ c = <<r, "perms">> /\ pc[r] # "permit"
                 \/ c = <<r, "main">> /\ pc[r] = "failed"}

(* The event loop finalises an abandoned generator: its connection closes. *)
Finalise(r) ==
  /\ \E c \in Abandoned(r) : conns' = conns \ {c}
  /\ UNCHANGED <<pc, permits, wrote, durable, summary>>

(* require_module has the answer in its cache ... *)
CheckModule(r) ==
  /\ pc[r] = "module"
  /\ \E step \in {"endpoint", "miss"} : Goto(r, step)
  /\ UNCHANGED <<conns, permits, wrote, durable, summary>>

(* ... or asks the database. *)
OpenModule(r) ==
  /\ pc[r] = "miss" /\ CheckOut(r, "module")
  /\ Goto(r, "check")
  /\ UNCHANGED <<permits, wrote, durable, summary>>

(* Access granted.  The connection stays checked out around the endpoint.  *)
ModuleGranted(r) ==
  /\ pc[r] = "check"
  /\ Goto(r, "endpoint")
  /\ UNCHANGED <<conns, permits, wrote, durable, summary>>

(* Mutant: the session's flush is taken for a commit. *)
BugKept(written) == {}

(* Mutant: requests share a connection, so one commit keeps everybody's work. *)
BugShared(written) == Requests

(* conn.commit() keeps what the session wrote. *)
Kept(written) == written

(* The endpoint writes, or does not, and returns through require_module.   *)
Work(r) ==
  /\ pc[r] = "endpoint"
  /\ \E written \in SUBSET {r} : wrote' = wrote \cup written
  /\ conns' = conns \ {<<r, "module">>}
  /\ Goto(r, "commit")
  /\ UNCHANGED <<permits, durable, summary>>

(* get_tenant_session resumes behind its yield: flush and conn.commit().   *)
Finish(r) ==
  /\ pc[r] = "commit"
  /\ durable' = durable \cup Kept({r} \cap wrote)
  /\ conns' = conns \ (Scoped(r) \cup {<<r, "main">>})
  /\ Goto(r, "done")
  /\ UNCHANGED <<permits, wrote, summary>>

(* An exception anywhere: unknown tenant or user, module not enabled, an   *)
(* error of the endpoint, of a query, or of the commit.                    *)
FailRequest(r) ==
  /\ pc[r] \notin Ended
  /\ conns' = conns \ Scoped(r)
  /\ Goto(r, "failed")
  /\ UNCHANGED <<permits, wrote, durable, summary>>

-----------------------------------------------------------------------------
(* run_job: get_active_tenants has a session of its own ... *)
ListTenants(j) ==
  /\ pc[j] = "new" /\ CheckOut(j, "list")
  /\ Goto(j, "list")
  /\ UNCHANGED <<permits, wrote, durable, summary>>

(* ... closed before the tenants' tasks are gathered. *)
Gather(j) ==
  /\ pc[j] = "list"
  /\ conns' = conns \ Held(j)
  /\ pc' = [w \in Workers |-> IF w = j THEN "gather"
                              ELSE IF w \in {j} \X Tenants THEN "queued" ELSE pc[w]]
  /\ UNCHANGED <<permits, wrote, durable, summary>>

(* Mutant: every job has a semaphore of its own. *)
BugPermit(t) == Cardinality({u \in permits : u[1] = t[1]}) < MaxConcurrent

(* The runner is one object, shared by every job. *)
Permit(t) == Cardinality(permits) < MaxConcurrent

(* async with self._semaphore *)
EnterSemaphore(t) ==
  /\ pc[t] = "queued" /\ Permit(t)
  /\ permits' = permits \cup {t}
  /\ Goto(t, "connect")
  /\ UNCHANGED <<conns, wrote, durable, summary>>

(* engine.connect() and SET search_path *)
Connect(t) ==
  /\ pc[t] = "connect" /\ CheckOut(t, "task")
  /\ Goto(t, "job")
  /\ UNCHANGED <<permits, wrote, durable, summary>>

(* The job function returns, session.commit() flushes, the status becomes  *)
(* "success", and the connection is closed without a commit of its own.    *)
Succeed(t) ==
  /\ pc[t] = "job"
  /\ \E written \in SUBSET {t} : wrote' = wrote \cup written
  /\ conns' = conns \ Held(t)
  /\ permits' = permits \ {t}
  /\ Goto(t, "done")
  /\ UNCHANGED <<durable, summary>>

(* The job raises: rollback, status "failed". *)
FailTask(t) ==
  /\ pc[t] \in {"connect", "job"}
  /\ conns' = conns \ Held(t)
  /\ permits' = permits \ {t}
  /\ Goto(t, "failed")
  /\ UNCHANGED <<wrote, durable, summary>>

Count(j, step) == Cardinality({t \in {j} \X Tenants : pc[t] = step})

(* Mutant: gather without return_exceptions returns at the first failure. *)
BugGathered(j) ==
  \/ \A t \in {j} \X Tenants : pc[t] \in Ended
  \/ \E t \in {j} \X Tenants : pc[t] = "failed"

(* asyncio.gather with return_exceptions=True waits for every task. *)
Gathered(j) == \A t \in {j} \X Tenants : pc[t] \in Ended

Summarise(j) ==
  /\ pc[j] = "gather" /\ Gathered(j)
  /\ summary' = [summary EXCEPT ![j] =
       [successful |-> Count(j, "done"), failed |-> Count(j, "failed")]]
  /\ Goto(j, "done")
  /\ UNCHANGED <<conns, permits, wrote, durable>>

(* The tenants cannot be listed: the scheduler logs it. *)
FailJob(j) ==
  /\ pc[j] \in {"new", "list"}
  /\ conns' = conns \ Held(j)
  /\ Goto(j, "failed")
  /\ UNCHANGED <<permits, wrote, durable, summary>>

-----------------------------------------------------------------------------
Advance(w) ==
  \/ w \in Requests /\ \/ Arrive(w) \/ FindTenant(w) \/ OpenMain(w) \/ OpenUser(w)
                       \/ Authenticate(w) \/ OpenPermissions(w) \/ Authorise(w) \/ CheckModule(w)
                       \/ OpenModule(w) \/ ModuleGranted(w) \/ Work(w) \/ Finish(w)
  \/ w \in Jobs /\ (ListTenants(w) \/ Gather(w) \/ Summarise(w))
  \/ w \in Tasks /\ (EnterSemaphore(w) \/ Connect(w) \/ Succeed(w))

Fail(w) ==
  \/ w \in Requests /\ FailRequest(w)
  \/ w \in Jobs /\ FailJob(w)
  \/ w \in Tasks /\ FailTask(w)

(* Mutant: a worker waits for a connection as long as it takes. *)
BugTimesOut(w) == FALSE

(* pool_timeout *)
TimesOut(w) == pc[w] \in Waiting /\ ~ Room

AllEnded == (\A w \in Workers : pc[w] \in Ended \cup {"idle"}) /\ UNCHANGED vars

Next ==
  \/ \E w \in Workers : Advance(w) \/ Fail(w)
  \/ \E r \in Requests : Finalise(r)
  \/ AllEnded

Spec == Init /\ [][Next]_vars

(* The event loop runs what can run, the pool gives up waiting, and        *)
(* abandoned generators are finalised.                                     *)
Fairness ==
  /\ \A w \in Workers : WF_vars(Advance(w)) /\ WF_vars(TimesOut(w) /\ Fail(w))
  /\ \A r \in Requests : WF_vars(Finalise(r))

FairSpec == Spec /\ Fairness

-----------------------------------------------------------------------------
(* The state has the types of the pool, the semaphore and the workers. *)
TypeOK ==
  /\ pc \in [Workers -> Steps]
  /\ conns \in SUBSET (Workers \X Slots)
  /\ permits \in SUBSET Tasks
  /\ wrote \in SUBSET Workers /\ durable \in SUBSET wrote
  /\ summary \in [Jobs -> [successful : Nat, failed : Nat]]

(* A request that succeeds has its writes committed, and one that fails,   *)
(* before, inside or after its endpoint, leaves none, whatever connections *)
(* it held or left behind.                                                 *)
RequestsAtomic ==
  \A r \in Requests : r \in durable <=> pc[r] = "done" /\ r \in wrote

(* The tasks of jobs of all kinds together never use more connections than *)
(* the runner has permits.  Beside them a job that lists the tenants uses  *)
(* one connection, outside the semaphore, so all jobs together leave the   *)
(* rest of the pool to requests but for one connection per job fired.      *)
JobShare == Cardinality({c \in conns : c[1] \in Tasks}) <= MaxConcurrent

(* A finished job accounts for every tenant: one tenant's failure loses    *)
(* neither its own result nor another's.                                   *)
SummaryAddsUp ==
  \A j \in Jobs : pc[j] = "done" =>
    summary[j].successful + summary[j].failed = Cardinality(Tenants)

(* Every worker ends and every connection returns to the pool, though      *)
(* requests wait for up to four more connections while they hold the       *)
(* first: only the pool's timeout breaks the cycle when all of them wait,  *)
(* and only finalisation returns the connections of the lookups of users   *)
(* and permissions.                                                        *)
EverybodyEnds ==
  <>[](conns = {} /\ permits = {} /\ \A w \in Requests \cup Jobs : pc[w] \in Ended)

(* What a job wrote for a tenant it reports as successful is kept. *)
JobsPersist == \A t \in Tasks : pc[t] = "done" /\ t \in wrote => t \in durable
=============================================================================
