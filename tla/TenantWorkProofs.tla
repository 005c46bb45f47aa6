-------------------------- MODULE TenantWorkProofs --------------------------
(***************************************************************************)
(* Proofs about TenantWork, for any requests, jobs and tenants and any     *)
(* size of the pool and the semaphore: requests commit all or nothing,     *)
(* jobs stay inside their share of the pool, and a job that ends accounts  *)
(* for every tenant.                                                       *)
(***************************************************************************)
EXTENDS TenantWork, FiniteSetTheorems, TLAPS

(* A task that has or wants its connection holds a permit, a task holds    *)
(* the one connection, and there are no more permits than allowed.         *)
Permitted ==
  /\ \A t \in Tasks : pc[t] \in {"connect", "job"} => t \in permits
  /\ \A c \in conns : c[1] \in Tasks => c[1] \in permits /\ c[2] = "task"
  /\ Cardinality(permits) <= MaxConcurrent

IInv == TypeOK /\ RequestsAtomic /\ Permitted /\ SummaryAddsUp

(* Requests, jobs and tasks are different things, and finitely many.       *)
LEMMA Kinds ==
  /\ \A r \in Requests : r \notin Jobs /\ r \notin Tasks /\ r \in Workers
  /\ \A j \in Jobs : j \notin Requests /\ j \notin Tasks /\ j \in Workers
  /\ \A t \in Tasks : t \notin Requests /\ t \notin Jobs /\ t \in Workers
  /\ \A j \in Jobs : \A t \in {j} \X Tenants : t \in Tasks
  /\ IsFiniteSet(Tasks) /\ MaxConcurrent \in Nat
<1>1. IsFiniteSet(Jobs \X Tenants)
  BY WorkAssumption, FS_Product
<1> QED BY <1>1, WorkAssumption DEF Workers, Tasks

LEMMA StepNames == Ended \subseteq Steps /\ "new" \in Steps /\ "idle" \in Steps
BY DEF Steps, Ended

(* Permits are finitely many. *)
LEMMA FinitePermits ==
  ASSUME NEW S \in SUBSET Tasks
  PROVE  IsFiniteSet(S) /\ Cardinality(S) \in Nat
BY Kinds, FS_Subset, FS_CardinalityType

(* The tasks of a job in one state are a number.                           *)
LEMMA CountType ==
  ASSUME NEW j \in Jobs, NEW step
  PROVE  Count(j, step) \in Nat
<1>1. {t \in {j} \X Tenants : pc[t] = step} \in SUBSET Tasks
  BY Kinds
<1> QED BY <1>1, FinitePermits DEF Count

(* When all tasks of a job have ended, those that are done and those that  *)
(* failed are as many as the tenants.                                      *)
LEMMA CountsAddUp ==
  ASSUME NEW j \in Jobs, Gathered(j)
  PROVE  Count(j, "done") + Count(j, "failed") = Cardinality(Tenants)
<1> DEFINE S(step) == {t \in {j} \X Tenants : pc[t] = step}
<1>1. IsFiniteSet({j} \X Tenants) /\ Cardinality({j} \X Tenants) = Cardinality(Tenants)
  <2>1. IsFiniteSet({j}) /\ Cardinality({j}) = 1
    BY FS_Singleton
  <2>2. IsFiniteSet(Tenants) /\ Cardinality(Tenants) \in Nat
    BY WorkAssumption, FS_CardinalityType
  <2>3. Cardinality({j} \X Tenants) = Cardinality({j}) * Cardinality(Tenants)
          /\ IsFiniteSet({j} \X Tenants)
    BY <2>1, <2>2, FS_Product
  <2> QED BY <2>1, <2>2, <2>3
<1>2. S("done") \cup S("failed") = {j} \X Tenants /\ S("done") \cap S("failed") = {}
  BY DEF Gathered, Ended
<1>3. IsFiniteSet(S("done")) /\ IsFiniteSet(S("failed"))
  BY <1>1, FS_Subset
<1>4. Cardinality(S("done") \cup S("failed"))
        = Cardinality(S("done")) + Cardinality(S("failed")) - Cardinality(S("done") \cap S("failed"))
  BY <1>3, FS_Union
<1>5. Cardinality(S("done") \cap S("failed")) = 0
  BY <1>2, FS_EmptySet
<1>6. Cardinality(S("done")) \in Nat /\ Cardinality(S("failed")) \in Nat
  BY <1>3, FS_CardinalityType
<1>7. Cardinality(S("done") \cup S("failed")) = Cardinality(Tenants)
  BY <1>1, <1>2
<1>8. Count(j, "done") = Cardinality(S("done")) /\ Count(j, "failed") = Cardinality(S("failed"))
  BY DEF Count
<1> HIDE DEF S
<1> QED BY <1>4, <1>5, <1>6, <1>7, <1>8

(* Nobody has begun at first. *)
LEMMA InitInv == Init => IInv
<1> SUFFICES ASSUME Init PROVE IInv
  OBVIOUS
<1>1. TypeOK
  BY StepNames DEF Init, TypeOK
<1>2. RequestsAtomic /\ SummaryAddsUp
  BY Kinds DEF Init, RequestsAtomic, SummaryAddsUp
<1>3. Permitted
  <2>1. \A t \in Tasks : pc[t] = "idle"
    BY Kinds DEF Init
  <2>2. Cardinality(permits) = 0
    BY FS_EmptySet DEF Init
  <2> QED BY <2>1, <2>2, Kinds DEF Init, Permitted
<1> QED BY <1>1, <1>2, <1>3 DEF IInv

(* A request moves on: it commits what it wrote if and only if it ends     *)
(* well, and tasks and jobs are left alone.                                *)
LEMMA RequestStep ==
  ASSUME IInv, NEW r \in Requests, NEW step \in Steps,
         pc' = [pc EXCEPT ![r] = step], UNCHANGED <<permits, summary>>,
         conns' \subseteq conns \cup ({r} \X Slots),
         wrote' \in SUBSET Workers, durable' \subseteq wrote',
         \A q \in Requests \ {r} : /\ q \in wrote' <=> q \in wrote
                                   /\ q \in durable' <=> q \in durable,
         r \in durable' <=> step = "done" /\ r \in wrote'
  PROVE  IInv'
<1>1. /\ pc' \in [Workers -> Steps] /\ pc'[r] = step
      /\ \A w \in Workers \ {r} : pc'[w] = pc[w]
  BY Kinds DEF IInv, TypeOK
<1>2. TypeOK'
  BY <1>1, Kinds DEF IInv, TypeOK
<1>3. RequestsAtomic'
  BY <1>1, Kinds DEF IInv, RequestsAtomic
<1>4. Permitted'
  BY <1>1, Kinds DEF IInv, Permitted
<1>5. SummaryAddsUp'
  BY <1>1, Kinds DEF IInv, SummaryAddsUp
<1> QED BY <1>2, <1>3, <1>4, <1>5 DEF IInv

(* Steps of a request before its commit that write nothing.                *)
LEMMA QuietStep ==
  ASSUME IInv, NEW r \in Requests, pc[r] # "done", NEW step \in Steps, step # "done",
         Goto(r, step), UNCHANGED <<permits, wrote, durable, summary>>,
         conns' \subseteq conns \cup ({r} \X Slots)
  PROVE  IInv'
BY RequestStep DEF Goto, IInv, TypeOK, RequestsAtomic

LEMMA RequestAdvances ==
  ASSUME IInv, NEW r \in Requests,
         \/ Arrive(r) \/ FindTenant(r) \/ OpenMain(r) \/ OpenUser(r) \/ Authenticate(r)
         \/ OpenPermissions(r) \/ Authorise(r) \/ CheckModule(r) \/ OpenModule(r) \/ ModuleGranted(r) \/ Work(r) \/ Finish(r)
  PROVE  IInv'
<1> USE DEF Steps, Slots
<1>1. ASSUME Arrive(r) PROVE IInv'
  BY <1>1, QuietStep DEF Arrive, CheckOut
<1>2. ASSUME FindTenant(r) PROVE IInv'
  BY <1>2, QuietStep DEF FindTenant
<1>3. ASSUME OpenMain(r) PROVE IInv'
  BY <1>3, QuietStep DEF OpenMain, CheckOut
<1>4. ASSUME OpenUser(r) PROVE IInv'
  BY <1>4, QuietStep DEF OpenUser, CheckOut
<1>5. ASSUME Authenticate(r) PROVE IInv'
  BY <1>5, QuietStep DEF Authenticate, Resolved
<1>11. ASSUME OpenPermissions(r) PROVE IInv'
  BY <1>11, QuietStep DEF OpenPermissions, CheckOut
<1>12. ASSUME Authorise(r) PROVE IInv'
  BY <1>12, QuietStep DEF Authorise, Resolved
<1>6. ASSUME CheckModule(r) PROVE IInv'
  BY <1>6, QuietStep DEF CheckModule
<1>7. ASSUME OpenModule(r) PROVE IInv'
  BY <1>7, QuietStep DEF OpenModule, CheckOut
<1>8. ASSUME ModuleGranted(r) PROVE IInv'
  BY <1>8, QuietStep DEF ModuleGranted
<1>9. ASSUME Work(r) PROVE IInv'
  <2>1. PICK written \in SUBSET {r} : wrote' = wrote \cup written
    BY <1>9 DEF Work
  <2>2. wrote' \in SUBSET Workers /\ durable \subseteq wrote'
          /\ \A q \in Requests \ {r} : q \in wrote' <=> q \in wrote
    BY <2>1, Kinds DEF IInv, TypeOK
  <2>3. r \notin durable
    BY <1>9 DEF Work, IInv, RequestsAtomic
  <2>4. pc' = [pc EXCEPT ![r] = "commit"] /\ conns' \subseteq conns
          /\ UNCHANGED <<permits, durable, summary>>
    BY <1>9 DEF Work, Goto
  <2>5. "commit" \in Steps
    OBVIOUS
  <2> QED BY <2>2, <2>3, <2>4, <2>5, RequestStep
<1>10. ASSUME Finish(r) PROVE IInv'
  <2>1. /\ durable' = durable \cup ({r} \cap wrote) /\ pc' = [pc EXCEPT ![r] = "done"]
        /\ conns' \subseteq conns /\ UNCHANGED <<permits, wrote, summary>> /\ pc[r] = "commit"
    BY <1>10 DEF Finish, Kept, Goto
  <2>2. r \notin durable
    BY <2>1 DEF IInv, RequestsAtomic
  <2>3. wrote' \in SUBSET Workers /\ durable' \subseteq wrote'
          /\ \A q \in Requests \ {r} : q \in durable' <=> q \in durable
    BY <2>1 DEF IInv, TypeOK
  <2>4. "done" \in Steps
    BY DEF Ended
  <2> QED BY <2>1, <2>2, <2>3, <2>4, RequestStep
<1> QED
  BY <1>1, <1>2, <1>3, <1>4, <1>5, <1>6, <1>7, <1>8, <1>9, <1>10, <1>11, <1>12

(* An exception before the commit: nothing is durable.                     *)
LEMMA RequestFails ==
  ASSUME IInv, NEW r \in Requests, FailRequest(r)
  PROVE  IInv'
<1>1. pc[r] # "done" /\ "failed" \in Steps /\ Goto(r, "failed") /\ conns' \subseteq conns
        /\ UNCHANGED <<permits, wrote, durable, summary>>
  BY DEF FailRequest, Ended, Steps
<1> QED BY <1>1, QuietStep

LEMMA SessionFinalised ==
  ASSUME IInv, NEW r \in Requests, Finalise(r)
  PROVE  IInv'
<1>1. conns' \subseteq conns /\ UNCHANGED <<pc, permits, wrote, durable, summary>>
  BY DEF Finalise
<1> QED BY <1>1 DEF IInv, TypeOK, RequestsAtomic, Permitted, SummaryAddsUp

(* A job moves on without ending well. *)
LEMMA JobStep ==
  ASSUME IInv, NEW j \in Jobs, UNCHANGED <<permits, wrote, durable, summary>>,
         pc' \in [Workers -> Steps], pc'[j] # "done",
         \A w \in Workers : w # j => pc'[w] = pc[w] \/ (w \in Tasks /\ pc'[w] = "queued"),
         conns' \subseteq conns \cup ({j} \X Slots)
  PROVE  IInv'
<1>1. TypeOK'
  BY Kinds DEF IInv, TypeOK
<1>2. RequestsAtomic'
  BY Kinds DEF IInv, RequestsAtomic
<1>3. Permitted'
  BY Kinds DEF IInv, Permitted
<1>4. SummaryAddsUp'
  BY Kinds DEF IInv, SummaryAddsUp
<1> QED BY <1>1, <1>2, <1>3, <1>4 DEF IInv

LEMMA JobAdvances ==
  ASSUME IInv, NEW j \in Jobs, ListTenants(j) \/ Gather(j) \/ FailJob(j)
  PROVE  IInv'
<1> USE DEF Steps, Slots, Ended, Goto
<1>1. j \in Workers /\ pc \in [Workers -> Steps]
  BY Kinds DEF IInv, TypeOK
<1>2. CASE ListTenants(j)
  <2>1. /\ pc' = [pc EXCEPT ![j] = "list"] /\ conns' = conns \cup {<<j, "list">>}
        /\ UNCHANGED <<permits, wrote, durable, summary>>
    BY <1>2 DEF ListTenants, CheckOut
  <2>2. pc' \in [Workers -> Steps] /\ pc'[j] # "done" /\ \A w \in Workers : w # j => pc'[w] = pc[w]
    BY <1>1, <2>1
  <2>3. conns' \subseteq conns \cup ({j} \X Slots)
    BY <2>1
  <2> QED BY <2>1, <2>2, <2>3, JobStep
<1>3. CASE Gather(j)
  <2>1. /\ pc' = [w \in Workers |-> IF w = j THEN "gather"
                                    ELSE IF w \in {j} \X Tenants THEN "queued" ELSE pc[w]]
        /\ conns' \subseteq conns /\ UNCHANGED <<permits, wrote, durable, summary>>
    BY <1>3 DEF Gather
  <2>2. pc' \in [Workers -> Steps] /\ pc'[j] = "gather"
    BY <1>1, <2>1
  <2>3. \A w \in Workers : w # j => pc'[w] = pc[w] \/ (w \in Tasks /\ pc'[w] = "queued")
    BY <2>1 DEF Tasks
  <2> QED BY <2>1, <2>2, <2>3, JobStep
<1>4. CASE FailJob(j)
  <2>1. /\ pc' = [pc EXCEPT ![j] = "failed"] /\ conns' \subseteq conns
        /\ UNCHANGED <<permits, wrote, durable, summary>>
    BY <1>4 DEF FailJob
  <2>2. pc' \in [Workers -> Steps] /\ pc'[j] # "done" /\ \A w \in Workers : w # j => pc'[w] = pc[w]
    BY <1>1, <2>1
  <2> QED BY <2>1, <2>2, JobStep
<1> QED BY <1>2, <1>3, <1>4

(* The summary counts every tenant. *)
LEMMA JobSummarises ==
  ASSUME IInv, NEW j \in Jobs, Summarise(j)
  PROVE  IInv'
<1>1. /\ pc' = [pc EXCEPT ![j] = "done"] /\ UNCHANGED <<conns, permits, wrote, durable>>
      /\ summary' = [summary EXCEPT ![j] =
           [successful |-> Count(j, "done"), failed |-> Count(j, "failed")]]
      /\ Gathered(j)
  BY DEF Summarise, Goto
<1>2. PICK done \in Nat, failed \in Nat : done = Count(j, "done") /\ failed = Count(j, "failed")
  BY CountType
<1>3. done + failed = Cardinality(Tenants)
  BY <1>1, <1>2, CountsAddUp
<1>4. "done" \in Steps /\ j \in Workers
  BY Kinds DEF Steps, Ended
<1>5. TypeOK'
  BY <1>1, <1>2, <1>4 DEF IInv, TypeOK
<1>6. RequestsAtomic'
  BY <1>1, Kinds DEF IInv, TypeOK, RequestsAtomic
<1>7. Permitted'
  BY <1>1, Kinds DEF IInv, TypeOK, Permitted
<1>8. SummaryAddsUp'
  <2> SUFFICES ASSUME NEW k \in Jobs, pc'[k] = "done"
               PROVE  summary'[k].successful + summary'[k].failed = Cardinality(Tenants)
    BY DEF SummaryAddsUp
  <2>1. CASE k = j
    BY <2>1, <1>1, <1>2, <1>3 DEF IInv, TypeOK
  <2>2. CASE k # j
    BY <2>2, <1>1, Kinds DEF IInv, TypeOK, SummaryAddsUp
  <2> QED BY <2>1, <2>2
<1> QED BY <1>5, <1>6, <1>7, <1>8 DEF IInv

(* A task moves on, keeping its permit as long as it has a connection.     *)
LEMMA TaskStep ==
  ASSUME IInv, NEW t \in Tasks, NEW step \in Steps,
         pc' = [pc EXCEPT ![t] = step], UNCHANGED <<durable, summary>>,
         wrote' \in SUBSET Workers, wrote \subseteq wrote',
         \A r \in Requests : r \in wrote' <=> r \in wrote,
         permits' \in SUBSET Tasks, permits \subseteq permits' \cup {t},
         Cardinality(permits') <= MaxConcurrent,
         step \in {"connect", "job"} => t \in permits',
         \A c \in conns' : c \in conns \/ (c = <<t, "task">> /\ t \in permits'),
         t \in permits' \/ \A c \in conns' : c[1] # t
  PROVE  IInv'
<1>1. /\ pc' \in [Workers -> Steps] /\ pc'[t] = step
      /\ \A w \in Workers \ {t} : pc'[w] = pc[w]
  BY Kinds DEF IInv, TypeOK
<1>2. conns' \in SUBSET (Workers \X Slots)
  BY Kinds DEF IInv, TypeOK, Slots
<1>3. TypeOK'
  BY <1>1, <1>2 DEF IInv, TypeOK
<1>4. RequestsAtomic'
  BY <1>1, Kinds DEF IInv, RequestsAtomic
<1>5. Permitted'
  <2>1. \A u \in Tasks : pc'[u] \in {"connect", "job"} => u \in permits'
    BY <1>1, Kinds DEF IInv, Permitted
  <2>2. \A c \in conns' : c[1] \in Tasks => c[1] \in permits' /\ c[2] = "task"
    BY DEF IInv, Permitted
  <2> QED BY <2>1, <2>2 DEF Permitted
<1>6. SummaryAddsUp'
  BY <1>1, Kinds DEF IInv, SummaryAddsUp
<1> QED BY <1>3, <1>4, <1>5, <1>6 DEF IInv

LEMMA TaskAdvances ==
  ASSUME IInv, NEW t \in Tasks, EnterSemaphore(t) \/ Connect(t) \/ Succeed(t) \/ FailTask(t)
  PROVE  IInv'
<1>1. /\ wrote \in SUBSET Workers /\ permits \in SUBSET Tasks
      /\ IsFiniteSet(permits) /\ Cardinality(permits) \in Nat
      /\ Cardinality(permits) <= MaxConcurrent /\ MaxConcurrent \in Nat
  BY FinitePermits, Kinds DEF IInv, TypeOK, Permitted
<1>2. Cardinality(permits \ {t}) <= MaxConcurrent
  BY <1>1, FS_RemoveElement
<1>3. {"connect", "job", "done", "failed"} \subseteq Steps
  BY DEF Steps, Ended
<1>4. CASE EnterSemaphore(t)
  <2>1. /\ pc' = [pc EXCEPT ![t] = "connect"] /\ permits' = permits \cup {t}
        /\ UNCHANGED <<conns, wrote, durable, summary>>
        /\ Cardinality(permits) < MaxConcurrent
    BY <1>4 DEF EnterSemaphore, Permit, Goto
  <2>2. Cardinality(permits') <= MaxConcurrent
    BY <1>1, <2>1, FS_AddElement
  <2>3. /\ permits' \in SUBSET Tasks /\ permits \subseteq permits' \cup {t} /\ t \in permits'
        /\ wrote' \in SUBSET Workers /\ wrote \subseteq wrote' /\ "connect" \in Steps
        /\ \A r \in Requests : r \in wrote' <=> r \in wrote
    BY <1>1, <1>3, <2>1
  <2>4. \A c \in conns' : c \in conns
    BY <2>1
  <2> QED BY <2>1, <2>2, <2>3, <2>4, TaskStep
<1>5. CASE Connect(t)
  <2>1. /\ pc' = [pc EXCEPT ![t] = "job"] /\ conns' = conns \cup {<<t, "task">>}
        /\ UNCHANGED <<permits, wrote, durable, summary>> /\ pc[t] = "connect"
    BY <1>5 DEF Connect, CheckOut, Goto
  <2>2. t \in permits
    BY <2>1 DEF IInv, Permitted
  <2>3. /\ permits' \in SUBSET Tasks /\ permits \subseteq permits' \cup {t} /\ t \in permits'
        /\ wrote' \in SUBSET Workers /\ wrote \subseteq wrote' /\ "job" \in Steps
        /\ \A r \in Requests : r \in wrote' <=> r \in wrote
        /\ Cardinality(permits') <= MaxConcurrent
    BY <1>1, <1>3, <2>1, <2>2
  <2>4. \A c \in conns' : c \in conns \/ (c = <<t, "task">> /\ t \in permits')
    BY <2>1, <2>2
  <2> QED BY <2>1, <2>3, <2>4, TaskStep
<1>6. CASE Succeed(t)
  <2>1. PICK written \in SUBSET {t} : wrote' = wrote \cup written
    BY <1>6 DEF Succeed
  <2>2. /\ pc' = [pc EXCEPT ![t] = "done"] /\ permits' = permits \ {t}
        /\ conns' = conns \ Held(t) /\ UNCHANGED <<durable, summary>>
    BY <1>6 DEF Succeed, Goto
  <2>3. \A c \in conns' : c \in conns /\ c[1] # t
    BY <2>2 DEF Held
  <2>4. wrote' \in SUBSET Workers /\ wrote \subseteq wrote'
          /\ \A r \in Requests : r \in wrote' <=> r \in wrote
    BY <1>1, <2>1, Kinds
  <2> QED BY <1>1, <1>2, <1>3, <2>2, <2>3, <2>4, TaskStep
<1>7. CASE FailTask(t)
  <2>1. /\ pc' = [pc EXCEPT ![t] = "failed"] /\ permits' = permits \ {t}
        /\ conns' = conns \ Held(t) /\ UNCHANGED <<wrote, durable, summary>>
    BY <1>7 DEF FailTask, Goto
  <2>2. \A c \in conns' : c \in conns /\ c[1] # t
    BY <2>1 DEF Held
  <2> QED BY <1>1, <1>2, <1>3, <2>1, <2>2, TaskStep
<1> QED BY <1>4, <1>5, <1>6, <1>7

(* Every step keeps the invariant. *)
LEMMA StepInv == IInv /\ [Next]_vars => IInv'
<1> SUFFICES ASSUME IInv, [Next]_vars PROVE IInv'
  OBVIOUS
<1>1. ASSUME NEW w \in Workers, Advance(w) PROVE IInv'
  BY <1>1, RequestAdvances, JobAdvances, JobSummarises, TaskAdvances DEF Advance
<1>2. ASSUME NEW w \in Workers, Fail(w) PROVE IInv'
  BY <1>2, RequestFails, JobAdvances, TaskAdvances DEF Fail
<1>3. ASSUME NEW r \in Requests, Finalise(r) PROVE IInv'
  BY <1>3, SessionFinalised
<1>4. ASSUME UNCHANGED vars PROVE IInv'
  BY <1>4 DEF vars, IInv, TypeOK, RequestsAtomic, Permitted, SummaryAddsUp
<1> QED BY <1>1, <1>2, <1>3, <1>4 DEF Next, AllEnded

(* The pool, the semaphore and the workers keep their types. *)
THEOREM TypeCorrect == Spec => []TypeOK
<1>1. IInv => TypeOK
  BY DEF IInv
<1> QED BY InitInv, StepInv, <1>1, PTL DEF Spec

(* A request that succeeds has all its writes committed, and one that      *)
(* fails has none, wherever it fails.                                      *)
THEOREM RequestsCommitOrNot == Spec => []RequestsAtomic
<1>1. IInv => RequestsAtomic
  BY DEF IInv
<1> QED BY InitInv, StepInv, <1>1, PTL DEF Spec

(* The tasks of all jobs never hold more connections than there are        *)
(* permits: each connection of a task goes with a permit of its own.       *)
THEOREM JobsKeepTheirShare == Spec => []JobShare
<1>1. IInv => JobShare
  <2> SUFFICES ASSUME IInv PROVE JobShare
    OBVIOUS
  <2> DEFINE C == {c \in conns : c[1] \in Tasks}
  <2>1. permits \in SUBSET Tasks /\ IsFiniteSet(permits) /\ Cardinality(permits) \in Nat
    BY FinitePermits DEF IInv, TypeOK
  <2>2. C \in SUBSET (permits \X {"task"})
    BY DEF IInv, TypeOK, Permitted
  <2>3. IsFiniteSet({"task"}) /\ Cardinality({"task"}) = 1
    BY FS_Singleton
  <2>4. IsFiniteSet(permits \X {"task"})
          /\ Cardinality(permits \X {"task"}) = Cardinality(permits) * Cardinality({"task"})
    BY <2>1, <2>3, FS_Product
  <2>5. IsFiniteSet(C) /\ Cardinality(C) <= Cardinality(permits \X {"task"})
    BY <2>2, <2>4, FS_Subset
  <2>6. Cardinality(C) \in Nat
    BY <2>5, FS_CardinalityType
  <2>7. Cardinality(permits \X {"task"}) = Cardinality(permits)
    BY <2>1, <2>3, <2>4
  <2>8. Cardinality(C) <= MaxConcurrent
    BY <2>1, <2>5, <2>6, <2>7, Kinds DEF IInv, Permitted
  <2> QED BY <2>8 DEF JobShare
<1> QED BY InitInv, StepInv, <1>1, PTL DEF Spec

(* The summary of a job that ended counts every tenant once, as a success  *)
(* or as a failure, whatever failed.                                       *)
THEOREM SummariesAddUp == Spec => []SummaryAddsUp
<1>1. IInv => SummaryAddsUp
  BY DEF IInv
<1> QED BY InitInv, StepInv, <1>1, PTL DEF Spec
=============================================================================
