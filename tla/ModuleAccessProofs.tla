------------------------- MODULE ModuleAccessProofs -------------------------
(***************************************************************************)
(* Proofs about ModuleAccess: the state keeps its type, and no request is  *)
(* let in or turned away on an answer older than the cache's TTL and one   *)
(* query, for any tenants' modules, requests, TTL and latency.  Where      *)
(* requests do not overlap, a change takes effect immediately.             *)
(***************************************************************************)
EXTENDS ModuleAccessModes, TLAPS

(* The bounds on ages are natural numbers. *)
LEMMA Bounds ==
  TTL \in Nat /\ TTL > 0 /\ MaxLatency \in Nat /\ Horizon \in Nat
    /\ Horizon = TTL + MaxLatency + 1
BY AccessAssumption DEF Horizon

(* The module a request must have access to is a module. *)
LEMMA RequiredModule ==
  ASSUME TypeOK, NEW r \in Requests
  PROVE  Required(r) \in Modules
BY AccessAssumption DEF TypeOK, Required

(* Growing older stays within the bound. *)
LEMMA LaterType ==
  ASSUME NEW bound \in Nat, NEW ticks \in 0 .. bound
  PROVE  Later(ticks, bound) \in 0 .. bound
BY DEF Later

(* An entry that has aged is an entry. *)
LEMMA AgedType ==
  ASSUME NEW entry \in Entries \cup {NoEntry}
  PROVE  Aged(entry) \in Entries \cup {NoEntry}
<1>1. CASE entry = NoEntry
  BY <1>1 DEF Aged
<1>2. CASE entry # NoEntry
  <2>1. entry \in Entries /\ entry.age \in 0 .. TTL
    BY <1>2 DEF Entries
  <2>2. Later(entry.age, TTL) \in 0 .. TTL
    BY <2>1, Bounds, LaterType
  <2> QED BY <1>2, <2>1, <2>2 DEF Aged, Entries
<1> QED BY <1>1, <1>2

(* Subscriptions, entries and ages have their types initially ... *)
LEMMA TypeInit == Init => TypeOK
<1> SUFFICES ASSUME Init PROVE TypeOK
  OBVIOUS
<1>1. last \in [Modules -> [Answers -> 0 .. Horizon]]
  BY Bounds DEF Init
<1>2. since \in [Requests -> 0 .. MaxLatency]
  BY Bounds DEF Init
<1> QED BY <1>1, <1>2 DEF Init, TypeOK, Steps, Ended

(* ... and every step keeps them. *)
LEMMA TypeNext == TypeOK /\ [Next]_vars => TypeOK'
<1> SUFFICES ASSUME TypeOK, [Next]_vars PROVE TypeOK'
  OBVIOUS
<1> USE DEF TypeOK, Goto, Steps, Ended, table
<1>1. ASSUME NEW r \in Requests, LookUp(r) PROVE TypeOK'
  BY <1>1 DEF LookUp, Decide
<1>2. ASSUME NEW r \in Requests, Query(r) PROVE TypeOK'
  <2>1. PICK found \in SUBSET (Requests \cup {Onboarding}) : found = active[Required(r)]
    BY RequiredModule
  <2>2. CASE Cardinality(found) > 1
    BY <1>2, <2>1, <2>2 DEF Query
  <2>3. CASE ~ Cardinality(found) > 1
    <3>1. /\ seen' = [seen EXCEPT ![r] = found] /\ since' = [since EXCEPT ![r] = 0]
          /\ UNCHANGED <<rows, active, last, cache, op, module>>
          /\ pc' = [pc EXCEPT ![r] = "store"]
      BY <1>2, <2>1, <2>3 DEF Query
    <3>2. seen' \in [Requests -> SUBSET (Requests \cup {Onboarding})]
          /\ since' \in [Requests -> 0 .. MaxLatency]
      BY <2>1, <3>1, Bounds
    <3>3. pc' \in [Requests -> Steps]
          /\ \A q \in Requests : pc'[q] = "write" => pc[q] = "write"
      BY <3>1
    <3> QED BY <3>1, <3>2, <3>3
  <2> QED BY <2>2, <2>3
<1>3. ASSUME NEW r \in Requests, Store(r) PROVE TypeOK'
  <2>1. [access |-> Answer(seen[r]), age |-> 0] \in Entries
    BY Bounds DEF Entries, Answer, Answers
  <2> QED BY <1>3, <2>1 DEF Store, Decide
<1>4. ASSUME NEW r \in Requests, UseModule(r) PROVE TypeOK'
  BY <1>4 DEF UseModule
<1>5. ASSUME NEW r \in Requests, ReadRows(r) PROVE TypeOK'
  BY <1>5 DEF ReadRows, Refused
<1>6. ASSUME NEW r \in Requests, Join(r) \/ Leave(r) PROVE TypeOK'
  <2>1. /\ rows' \in [Modules -> SUBSET (Requests \cup {Onboarding})]
        /\ active' \in [Modules -> SUBSET (Requests \cup {Onboarding})]
    <3>1. CASE Join(r)
      <4>1. CASE Conflict(module[r])
        BY <3>1, <4>1 DEF Join
      <4>2. CASE ~ Conflict(module[r])
        <5>1. /\ rows' = [rows EXCEPT ![module[r]] = @ \cup {r}]
              /\ active' = [active EXCEPT ![module[r]] = @ \cup {r}]
          BY <3>1, <4>2 DEF Join
        <5> QED BY <5>1
      <4> QED BY <4>1, <4>2
    <3>2. CASE Leave(r)
      BY <3>2 DEF Leave
    <3> QED BY <1>6, <3>1, <3>2
  <2>2. last' \in [Modules -> [Answers -> 0 .. Horizon]]
    <3>1. PICK m \in Modules : m = module[r]
      OBVIOUS
    <3>2. PICK now \in Answers : now = Answer(active'[m])
      BY DEF Answer, Answers
    <3>3. AnswerNow(m) \/ UNCHANGED last
      BY <1>6, <3>1 DEF Join, Leave
    <3>4. CASE last' = [last EXCEPT ![m] = [a \in Answers |-> IF a = now THEN 0 ELSE @[a]]]
      BY <3>4, Bounds
    <3> QED BY <3>2, <3>3, <3>4 DEF AnswerNow
  <2>3. \A m \in BaseModules : active'[m] # {}
    <3>1. \A m \in Modules \ {module[r]} : active'[m] = active[m]
      BY <1>6 DEF Join, Leave
    <3>2. CASE Join(r)
      <4>1. active[module[r]] \subseteq active'[module[r]]
        BY <3>2 DEF Join
      <4> QED BY <3>1, <4>1, AccessAssumption
    <3>3. CASE Leave(r)
      BY <3>1, <3>3, AccessAssumption DEF Leave
    <3> QED BY <1>6, <3>2, <3>3
  <2>4. /\ pc' \in [Requests -> Steps]
        /\ \A q \in Requests : pc'[q] = "write" => pc[q] = "write"
        /\ UNCHANGED <<cache, op, module, seen, since>>
    BY <1>6 DEF Join, Leave
  <2> QED BY <2>1, <2>2, <2>3, <2>4
<1>7. ASSUME NEW r \in Requests, Clear(r) PROVE TypeOK'
  BY <1>7 DEF Clear
<1>8. ASSUME NEW r \in Requests, Fail(r) PROVE TypeOK'
  BY <1>8 DEF Fail
<1>9. ASSUME Restart PROVE TypeOK'
  BY <1>9 DEF Restart
<1>10. ASSUME Tick PROVE TypeOK'
  <2>1. cache' \in [Modules -> Entries \cup {NoEntry}]
    BY <1>10, AgedType DEF Tick
  <2>2. last' \in [Modules -> [Answers -> 0 .. Horizon]]
    BY <1>10, Bounds, LaterType DEF Tick
  <2>3. since' \in [Requests -> 0 .. MaxLatency]
    BY <1>10, Bounds DEF Tick
  <2> QED BY <1>10, <2>1, <2>2, <2>3 DEF Tick
<1>11. ASSUME UNCHANGED vars PROVE TypeOK'
  BY <1>11 DEF vars
<1> QED
  BY <1>1, <1>2, <1>3, <1>4, <1>5, <1>6, <1>7, <1>8, <1>9, <1>10, <1>11
  DEF Next, Step

(* The state always has its type. *)
THEOREM TypeCorrect == Spec => []TypeOK
BY TypeInit, TypeNext, PTL DEF Spec

-----------------------------------------------------------------------------
(* What makes a cached answer usable: the table gives its present answer   *)
(* now; a query that waits was answered as it says, since[r] ticks ago at  *)
(* most; a fresh entry repeats an answer at most one query older than it.  *)
TableNow == \A m \in Modules : last[m][Answer(active[m])] = 0

QueryHonest ==
  \A r \in Requests : pc[r] = "store" => last[Required(r)][Answer(seen[r])] <= since[r]

CacheHonest ==
  \A m \in Modules : Fresh(m) => last[m][cache[m].access] <= cache[m].age + MaxLatency

Honest == TableNow /\ QueryHonest /\ CacheHonest

IInv == TypeOK /\ Honest

(* The table's answers are current and nothing is cached initially. *)
LEMMA IInit == Init => IInv
<1> SUFFICES ASSUME Init PROVE Honest
  BY TypeInit DEF IInv
<1> QED BY DEF Init, Honest, TableNow, QueryHonest, CacheHonest, Fresh, Answer, Answers

(* A step that changes no row and no age keeps the answers honest if it    *)
(* only drops entries and starts no wait for a query.                      *)
LEMMA HonestQuiet ==
  ASSUME Honest, UNCHANGED <<active, last, op, module, since>>,
         \A r \in Requests : pc'[r] = "store" => pc[r] = "store" /\ seen'[r] = seen[r],
         \A m \in Modules : cache'[m] \in {cache[m], NoEntry}
  PROVE  Honest'
BY DEF Honest, TableNow, QueryHonest, CacheHonest, Fresh, Required

(* The table's answer for a module is as old as it was, or has just been   *)
(* given, after rows of the module are added or cancelled.                 *)
LEMMA HonestWrite ==
  ASSUME IInv, NEW m \in Modules, AnswerNow(m),
         NEW found \in SUBSET (Requests \cup {Onboarding}),
         active' = [active EXCEPT ![m] = found],
         UNCHANGED <<op, module, since, seen, cache>>,
         \A r \in Requests : pc'[r] = "store" => pc[r] = "store"
  PROVE  Honest'
<1> USE DEF IInv, TypeOK, Honest
<1>1. \A n \in Modules : \A b \in Answers :
        last'[n][b] \in {last[n][b], 0}
  BY DEF AnswerNow
<1>2. TableNow'
  BY DEF TableNow, AnswerNow, Answer, Answers
<1>3. QueryHonest'
  <2>1. SUFFICES ASSUME NEW r \in Requests, pc'[r] = "store"
                 PROVE  last'[Required(r)][Answer(seen[r])] <= since[r]
    BY DEF QueryHonest, Required
  <2>2. PICK b \in Answers : b = Answer(seen[r])
    BY DEF Answer, Answers
  <2>3. last[Required(r)][b] <= since[r] /\ since[r] \in Nat
    BY <2>1, <2>2, Bounds DEF QueryHonest
  <2>4. PICK n \in Modules : n = Required(r)
    BY RequiredModule
  <2>5. last'[n][b] \in {last[n][b], 0}
    BY <1>1
  <2>6. last'[n][b] <= since[r]
    BY <2>3, <2>4, <2>5
  <2> QED BY <2>2, <2>4, <2>6
<1>4. CacheHonest'
  <2>1. SUFFICES ASSUME NEW n \in Modules, Fresh(n)
                 PROVE  last'[n][cache[n].access] <= cache[n].age + MaxLatency
    BY DEF CacheHonest, Fresh
  <2>2. cache[n].access \in Answers /\ cache[n].age \in Nat
    BY <2>1, Bounds DEF Fresh, Entries
  <2>3. last[n][cache[n].access] <= cache[n].age + MaxLatency
    BY <2>1 DEF CacheHonest
  <2>4. last'[n][cache[n].access] \in {last[n][cache[n].access], 0}
    BY <1>1, <2>2
  <2> QED BY <2>2, <2>3, <2>4, Bounds
<1> QED BY <1>2, <1>3, <1>4

(* A stored answer is as old as its query at most.                         *)
LEMMA HonestStore ==
  ASSUME IInv, NEW r \in Requests, Store(r)
  PROVE  Honest'
<1> USE DEF IInv, TypeOK, Honest, Store, Goto, table
<1>1. PICK b \in Answers : b = Answer(seen[r])
  BY DEF Answer, Answers
<1>2. PICK m \in Modules : m = Required(r)
  BY RequiredModule
<1>3. last[m][b] <= since[r] /\ since[r] <= MaxLatency /\ since[r] \in Nat
  BY <1>1, <1>2, Bounds DEF QueryHonest
<1>4. cache' = [cache EXCEPT ![m] = [access |-> b, age |-> 0]]
  BY <1>1, <1>2
<1>5. CacheHonest'
  <2>1. SUFFICES ASSUME NEW n \in Modules, Fresh(n)'
                 PROVE  last[n][cache'[n].access] <= cache'[n].age + MaxLatency
    BY DEF CacheHonest
  <2>2. CASE n = m
    BY <1>3, <1>4, <2>2, Bounds
  <2>3. CASE n # m
    BY <1>4, <2>1, <2>3 DEF CacheHonest, Fresh
  <2> QED BY <2>2, <2>3
<1>6. TableNow'
  BY DEF TableNow
<1>7. \A q \in Requests : pc'[q] = "store" => pc[q] = "store"
  BY DEF Decide
<1>8. QueryHonest'
  BY <1>7 DEF QueryHonest, Required
<1> QED BY <1>5, <1>6, <1>8

(* Time makes every answer one tick older at most.                         *)
LEMMA HonestTick ==
  ASSUME IInv, Tick
  PROVE  Honest'
<1> USE DEF IInv, TypeOK, Honest
<1>1. \A n \in Modules : \A b \in Answers :
        last'[n][b] <= last[n][b] + 1 /\ last[n][b] \in Nat /\ last'[n][b] \in Nat
  BY Bounds DEF Tick, Later
<1>2. TableNow'
  BY DEF TableNow, Tick, Answer, Answers
<1>3. QueryHonest'
  <2>1. SUFFICES ASSUME NEW r \in Requests, pc[r] = "store"
                 PROVE  last'[Required(r)][Answer(seen[r])] <= since'[r]
    BY DEF QueryHonest, Required, Tick
  <2>2. PICK b \in Answers : b = Answer(seen[r])
    BY DEF Answer, Answers
  <2>3. since'[r] = since[r] + 1 /\ since[r] \in Nat
    BY <2>1, Bounds DEF Tick
  <2>4. last[Required(r)][b] <= since[r]
    BY <2>1, <2>2 DEF QueryHonest
  <2> QED BY <1>1, <2>2, <2>3, <2>4, RequiredModule
<1>4. CacheHonest'
  <2>1. SUFFICES ASSUME NEW n \in Modules, Fresh(n)'
                 PROVE  last'[n][cache'[n].access] <= cache'[n].age + MaxLatency
    BY DEF CacheHonest
  <2>2. cache[n] # NoEntry /\ cache[n] \in Entries
    BY <2>1 DEF Tick, Fresh, Aged
  <2>3. cache'[n] = [cache[n] EXCEPT !.age = Later(@, TTL)]
    BY <2>2 DEF Tick, Aged
  <2>4. /\ cache[n].age \in 0 .. TTL /\ cache[n].access \in Answers
        /\ cache'[n].age = Later(cache[n].age, TTL)
        /\ cache'[n].access = cache[n].access
    BY <2>2, <2>3 DEF Entries
  <2>5. cache[n].age < TTL /\ cache'[n].age = cache[n].age + 1
    BY <2>1, <2>4, Bounds DEF Fresh, Later
  <2>6. last[n][cache[n].access] <= cache[n].age + MaxLatency
    BY <2>2, <2>5 DEF CacheHonest, Fresh
  <2> QED BY <1>1, <2>4, <2>5, <2>6, Bounds
<1> QED BY <1>2, <1>3, <1>4

(* Every step keeps cached and awaited answers honest. *)
LEMMA INext == IInv /\ [Next]_vars => IInv'
<1> SUFFICES ASSUME IInv, [Next]_vars PROVE Honest'
  BY TypeNext DEF IInv
<1>0. TypeOK /\ Honest
  BY DEF IInv
<1> USE DEF Goto, table
<1>1. ASSUME NEW r \in Requests, LookUp(r) PROVE Honest'
  <2>1. \A m \in Modules : cache'[m] \in {cache[m], NoEntry}
    BY <1>0, <1>1 DEF LookUp
  <2>2. \A q \in Requests : pc'[q] = "store" => pc[q] = "store"
    BY <1>0, <1>1 DEF LookUp, Decide, TypeOK
  <2> QED BY <1>0, <1>1, <2>1, <2>2, HonestQuiet DEF LookUp
<1>2. ASSUME NEW r \in Requests, Query(r) PROVE Honest'
  <2>0. PICK m \in Modules : m = Required(r)
    BY <1>0, RequiredModule
  <2>1. PICK found \in SUBSET (Requests \cup {Onboarding}) : found = active[m]
    BY <1>0 DEF TypeOK
  <2>2. CASE Cardinality(found) > 1
    BY <1>0, <1>2, <2>0, <2>1, <2>2, HonestQuiet DEF Query, TypeOK
  <2>3. CASE ~ Cardinality(found) > 1
    <3>1. /\ seen' = [seen EXCEPT ![r] = found] /\ since' = [since EXCEPT ![r] = 0]
          /\ UNCHANGED <<active, last, cache, op, module>>
          /\ pc' = [pc EXCEPT ![r] = "store"]
      BY <1>2, <2>0, <2>1, <2>3 DEF Query
    <3>2. PICK b \in Answers : b = Answer(found)
      BY DEF Answer, Answers
    <3>3. last[m][b] = 0
      BY <1>0, <2>1, <3>2 DEF Honest, TableNow
    <3>4. QueryHonest'
      BY <1>0, <2>0, <3>1, <3>2, <3>3 DEF Honest, QueryHonest, Required, TypeOK
    <3> QED BY <1>0, <3>1, <3>4 DEF Honest, TableNow, CacheHonest, Fresh
  <2> QED BY <2>2, <2>3
<1>3. ASSUME NEW r \in Requests, Store(r) PROVE Honest'
  BY <1>3, HonestStore
<1>4. ASSUME NEW r \in Requests, UseModule(r) PROVE Honest'
  BY <1>0, <1>4, HonestQuiet DEF UseModule, TypeOK
<1>5. ASSUME NEW r \in Requests, ReadRows(r) PROVE Honest'
  BY <1>0, <1>5, HonestQuiet DEF ReadRows, TypeOK
<1>6. ASSUME NEW r \in Requests, Join(r) PROVE Honest'
  <2>1. CASE Conflict(module[r])
    BY <1>0, <1>6, <2>1, HonestQuiet DEF Join, TypeOK
  <2>2. CASE ~ Conflict(module[r])
    <3>1. active[module[r]] \cup {r} \in SUBSET (Requests \cup {Onboarding})
          /\ module[r] \in Modules
      BY <1>0 DEF TypeOK
    <3>2. \A q \in Requests : pc'[q] = "store" => pc[q] = "store"
      BY <1>0, <1>6, <2>2 DEF Join, TypeOK
    <3>3. active' = [active EXCEPT ![module[r]] = active[module[r]] \cup {r}]
          /\ AnswerNow(module[r]) /\ UNCHANGED <<op, module, since, seen, cache>>
      BY <1>6, <2>2 DEF Join
    <3> QED BY <3>1, <3>2, <3>3, HonestWrite
  <2> QED BY <2>1, <2>2
<1>7. ASSUME NEW r \in Requests, Leave(r) PROVE Honest'
  <2>1. active[module[r]] \ seen[r] \in SUBSET (Requests \cup {Onboarding})
        /\ module[r] \in Modules
    BY <1>0 DEF TypeOK
  <2>2. \A q \in Requests : pc'[q] = "store" => pc[q] = "store"
    BY <1>0, <1>7 DEF Leave, TypeOK
  <2>3. active' = [active EXCEPT ![module[r]] = active[module[r]] \ seen[r]]
        /\ AnswerNow(module[r]) /\ UNCHANGED <<op, module, since, seen, cache>>
    BY <1>7 DEF Leave
  <2> QED BY <2>1, <2>2, <2>3, HonestWrite
<1>8. ASSUME NEW r \in Requests, Clear(r) PROVE Honest'
  BY <1>0, <1>8, HonestQuiet DEF Clear, TypeOK
<1>9. ASSUME NEW r \in Requests, Fail(r) PROVE Honest'
  BY <1>0, <1>9, HonestQuiet DEF Fail, TypeOK
<1>10. ASSUME Restart PROVE Honest'
  BY <1>0, <1>10, HonestQuiet DEF Restart, TypeOK
<1>11. ASSUME Tick PROVE Honest'
  BY <1>11, HonestTick
<1>12. ASSUME UNCHANGED vars PROVE Honest'
  BY <1>0, <1>12, HonestQuiet DEF vars, TypeOK
<1> QED
  BY <1>1, <1>2, <1>3, <1>4, <1>5, <1>6, <1>7, <1>8, <1>9, <1>10, <1>11, <1>12
  DEF Next, Step

(* Whatever queries, changes, clears, lost connections and restarts do, an *)
(* answer that lets a request in or turns it away was the table's less     *)
(* than TTL + MaxLatency ticks ago.                                        *)
THEOREM AnswersAreRecent == Spec => BoundedStaleness
<1> DEFINE Recent ==
      \A r \in Requests : pc[r] \in {"new", "store"} /\ pc'[r] \in {"body", "denied"} =>
        last[Required(r)][IF pc'[r] = "body" THEN "yes" ELSE "no"] < TTL + MaxLatency
<1>1. IInv /\ [Next]_vars => [Recent]_vars
  <2> SUFFICES ASSUME IInv, Next,
                      NEW q \in Requests, pc[q] \in {"new", "store"}, pc'[q] \in {"body", "denied"}
               PROVE  last[Required(q)][IF pc'[q] = "body" THEN "yes" ELSE "no"] < TTL + MaxLatency
    OBVIOUS
  <2> USE DEF IInv, TypeOK, Honest, Goto
  <2>1. PICK m \in Modules : m = Required(q)
    BY RequiredModule
  <2>2. LookUp(q) \/ Store(q)
    <3>1. ASSUME Restart \/ Tick PROVE FALSE
      BY <3>1 DEF Restart, Tick, InFlight, Ended
    <3>2. PICK r \in Requests : Step(r)
      BY <3>1 DEF Next
    <3>3. r = q
      BY <3>2 DEF Step, LookUp, Query, Store, Decide, UseModule, ReadRows, Join, Leave, Clear,
                  Fail
    <3> QED BY <3>2, <3>3 DEF Step, Query, UseModule, ReadRows, Join, Leave, Clear, Fail
  <2>3. CASE LookUp(q)
    <3>1. Fresh(m) /\ pc'[q] = (IF cache[m].access = "yes" THEN "body" ELSE "denied")
      BY <2>1, <2>3 DEF LookUp, Decide
    <3>2. cache[m].access \in Answers /\ cache[m].age \in Nat /\ cache[m].age < TTL
      BY <3>1, Bounds DEF Fresh, Entries
    <3>3. last[m][cache[m].access] <= cache[m].age + MaxLatency
      BY <3>1 DEF CacheHonest
    <3>4. (IF pc'[q] = "body" THEN "yes" ELSE "no") = cache[m].access
      BY <3>1, <3>2 DEF Answers
    <3>5. last[m][cache[m].access] \in Nat
      BY <3>2, Bounds
    <3>6. last[m][cache[m].access] < TTL + MaxLatency
      BY <3>2, <3>3, <3>5, Bounds
    <3> QED BY <2>1, <3>4, <3>6
  <2>4. CASE Store(q)
    <3>1. PICK b \in Answers : b = Answer(seen[q])
      BY DEF Answer, Answers
    <3>2. last[m][b] <= since[q] /\ since[q] <= MaxLatency /\ since[q] \in Nat
      BY <2>1, <2>4, <3>1, Bounds DEF QueryHonest, Store
    <3>3. (IF pc'[q] = "body" THEN "yes" ELSE "no") = b
      BY <2>4, <3>1 DEF Store, Decide, Answers
    <3>4. last[m][b] \in Nat
      BY <3>1, Bounds
    <3>5. last[m][b] < TTL + MaxLatency
      BY <3>2, <3>4, Bounds
    <3> QED BY <2>1, <3>3, <3>5
  <2> QED BY <2>2, <2>3, <2>4
<1>2. Spec => [][Recent]_vars
  BY <1>1, IInit, INext, PTL DEF Spec
<1> QED BY <1>2 DEF BoundedStaleness

-----------------------------------------------------------------------------
(* Why a change takes effect immediately when requests do not overlap: the *)
(* request that has the table's answer is the only one there is, so the    *)
(* table still answers that when the answer is stored; and while one       *)
(* changes the table no other asks, until the cache has been cleared.  A   *)
(* lost clear leaves the state unsettled for good.                         *)
QueryCurrent ==
  \A r \in Requests : pc[r] = "store" => Answer(seen[r]) = Answer(active[Required(r)])

AloneInv == OneInFlight /\ (Settled => ChangesImmediate /\ QueryCurrent)

(* Initially nothing is in flight and nothing is cached. *)
LEMMA AloneInit == Init => AloneInv
BY DEF Init, AloneInv, OneInFlight, InFlight, Ended, ChangesImmediate, QueryCurrent, Fresh

(* A step that leaves the table alone, drops entries only, and starts no   *)
(* wait for a query, settles nothing that was not settled before.          *)
LEMMA AloneQuiet ==
  ASSUME AloneInv, OneInFlight', UNCHANGED <<active, op, module>>,
         \A r \in Requests : pc'[r] = "store" => pc[r] = "store" /\ seen'[r] = seen[r],
         \A r \in Requests : pc[r] \in {"clear", "lost"} => pc'[r] \in {"clear", "lost"},
         \A m \in Modules : cache'[m] \in {cache[m], NoEntry}
  PROVE  AloneInv'
<1>1. SUFFICES ASSUME Settled' PROVE (ChangesImmediate /\ QueryCurrent)'
  BY DEF AloneInv
<1>2. Settled
  BY <1>1 DEF Settled
<1>3. ChangesImmediate'
  BY <1>2 DEF AloneInv, ChangesImmediate, Fresh
<1>4. QueryCurrent'
  BY <1>2 DEF AloneInv, QueryCurrent, Required
<1> QED BY <1>3, <1>4

(* When requests come one at a time, every step keeps it so. *)
LEMMA AloneNext == TypeOK /\ AloneInv /\ [Next]_vars /\ OneInFlight' => AloneInv'
<1> SUFFICES ASSUME TypeOK, AloneInv, [Next]_vars, OneInFlight' PROVE AloneInv'
  OBVIOUS
<1> USE DEF TypeOK, Goto, table
(* A request that has begun is the only one that has. *)
<1>0. \A q, r \in Requests :
        pc[q] \in {"query", "store", "body", "write", "clear"}
          /\ pc[r] \in {"query", "store", "body", "write", "clear"} => q = r
  BY DEF AloneInv, OneInFlight, InFlight, Ended
<1>1. ASSUME NEW r \in Requests, LookUp(r) PROVE AloneInv'
  <2>1. \A m \in Modules : cache'[m] \in {cache[m], NoEntry}
    BY <1>1 DEF LookUp
  <2>2. \A q \in Requests : pc'[q] = "store" => pc[q] = "store"
    BY <1>1 DEF LookUp, Decide
  <2>3. \A q \in Requests : pc[q] \in {"clear", "lost"} => pc'[q] \in {"clear", "lost"}
    BY <1>1 DEF LookUp, Decide
  <2> QED BY <1>1, <2>1, <2>2, <2>3, AloneQuiet DEF LookUp
<1>2. ASSUME NEW r \in Requests, Query(r) PROVE AloneInv'
  <2>0. PICK m \in Modules : m = Required(r)
    BY RequiredModule
  <2>1. PICK found \in SUBSET (Requests \cup {Onboarding}) : found = active[m]
    BY DEF TypeOK
  <2>2. CASE Cardinality(found) > 1
    BY <1>2, <2>0, <2>1, <2>2, AloneQuiet DEF Query
  <2>3. CASE ~ Cardinality(found) > 1
    <3>1. /\ seen' = [seen EXCEPT ![r] = found] /\ pc' = [pc EXCEPT ![r] = "store"]
          /\ UNCHANGED <<active, cache, op, module>> /\ pc[r] = "query"
      BY <1>2, <2>0, <2>1, <2>3 DEF Query
    <3>2. SUFFICES ASSUME Settled' PROVE (ChangesImmediate /\ QueryCurrent)'
      BY DEF AloneInv
    <3>3. Settled
      BY <3>1, <3>2 DEF Settled
    <3>4. ChangesImmediate'
      BY <3>1, <3>3 DEF AloneInv, ChangesImmediate, Fresh
    <3>5. QueryCurrent'
      BY <2>0, <2>1, <3>1, <3>3 DEF AloneInv, QueryCurrent, Required
    <3> QED BY <3>4, <3>5
  <2> QED BY <2>2, <2>3
<1>3. ASSUME NEW r \in Requests, Store(r) PROVE AloneInv'
  <2>1. SUFFICES ASSUME Settled' PROVE (ChangesImmediate /\ QueryCurrent)'
    BY DEF AloneInv
  <2>2. /\ pc[r] = "store" /\ UNCHANGED <<active, op, module, seen>>
        /\ pc' = [pc EXCEPT ![r] = IF Answer(seen[r]) = "yes" THEN "body" ELSE "denied"]
        /\ cache' = [cache EXCEPT ![Required(r)] = [access |-> Answer(seen[r]), age |-> 0]]
    BY <1>3 DEF Store, Decide
  <2>3. Settled
    BY <2>1, <2>2 DEF Settled
  <2>4. PICK m \in Modules : m = Required(r)
    BY RequiredModule
  <2>5. cache'[m].access = Answer(active[m])
    BY <2>2, <2>3, <2>4 DEF AloneInv, QueryCurrent
  <2>6. \A n \in Modules : n # m => cache'[n] = cache[n]
    BY <2>2, <2>4
  <2>7. ChangesImmediate'
    BY <2>2, <2>3, <2>5, <2>6 DEF AloneInv, ChangesImmediate, Fresh
  <2>8. QueryCurrent'
    BY <2>2, <2>3 DEF AloneInv, QueryCurrent, Required
  <2> QED BY <2>7, <2>8
<1>4. ASSUME NEW r \in Requests, UseModule(r) PROVE AloneInv'
  BY <1>4, AloneQuiet DEF UseModule
<1>5. ASSUME NEW r \in Requests, ReadRows(r) PROVE AloneInv'
  BY <1>5, AloneQuiet DEF ReadRows
<1>6. ASSUME NEW r \in Requests, Join(r) \/ Leave(r) PROVE AloneInv'
  <2>1. CASE pc' = [pc EXCEPT ![r] = "clear"]
    BY <2>1 DEF AloneInv, Settled
  <2>2. CASE Join(r) /\ Conflict(module[r])
    BY <2>2, AloneQuiet DEF Join
  <2> QED BY <1>6, <2>1, <2>2 DEF Join, Leave
<1>7. ASSUME NEW r \in Requests, Clear(r) PROVE AloneInv'
  <2>1. \A m \in Modules : cache'[m] = NoEntry
    BY <1>7 DEF Clear
  <2>2. \A q \in Requests : pc'[q] # "store"
    BY <1>0, <1>7 DEF Clear
  <2> QED BY <2>1, <2>2 DEF AloneInv, ChangesImmediate, QueryCurrent, Fresh
<1>8. ASSUME NEW r \in Requests, Fail(r) PROVE AloneInv'
  BY <1>8, AloneQuiet DEF Fail
<1>9. ASSUME Restart PROVE AloneInv'
  <2>1. \A m \in Modules : cache'[m] = NoEntry
    BY <1>9 DEF Restart
  <2>2. \A q \in Requests : pc'[q] # "store"
    BY <1>9 DEF Restart, InFlight, Ended
  <2> QED BY <2>1, <2>2 DEF AloneInv, ChangesImmediate, QueryCurrent, Fresh
<1>10. ASSUME Tick PROVE AloneInv'
  <2>1. SUFFICES ASSUME Settled' PROVE (ChangesImmediate /\ QueryCurrent)'
    BY DEF AloneInv
  <2>2. Settled /\ UNCHANGED <<active, pc, op, module, seen>>
    BY <1>10, <2>1 DEF Tick, Settled
  <2>3. ASSUME NEW m \in Modules, Fresh(m)' PROVE Fresh(m) /\ cache'[m].access = cache[m].access
    <3>1. cache[m] \in Entries /\ cache[m] # NoEntry
          /\ cache'[m] = [cache[m] EXCEPT !.age = Later(@, TTL)]
      BY <1>10, <2>3 DEF Tick, Fresh, Aged
    <3>2. /\ cache[m].age \in 0 .. TTL /\ cache'[m].access = cache[m].access
          /\ cache'[m].age = Later(cache[m].age, TTL)
      BY <3>1 DEF Entries
    <3> QED BY <2>3, <3>1, <3>2, Bounds DEF Fresh, Later
  <2>4. ChangesImmediate'
    BY <2>2, <2>3 DEF AloneInv, ChangesImmediate
  <2>5. QueryCurrent'
    BY <2>2 DEF AloneInv, QueryCurrent, Required
  <2> QED BY <2>4, <2>5
<1>11. ASSUME UNCHANGED vars PROVE AloneInv'
  BY <1>11, AloneQuiet DEF vars
<1> QED
  BY <1>1, <1>2, <1>3, <1>4, <1>5, <1>6, <1>7, <1>8, <1>9, <1>10, <1>11
  DEF Next, Step

(* Where requests do not overlap, no cached answer contradicts the table   *)
(* unless a change is between its commit and its clear, or lost its clear. *)
THEOREM AloneImmediate == ModesSpec => []SerialChangesImmediate
<1>1. ModesInit => TypeOK /\ (alone => AloneInv)
  BY TypeInit, AloneInit DEF ModesInit
<1>2. ASSUME TypeOK, alone => AloneInv, [ModesNext]_<<vars, alone>>
      PROVE  TypeOK' /\ (alone' => AloneInv')
  <2>1. [Next]_vars /\ alone' = alone
    BY <1>2 DEF ModesNext
  <2>2. CASE UNCHANGED vars
    <3>1. OneInFlight' <=> OneInFlight
      BY <2>2 DEF vars, OneInFlight, InFlight
    <3> QED BY <1>2, <2>1, <3>1, TypeNext, AloneNext DEF AloneInv
  <2>3. CASE ModesNext
    BY <1>2, <2>1, <2>3, TypeNext, AloneNext DEF ModesNext
  <2> QED BY <1>2, <2>2, <2>3
<1>3. (alone => AloneInv) /\ (Settled \/ ~ Settled) => SerialChangesImmediate
  BY DEF AloneInv, SerialChangesImmediate, ChangesImmediate
<1> QED BY <1>1, <1>2, <1>3, PTL DEF ModesSpec

-----------------------------------------------------------------------------
(* One at a time, a request about to insert its row has found no active    *)
(* one, and none has come since.                                           *)
StillFree ==
  \A r \in Requests :
    pc[r] = "write" /\ op[r] = "subscribe" => active[module[r]] = {}

RowInv == OneInFlight /\ OneActiveRow /\ StillFree

(* A tenant starts with at most one row of each module. *)
LEMMA RowInit == Init => RowInv
<1> SUFFICES ASSUME Init PROVE RowInv
  OBVIOUS
<1>1. \A m \in Modules : active[m] \in {{}, {Onboarding}}
  BY DEF Init
<1>2. OneActiveRow
  BY <1>1 DEF OneActiveRow
<1> QED BY <1>2 DEF Init, RowInv, OneInFlight, InFlight, Ended, StillFree

(* When requests come one at a time, every step keeps it so. *)
LEMMA RowNext == TypeOK /\ RowInv /\ [Next]_vars /\ OneInFlight' => RowInv'
<1> SUFFICES ASSUME TypeOK, RowInv, [Next]_vars, OneInFlight' PROVE OneActiveRow' /\ StillFree'
  BY DEF RowInv
<1> USE DEF TypeOK, RowInv, OneActiveRow, StillFree, Goto, table
<1>0. \A q, r \in Requests : pc[q] = "write" /\ pc[r] \in {"write", "body"} => q = r
  BY DEF OneInFlight, InFlight, Ended
<1>1. ASSUME NEW r \in Requests, ReadRows(r) PROVE OneActiveRow' /\ StillFree'
  BY <1>1 DEF ReadRows, Refused
<1>2. ASSUME NEW r \in Requests, Join(r) PROVE OneActiveRow' /\ StillFree'
  <2>1. CASE Conflict(module[r])
    <3>1. UNCHANGED <<active, op, module>> /\ pc' = [pc EXCEPT ![r] = "failed"]
      BY <1>2, <2>1 DEF Join
    <3> QED BY <3>1
  <2>2. CASE ~ Conflict(module[r])
    <3>1. /\ active[module[r]] = {} /\ module[r] \in Modules
          /\ active' = [active EXCEPT ![module[r]] = @ \cup {r}]
          /\ pc' = [pc EXCEPT ![r] = "clear"]
          /\ pc[r] = "write" /\ UNCHANGED <<op, module>>
      BY <1>2, <2>2 DEF Join
    <3>2. OneActiveRow'
      BY <3>1
    <3>3. \A q \in Requests : pc'[q] # "write"
      BY <1>0, <3>1
    <3> QED BY <3>2, <3>3
  <2> QED BY <2>1, <2>2
<1>3. ASSUME NEW r \in Requests, Leave(r) PROVE OneActiveRow' /\ StillFree'
  BY <1>3 DEF Leave
<1>4. CASE /\ UNCHANGED <<active, op, module>>
           /\ \A r \in Requests : pc'[r] = "write" => pc[r] = "write"
  BY <1>4
<1>5. ASSUME NEW r \in Requests, LookUp(r) \/ Query(r) \/ Store(r)
      PROVE  /\ UNCHANGED <<active, op, module>>
             /\ \A q \in Requests : pc'[q] = "write" => pc[q] = "write"
  BY <1>5 DEF LookUp, Query, Store, Decide
<1>6. ASSUME NEW r \in Requests, UseModule(r) \/ Clear(r) \/ Fail(r)
      PROVE  /\ UNCHANGED <<active, op, module>>
             /\ \A q \in Requests : pc'[q] = "write" => pc[q] = "write"
  BY <1>6 DEF UseModule, Clear, Fail
<1>7. ASSUME Restart \/ Tick \/ UNCHANGED vars
      PROVE  /\ UNCHANGED <<active, op, module>>
             /\ \A q \in Requests : pc'[q] = "write" => pc[q] = "write"
  BY <1>7 DEF Restart, Tick, vars
<1> QED
  BY <1>1, <1>2, <1>3, <1>4, <1>5, <1>6, <1>7 DEF Next, Step

(* The check of subscribe keeps a module from having two active rows as    *)
(* long as requests do not overlap, with or without the unique key.        *)
THEOREM AloneOneActiveRow == ModesSpec => []SerialOneActiveRow
<1>1. ModesInit => TypeOK /\ (alone => RowInv)
  BY TypeInit, RowInit DEF ModesInit
<1>2. ASSUME TypeOK, alone => RowInv, [ModesNext]_<<vars, alone>>
      PROVE  TypeOK' /\ (alone' => RowInv')
  <2>1. [Next]_vars /\ alone' = alone
    BY <1>2 DEF ModesNext
  <2>2. CASE UNCHANGED vars
    <3>1. OneInFlight' <=> OneInFlight
      BY <2>2 DEF vars, OneInFlight, InFlight
    <3> QED BY <1>2, <2>1, <3>1, TypeNext, RowNext DEF RowInv
  <2>3. CASE ModesNext
    BY <1>2, <2>1, <2>3, TypeNext, RowNext DEF ModesNext
  <2> QED BY <1>2, <2>2, <2>3
<1>3. (alone => RowInv) => SerialOneActiveRow
  BY DEF RowInv, SerialOneActiveRow
<1> QED BY <1>1, <1>2, <1>3, PTL DEF ModesSpec
=============================================================================
