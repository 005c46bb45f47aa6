----------------------- MODULE DocumentSequenceProofs -----------------------
(***************************************************************************)
(* Proofs, for any set of requests and keys, of what TLC checks of         *)
(* DocumentSequence on three requests.                                     *)
(***************************************************************************)
EXTENDS DocumentSequence, TLAPS

(* The first key of a verify request, and the one after a visited key.     *)
LEMMA VerifyOrderKeys ==
  /\ 1 \in 1 .. Len(VerifyOrder)
  /\ \A i \in 1 .. Len(VerifyOrder) : VerifyOrder[i] \in Keys
  /\ Len(VerifyOrder) \in Nat
BY ConstantsAssumption

(* The values the type invariant gives to a counter. *)
LEMMA CounterInt == TypeOK => \A k \in Keys : Counter(k) \in Int
BY DEF TypeOK, Counter

(* The fields of an audit record, committed or not. *)
LEMMA RecordFields ==
  ASSUME TypeOK
  PROVE  /\ \A q \in Requests : \A a \in pending[q] :
              a.key \in Keys /\ a.old \in Int /\ a.new \in Int
         /\ \A a \in audit : a.key \in Keys /\ a.old \in Int /\ a.new \in Int
<1>1. \A a \in AuditRecords : a.key \in Keys /\ a.old \in Int /\ a.new \in Int
  BY DEF AuditRecords
<1>2. audit \subseteq AuditRecords /\ \A q \in Requests : pending[q] \subseteq AuditRecords
  BY DEF TypeOK
<1> QED BY <1>1, <1>2

(* Moving on to the next key of a verify keeps the request's locals typed. *)
LEMMA NextVerifyType ==
  ASSUME TypeOK, NEW r \in Requests, NextVerify(r)
  PROVE  /\ pc' \in [Requests -> Steps]
         /\ key' \in [Requests -> Keys]
         /\ at' \in [Requests -> 1 .. Len(VerifyOrder)]
<1> USE DEF TypeOK, NextVerify, Goto, Steps
<1>1. CASE at[r] < Len(VerifyOrder)
  <2>1. at[r] + 1 \in 1 .. Len(VerifyOrder)
    BY <1>1, VerifyOrderKeys
  <2>2. VerifyOrder[at[r] + 1] \in Keys
    BY <2>1, VerifyOrderKeys
  <2>3. key' \in [Requests -> Keys]
    BY <1>1, <2>2
  <2>4. at' \in [Requests -> 1 .. Len(VerifyOrder)]
    BY <1>1, <2>1
  <2>5. pc' \in [Requests -> Steps]
    BY <1>1
  <2> QED BY <2>3, <2>4, <2>5
<1>2. CASE ~ (at[r] < Len(VerifyOrder))
  BY <1>2
<1> QED BY <1>1, <1>2

(* A new audit record is one the table can hold. *)
LEMMA LogType ==
  ASSUME TypeOK, NEW r \in Requests, NEW op \in Ops, NEW n \in Int, Log(r, op, n)
  PROVE  pending' \in [Requests -> SUBSET AuditRecords]
<1>1. [key |-> key[r], op |-> op, old |-> work[key[r]], new |-> n, by |-> r]
        \in AuditRecords
  BY DEF TypeOK, AuditRecords
<1> QED BY <1>1 DEF TypeOK, Log

(* Counters, numbers and audit records have their types initially ... *)
LEMMA TypeInit == Init => TypeOK
<1> SUFFICES ASSUME Init PROVE TypeOK
  OBVIOUS
<1>0. LegacyNumbers \subseteq Int
  BY ConstantsAssumption
<1>1. /\ rows \in [Keys -> Int \cup {NoRow}]
      /\ docs \in [Keys -> SUBSET Int]
      /\ kind \in [Requests -> Kinds]
      /\ key \in [Requests -> Keys]
  BY <1>0, ConstantsAssumption DEF Init
<1>2. audit \in SUBSET AuditRecords
  BY ConstantsAssumption DEF Init
<1>3. /\ holder \in [Keys -> Requests \cup {Nobody}]
      /\ work \in [Keys -> Int]
      /\ num \in [Requests -> Int]
  BY ConstantsAssumption DEF Init
<1>4. pc \in [Requests -> Steps] /\ at \in [Requests -> 1 .. Len(VerifyOrder)]
  BY VerifyOrderKeys DEF Init, Steps
<1>5. pending \in [Requests -> SUBSET AuditRecords]
  BY ConstantsAssumption DEF Init
<1> QED BY <1>1, <1>2, <1>3, <1>4, <1>5 DEF TypeOK

(* ... and every operation keeps them: whatever order requests, repairs    *)
(* and rollbacks take.                                                     *)
LEMMA TypeNext == TypeOK /\ [Next]_vars => TypeOK'
<1> SUFFICES ASSUME TypeOK, [Next]_vars PROVE TypeOK'
  OBVIOUS
<1> USE DEF TypeOK, db, locks, locals, Goto, Steps
<1>1. ASSUME NEW r \in Requests, BeginIssue(r) PROVE TypeOK'
  BY <1>1 DEF BeginIssue
<1>2. ASSUME NEW r \in Requests, BeginRepair(r) PROVE TypeOK'
  BY <1>2, ConstantsAssumption DEF BeginRepair
<1>3. ASSUME NEW r \in Requests, BeginVerify(r) PROVE TypeOK'
  BY <1>3, VerifyOrderKeys DEF BeginVerify
<1>4. ASSUME NEW r \in Requests, DeleteDocument(r) PROVE TypeOK'
  BY <1>4 DEF DeleteDocument
<1>5. ASSUME NEW r \in Requests, ReadCounter(r) PROVE TypeOK'
  BY <1>5, CounterInt DEF ReadCounter
<1>6. ASSUME NEW r \in Requests, ScanDocuments(r) PROVE TypeOK'
  <2> PICK m \in IF docs[key[r]] = {} THEN {0} ELSE docs[key[r]] :
        IF Behind(r, m)
        THEN num' = [num EXCEPT ![r] = m] /\ Goto(r, "lock") /\ UNCHANGED <<at, key>>
        ELSE NextVerify(r) /\ UNCHANGED num
    BY <1>6 DEF ScanDocuments
  <2>1. m \in Int
    OBVIOUS
  <2>2. UNCHANGED <<rows, docs, audit, holder, work, kind, pending>>
    BY <1>6 DEF ScanDocuments
  <2>3. CASE Behind(r, m)
    <3>1. num' \in [Requests -> Int] /\ pc' \in [Requests -> Steps]
      BY <2>1, <2>3
    <3> QED BY <2>2, <2>3, <3>1
  <2>4. CASE ~ Behind(r, m)
    BY <2>2, <2>4, NextVerifyType
  <2> QED BY <2>3, <2>4
<1>7. ASSUME NEW r \in Requests, SelectForUpdate(r) PROVE TypeOK'
  <2>1. CASE rows[key[r]] = NoRow /\ Goto(r, "insert") /\ UNCHANGED locks
    BY <1>7, <2>1 DEF SelectForUpdate
  <2>2. CASE /\ rows[key[r]] # NoRow
             /\ holder' = [holder EXCEPT ![key[r]] = r]
             /\ work' = [work EXCEPT ![key[r]] = rows[key[r]]]
             /\ Goto(r, "locked")
    <3>1. rows[key[r]] \in Int
      BY <2>2
    <3> QED BY <1>7, <2>2, <3>1 DEF SelectForUpdate
  <2> QED BY <1>7, <2>1, <2>2 DEF SelectForUpdate
<1>8. ASSUME NEW r \in Requests, InsertRow(r) PROVE TypeOK'
  BY <1>8 DEF InsertRow
<1>9. ASSUME NEW r \in Requests, IssueNumber(r) PROVE TypeOK'
  <2>1. pending' \in [Requests -> SUBSET AuditRecords]
    <3>1. work[key[r]] + 1 \in Int
      OBVIOUS
    <3> QED BY <1>9, <3>1, LogType DEF IssueNumber, Ops
  <2>2. work' \in [Keys -> Int] /\ num' \in [Requests -> Int]
    BY <1>9 DEF IssueNumber
  <2>3. pc' \in [Requests -> Steps]
    BY <1>9 DEF IssueNumber
  <2>4. UNCHANGED <<rows, docs, audit, holder, kind, key, at>>
    BY <1>9 DEF IssueNumber
  <2> QED BY <2>1, <2>2, <2>3, <2>4
<1>10. ASSUME NEW r \in Requests, Raise(r) PROVE TypeOK'
  <2>1. work' \in [Keys -> Int]
    BY <1>10 DEF Raise, Raised
  <2>2. pending' \in [Requests -> SUBSET AuditRecords]
    BY <1>10, LogType DEF Raise, Ops
  <2>3. CASE kind[r] = "verify"
    BY <1>10, <2>1, <2>2, <2>3, NextVerifyType DEF Raise
  <2>4. CASE kind[r] # "verify"
    BY <1>10, <2>1, <2>2, <2>4 DEF Raise
  <2> QED BY <2>3, <2>4
<1>11. ASSUME NEW r \in Requests, InsertDocument(r) PROVE TypeOK'
  BY <1>11 DEF InsertDocument
<1>12. ASSUME NEW r \in Requests, Commit(r) PROVE TypeOK'
  BY <1>12 DEF Commit, Release
<1>13. ASSUME NEW r \in Requests, Abort(r) PROVE TypeOK'
  BY <1>13 DEF Abort, Release
<1>14. CASE UNCHANGED vars
  BY <1>14 DEF vars
<1> QED
  BY <1>1, <1>2, <1>3, <1>4, <1>5, <1>6, <1>7, <1>8, <1>9, <1>10, <1>11,
     <1>12, <1>13, <1>14 DEF Next, Step, Advance, AllEnded

(* The state always has its type. *)
THEOREM TypeCorrect == Spec => []TypeOK
BY TypeInit, TypeNext, PTL DEF Spec
-----------------------------------------------------------------------------
(* Only a verify request reads a counter without locking it. *)
ReadersVerify ==
  \A r \in Requests : pc[r] \in {"read", "scan"} => kind[r] = "verify"

(* The holder of a row it has just inserted has logged nothing about it.   *)
NewRow ==
  \A r \in Requests : pc[r] = "locked" /\ rows[key[r]] = NoRow =>
    work[key[r]] = 0 /\ \A a \in pending[r] : a.key # key[r]

(* The inductive invariant: LockDiscipline alone does not say that a       *)
(* create request cannot reach "ready" by the verify loop, nor that a      *)
(* repair which gives a new row a negative number has nothing logged.      *)
IInv == TypeOK /\ ReadersVerify /\ NewRow /\ LockDiscipline

(* No lock is held and nothing is logged when the service starts. *)
LEMMA IInit == Init => IInv
<1> SUFFICES ASSUME Init PROVE IInv
  OBVIOUS
<1>1. TypeOK
  BY TypeInit
<1>2. ReadersVerify /\ NewRow /\ UpdateUnderLock /\ NumberUnderLock
  BY DEF Init, ReadersVerify, NewRow, UpdateUnderLock, NumberUnderLock
<1>3. HeldRows /\ PendingInside /\ TrailBelow
  BY DEF Init, HeldRows, PendingInside, TrailBelow
<1> QED BY <1>1, <1>2, <1>3 DEF IInv, LockDiscipline

(* A request that takes no lock, logs nothing and changes no row keeps the *)
(* discipline, if it goes neither to a step that needs the lock nor, while *)
(* it may hold one, to an end.                                             *)
LEMMA QuietStep ==
  ASSUME IInv, TypeOK', NEW r \in Requests,
         UNCHANGED <<rows, audit, holder, work, kind, pending>>,
         \A q \in Requests \ {r} : pc'[q] = pc[q] /\ key'[q] = key[q] /\ num'[q] = num[q],
         pc'[r] \notin {"locked", "document", "new"},
         pc'[r] \in Ended => pc[r] \in Ended \cup {"new"},
         kind[r] = "create" => pc'[r] # "ready",
         pc'[r] \in {"read", "scan"} => kind[r] = "verify"
  PROVE  IInv'
<1> USE DEF IInv, LockDiscipline
<1>1. ReadersVerify'
  BY DEF ReadersVerify, TypeOK
<1>5. NewRow'
  <2> SUFFICES ASSUME NEW q \in Requests, pc'[q] = "locked", rows[key'[q]] = NoRow
               PROVE  work[key'[q]] = 0 /\ \A a \in pending[q] : a.key # key'[q]
    BY DEF NewRow
  <2>1. q # r
    OBVIOUS
  <2>2. pc[q] = "locked" /\ key'[q] = key[q]
    BY <2>1
  <2> QED BY <2>2 DEF NewRow
<1>2. HeldRows'
  BY DEF HeldRows, TypeOK
<1>3. UpdateUnderLock' /\ NumberUnderLock'
  <2>1. ASSUME NEW q \in Requests, pc'[q] = "locked" PROVE holder'[key'[q]] = q
    BY <2>1 DEF UpdateUnderLock
  <2>2. ASSUME NEW q \in Requests, kind'[q] = "create", pc'[q] \in {"document", "ready"}
        PROVE  holder'[key'[q]] = q /\ num'[q] = work'[key'[q]]
    <3>1. q # r
      BY <2>2
    <3> QED BY <2>2, <3>1 DEF NumberUnderLock
  <2> QED BY <2>1, <2>2 DEF UpdateUnderLock, NumberUnderLock
<1>4. PendingInside' /\ TrailBelow'
  BY DEF PendingInside, TrailBelow, Counter
<1> QED BY <1>1, <1>2, <1>3, <1>4, <1>5

(* Taking the row lock, or inserting the missing row. *)
LEMMA TakeLock ==
  ASSUME IInv, TypeOK', NEW r \in Requests, Free(key[r]),
         holder' = [holder EXCEPT ![key[r]] = r],
         work' = [work EXCEPT ![key[r]] = Counter(key[r])],
         Goto(r, "locked"),
         UNCHANGED <<rows, audit, kind, key, num, pending>>
  PROVE  IInv'
<1> USE DEF IInv, LockDiscipline, Goto, Free
<1>0. Nobody \notin Requests
  BY ConstantsAssumption
<1>1. ReadersVerify'
  BY DEF ReadersVerify, TypeOK
<1>7. NewRow'
  <2> SUFFICES ASSUME NEW q \in Requests, pc'[q] = "locked", rows[key[q]] = NoRow
               PROVE  work'[key[q]] = 0 /\ \A a \in pending[q] : a.key # key[q]
    BY DEF NewRow
  <2>1. CASE q = r
    BY <1>0, <2>1 DEF PendingInside, Counter, TypeOK
  <2>2. CASE q # r
    <3>1. pc[q] = "locked" /\ holder[key[q]] = q /\ key[q] # key[r] /\ key[q] \in Keys
      BY <1>0, <2>2 DEF UpdateUnderLock, TypeOK
    <3> QED BY <3>1 DEF NewRow, TypeOK
  <2> QED BY <2>1, <2>2
<1>2. HeldRows'
  <2> SUFFICES ASSUME NEW k \in Keys, holder'[k] # Nobody
               PROVE  /\ pc'[holder'[k]] \notin Ended \cup {"new"}
                      /\ rows'[k] # NoRow => rows'[k] <= work'[k]
    BY DEF HeldRows
  <2>1. CASE k = key[r]
    BY <2>1 DEF TypeOK, Ended, Counter
  <2>2. CASE k # key[r]
    BY <2>2 DEF HeldRows, TypeOK, Ended, Counter
  <2> QED BY <2>1, <2>2
<1>3. UpdateUnderLock'
  BY <1>0 DEF UpdateUnderLock, TypeOK
<1>4. NumberUnderLock'
  BY <1>0 DEF NumberUnderLock, TypeOK
<1>5. PendingInside'
  <2> SUFFICES ASSUME NEW q \in Requests, NEW a \in pending'[q]
               PROVE  /\ holder'[a.key] = q
                      /\ Counter(a.key)' <= a.old /\ a.new <= work'[a.key]
                      /\ a.old <= work'[a.key] \/ Creates(a)
    BY DEF PendingInside
  <2>1. holder[a.key] = q /\ a.key # key[r]
    BY <1>0 DEF PendingInside
  <2>2. a.key \in Keys
    BY DEF TypeOK, AuditRecords
  <2> QED BY <2>1, <2>2 DEF PendingInside, TypeOK, Counter
<1>6. TrailBelow'
  BY DEF TrailBelow
<1> QED BY <1>1, <1>2, <1>3, <1>4, <1>5, <1>6, <1>7

(* Changing the counter under the lock and logging the change. *)
LEMMA UpdateLocked ==
  ASSUME IInv, TypeOK', NEW r \in Requests, NEW op \in Ops, NEW n \in Int, NEW new \in Int,
         pc[r] = "locked", new <= n,
         \/ work[key[r]] <= n
         \/ rows[key[r]] = NoRow /\ op = "MANUAL_SYNC",
         work' = [work EXCEPT ![key[r]] = n], Log(r, op, new),
         UNCHANGED <<rows, audit, holder, kind>>,
         \A q \in Requests \ {r} : pc'[q] = pc[q] /\ key'[q] = key[q] /\ num'[q] = num[q],
         pc'[r] \notin Ended \cup {"locked", "new"},
         kind[r] = "create" => key'[r] = key[r] /\ num'[r] = n,
         pc'[r] \in {"read", "scan"} => kind[r] = "verify"
  PROVE  IInv'
<1> USE DEF IInv, LockDiscipline
<1>0. holder[key[r]] = r
  BY DEF UpdateUnderLock
<1>1. ReadersVerify'
  BY DEF ReadersVerify, TypeOK
<1>7. NewRow'
  <2> SUFFICES ASSUME NEW q \in Requests, q # r, pc[q] = "locked", rows[key[q]] = NoRow
               PROVE  work'[key[q]] = 0 /\ \A a \in pending'[q] : a.key # key[q]
    BY DEF NewRow
  <2>1. holder[key[q]] = q /\ key[q] # key[r] /\ key[q] \in Keys /\ pending'[q] = pending[q]
    BY <1>0 DEF UpdateUnderLock, Log, TypeOK
  <2> QED BY <2>1 DEF NewRow, TypeOK
<1>2. HeldRows'
  <2> SUFFICES ASSUME NEW k \in Keys, holder[k] # Nobody
               PROVE  /\ pc'[holder[k]] \notin Ended \cup {"new"}
                      /\ rows[k] # NoRow => rows[k] <= work'[k]
    BY DEF HeldRows
  <2>1. holder[k] \in Requests
    BY DEF TypeOK
  <2>2. pc'[holder[k]] \notin Ended \cup {"new"}
    BY <2>1 DEF HeldRows
  <2>3. ASSUME rows[k] # NoRow PROVE rows[k] <= work'[k]
    <3>1. rows[k] <= work[k] /\ rows[k] \in Int /\ work[k] \in Int
      BY <2>3 DEF HeldRows, TypeOK
    <3>2. work[k] <= work'[k] /\ work'[k] \in Int
      BY <2>3, <3>1 DEF TypeOK
    <3> QED BY <3>1, <3>2
  <2> QED BY <2>2, <2>3
<1>3. UpdateUnderLock'
  BY DEF UpdateUnderLock
<1>4. NumberUnderLock'
  <2> SUFFICES ASSUME NEW q \in Requests, kind'[q] = "create", pc'[q] \in {"document", "ready"}
               PROVE  holder'[key'[q]] = q /\ num'[q] = work'[key'[q]]
    BY DEF NumberUnderLock
  <2>1. CASE q = r
    BY <1>0, <2>1 DEF TypeOK
  <2>2. CASE q # r
    <3>1. holder[key[q]] = q /\ num[q] = work[key[q]] /\ key[q] # key[r]
      BY <1>0, <2>2 DEF NumberUnderLock
    <3> QED BY <2>2, <3>1 DEF TypeOK
  <2> QED BY <2>1, <2>2
<1>5. PendingInside'
  <2> SUFFICES ASSUME NEW q \in Requests, NEW a \in pending'[q]
               PROVE  /\ holder'[a.key] = q
                      /\ Counter(a.key)' <= a.old /\ a.new <= work'[a.key]
                      /\ a.old <= work'[a.key] \/ Creates(a)
    BY DEF PendingInside
  <2>1. CASE a \in pending[q]
    <3>1. a.key \in Keys /\ a.old \in Int /\ a.new \in Int
      BY <2>1, RecordFields
    <3>2. work[a.key] <= work'[a.key] /\ work[a.key] \in Int /\ work'[a.key] \in Int
      <4>1. work \in [Keys -> Int] /\ key[r] \in Keys
        BY DEF TypeOK
      <4>2. CASE a.key # key[r]
        BY <3>1, <4>1, <4>2
      <4>3. CASE a.key = key[r]
        <5>1. q = r
          BY <1>0, <2>1, <4>3 DEF PendingInside
        <5>2. rows[key[r]] # NoRow
          BY <2>1, <4>3, <5>1 DEF NewRow
        <5> QED BY <4>1, <4>3, <5>2
      <4> QED BY <4>2, <4>3
    <3>3. Counter(a.key)' = Counter(a.key)
      BY DEF Counter
    <3> QED BY <2>1, <3>1, <3>2, <3>3 DEF PendingInside
  <2>2. CASE a \notin pending[q]
    <3>1. q = r /\ a = [key |-> key[r], op |-> op, old |-> work[key[r]], new |-> new, by |-> r]
      BY <2>2 DEF Log, TypeOK
    <3>2. a.key = key[r] /\ a.old = work[key[r]] /\ a.new = new
      BY <3>1
    <3>3. a.key \in Keys /\ r # Nobody
      BY <3>2, ConstantsAssumption DEF TypeOK
    <3>4. Counter(a.key)' = Counter(a.key)
      BY DEF Counter
    <3>6. work'[a.key] = n /\ work[a.key] \in Int /\ a.op = op
      BY <3>1, <3>2, <3>3 DEF TypeOK
    <3>5. Counter(a.key)' <= work[a.key]
      BY <1>0, <3>2, <3>3, <3>4, <3>6 DEF HeldRows, NewRow, Counter
    <3>7. a.old <= work'[a.key] \/ Creates(a)
      BY <3>2, <3>6 DEF NewRow, Creates
    <3> QED BY <1>0, <3>1, <3>2, <3>5, <3>6, <3>7
  <2> QED BY <2>1, <2>2
<1>6. TrailBelow'
  BY DEF TrailBelow
<1> QED BY <1>1, <1>2, <1>3, <1>4, <1>5, <1>6, <1>7

(* Every step keeps the invariant, one case per action. *)
LEMMA INext == IInv /\ [Next]_vars => IInv'
<1> SUFFICES ASSUME IInv, [Next]_vars PROVE IInv'
  OBVIOUS
<1>0. TypeOK /\ TypeOK'
  BY TypeNext DEF IInv
<1> USE DEF db, locks, locals, Goto
<1>1. ASSUME NEW r \in Requests, BeginIssue(r) PROVE IInv'
  BY <1>0, <1>1, QuietStep DEF BeginIssue, Ended, TypeOK
<1>2. ASSUME NEW r \in Requests, BeginRepair(r) PROVE IInv'
  BY <1>0, <1>2, QuietStep DEF BeginRepair, Ended, TypeOK
<1>3. ASSUME NEW r \in Requests, BeginVerify(r) PROVE IInv'
  BY <1>0, <1>3, QuietStep DEF BeginVerify, Ended, TypeOK
<1>4. ASSUME NEW r \in Requests, DeleteDocument(r) PROVE IInv'
  BY <1>0, <1>4, QuietStep DEF DeleteDocument, Ended, TypeOK
<1>5. ASSUME NEW r \in Requests, ReadCounter(r) PROVE IInv'
  BY <1>0, <1>5, QuietStep DEF ReadCounter, Ended, TypeOK, IInv, ReadersVerify
<1>6. ASSUME NEW r \in Requests, ScanDocuments(r) PROVE IInv'
  <2>1. kind[r] = "verify"
    BY <1>6 DEF ScanDocuments, IInv, ReadersVerify
  <2> QED BY <1>0, <1>6, <2>1, QuietStep DEF ScanDocuments, NextVerify, Ended, TypeOK
<1>7. ASSUME NEW r \in Requests, SelectForUpdate(r) PROVE IInv'
  <2>1. CASE rows[key[r]] = NoRow
    BY <1>0, <1>7, <2>1, QuietStep DEF SelectForUpdate, Ended, TypeOK
  <2>2. CASE rows[key[r]] # NoRow
    <3>1. Counter(key[r]) = rows[key[r]]
      BY <2>2 DEF Counter
    <3> QED BY <1>0, <1>7, <2>2, <3>1, TakeLock DEF SelectForUpdate
  <2> QED BY <2>1, <2>2
<1>8. ASSUME NEW r \in Requests, InsertRow(r) PROVE IInv'
  <2>1. Counter(key[r]) = 0
    BY <1>8 DEF InsertRow, Counter
  <2> QED BY <1>0, <1>8, <2>1, TakeLock DEF InsertRow
<1>9. ASSUME NEW r \in Requests, IssueNumber(r) PROVE IInv'
  <2>1. work[key[r]] + 1 \in Int /\ work[key[r]] <= work[key[r]] + 1
    BY <1>0 DEF TypeOK
  <2> DEFINE n == work[key[r]] + 1
  <2>2. /\ pc[r] = "locked" /\ kind[r] \in {"create", "peek"}
        /\ work' = [work EXCEPT ![key[r]] = n]
        /\ num' = [num EXCEPT ![r] = n]
        /\ Log(r, "GET_NEXT", n)
        /\ UNCHANGED <<rows, audit, holder, kind, key>>
    BY <1>9 DEF IssueNumber
  <2>3. pc'[r] \in {"document", "ready"}
    BY <1>0, <1>9 DEF IssueNumber, TypeOK
  <2>4. num'[r] = n /\ \A q \in Requests \ {r} : pc'[q] = pc[q] /\ num'[q] = num[q]
    BY <1>0, <1>9 DEF IssueNumber, TypeOK
  <2> HIDE DEF n
  <2>5. n \in Int /\ n <= n /\ work[key[r]] <= n
    BY <2>1 DEF n
  <2> QED BY <1>0, <2>2, <2>3, <2>4, <2>5, UpdateLocked DEF Ops, Ended
<1>10. ASSUME NEW r \in Requests, Raise(r) PROVE IInv'
  <2> DEFINE n == IF rows[key[r]] = NoRow THEN num[r] ELSE Raised(work[key[r]], num[r])
  <2>1. n \in Int /\ num[r] <= n /\ (work[key[r]] <= n \/ rows[key[r]] = NoRow)
    BY <1>0 DEF TypeOK, Raised
  <2>2. pc'[r] \in {"read", "ready"} /\ (pc'[r] = "read" => kind[r] = "verify")
    BY <1>0, <1>10 DEF Raise, NextVerify, TypeOK
  <2>3. /\ pc[r] = "locked" /\ kind[r] # "create"
        /\ work' = [work EXCEPT ![key[r]] = n]
        /\ Log(r, "MANUAL_SYNC", num[r])
        /\ UNCHANGED <<rows, audit, holder, kind, num>>
    BY <1>0, <1>10 DEF Raise
  <2>4. \A q \in Requests \ {r} : pc'[q] = pc[q] /\ key'[q] = key[q]
    BY <1>0, <1>10 DEF Raise, NextVerify, TypeOK
  <2>5. num[r] \in Int /\ "MANUAL_SYNC" \in Ops /\ pc'[r] \notin Ended \cup {"locked", "new"}
    BY <1>0, <2>2 DEF TypeOK, Ops, Ended
  <2> HIDE DEF n
  <2>6. kind[r] = "create" => key'[r] = key[r] /\ num'[r] = n
    BY <2>3
  <2> QED BY <1>0, <2>1, <2>2, <2>3, <2>4, <2>5, <2>6, UpdateLocked
<1>11. ASSUME NEW r \in Requests, InsertDocument(r) PROVE IInv'
  <2>1. ReadersVerify' /\ UpdateUnderLock' /\ NewRow'
    BY <1>0, <1>11 DEF InsertDocument, IInv, LockDiscipline, ReadersVerify,
       UpdateUnderLock, NewRow, TypeOK
  <2>2. HeldRows'
    BY <1>0, <1>11 DEF InsertDocument, IInv, LockDiscipline, HeldRows, TypeOK, Ended
  <2>3. NumberUnderLock'
    BY <1>0, <1>11 DEF InsertDocument, IInv, LockDiscipline, NumberUnderLock, TypeOK
  <2>4. PendingInside' /\ TrailBelow'
    BY <1>11 DEF InsertDocument, IInv, LockDiscipline, PendingInside, TrailBelow, Counter
  <2> QED BY <1>0, <2>1, <2>2, <2>3, <2>4 DEF IInv, LockDiscipline
<1>12. ASSUME NEW r \in Requests, Commit(r) PROVE IInv'
  <2>1. ReadersVerify' /\ UpdateUnderLock'
    BY <1>0, <1>12 DEF Commit, Release, IInv, LockDiscipline, ReadersVerify,
       UpdateUnderLock, TypeOK
  <2>7. NewRow'
    <3> SUFFICES ASSUME NEW q \in Requests, pc'[q] = "locked", rows'[key[q]] = NoRow
                 PROVE  work[key[q]] = 0 /\ \A a \in pending'[q] : a.key # key[q]
      BY <1>12 DEF Commit, NewRow
    <3>1. q # r /\ pc[q] = "locked" /\ pending'[q] = pending[q] /\ key[q] \in Keys
      BY <1>0, <1>12 DEF Commit, TypeOK
    <3>2. holder[key[q]] = q
      BY <3>1 DEF IInv, LockDiscipline, UpdateUnderLock
    <3>3. rows'[key[q]] = rows[key[q]]
      BY <1>12, <3>1, <3>2 DEF Commit
    <3> QED BY <3>1, <3>3 DEF IInv, NewRow
  <2>2. \A k \in Keys : holder'[k] # Nobody =>
          holder[k] # r /\ holder'[k] = holder[k] /\ rows'[k] = rows[k]
    BY <1>0, <1>12 DEF Commit, Release, TypeOK
  <2>3. HeldRows'
    BY <1>0, <1>12, <2>2 DEF Commit, IInv, LockDiscipline, HeldRows, TypeOK, Ended
  <2>4. NumberUnderLock'
    BY <1>0, <1>12 DEF Commit, Release, IInv, LockDiscipline, NumberUnderLock, TypeOK
  <2>5. PendingInside'
    <3> SUFFICES ASSUME NEW q \in Requests, NEW a \in pending'[q]
                 PROVE  /\ holder'[a.key] = q
                        /\ Counter(a.key)' <= a.old /\ a.new <= work'[a.key]
                        /\ a.old <= work'[a.key] \/ Creates(a)
      BY DEF PendingInside
    <3>1. q # r /\ a \in pending[q] /\ a.key \in Keys
      BY <1>0, <1>12 DEF Commit, TypeOK, AuditRecords
    <3>2. holder[a.key] = q /\ holder'[a.key] = q
      BY <1>12, <3>1 DEF Commit, Release, IInv, LockDiscipline, PendingInside
    <3> QED BY <1>12, <2>2, <3>1, <3>2, ConstantsAssumption
            DEF Commit, IInv, LockDiscipline, PendingInside, Counter
  <2>6. TrailBelow'
    <3> SUFFICES ASSUME NEW a \in audit'
                 PROVE  /\ rows'[a.key] # NoRow /\ a.new <= rows'[a.key]
                        /\ a.old <= rows'[a.key] \/ Creates(a)
      BY DEF TrailBelow
    <3>1. a.key \in Keys /\ a.old \in Int /\ a.new \in Int
      BY <1>0 DEF TypeOK, AuditRecords
    <3>2. rows'[a.key] = IF holder[a.key] = r THEN work[a.key] ELSE rows[a.key]
      BY <1>12, <3>1 DEF Commit
    <3>3. CASE a \in pending[r]
      <4>1. /\ holder[a.key] = r /\ a.new <= work[a.key]
            /\ a.old <= work[a.key] \/ Creates(a)
        BY <3>3 DEF IInv, LockDiscipline, PendingInside
      <4> QED BY <1>0, <3>1, <3>2, <4>1, ConstantsAssumption DEF TypeOK
    <3>4. CASE a \in audit
      <4>1. /\ rows[a.key] # NoRow /\ a.new <= rows[a.key]
            /\ a.old <= rows[a.key] \/ Creates(a)
        BY <3>4 DEF IInv, LockDiscipline, TrailBelow
      <4>2. CASE holder[a.key] = r
        <5>1. rows[a.key] <= work[a.key]
          BY <3>1, <4>1, <4>2, ConstantsAssumption DEF IInv, LockDiscipline, HeldRows
        <5>2. rows[a.key] \in Int /\ work[a.key] \in Int
          BY <1>0, <3>1, <4>1 DEF TypeOK
        <5> QED BY <3>1, <3>2, <4>1, <4>2, <5>1, <5>2, ConstantsAssumption
      <4> QED BY <3>2, <4>1, <4>2
    <3> QED BY <1>12, <3>3, <3>4 DEF Commit
  <2> QED BY <1>0, <2>1, <2>3, <2>4, <2>5, <2>6, <2>7 DEF IInv, LockDiscipline
<1>13. ASSUME NEW r \in Requests, Abort(r) PROVE IInv'
  <2>1. ReadersVerify' /\ UpdateUnderLock'
    BY <1>0, <1>13 DEF Abort, Release, IInv, LockDiscipline, ReadersVerify,
       UpdateUnderLock, TypeOK
  <2>7. NewRow'
    <3> SUFFICES ASSUME NEW q \in Requests, pc'[q] = "locked", rows'[key[q]] = NoRow
                 PROVE  work[key[q]] = 0 /\ \A a \in pending'[q] : a.key # key[q]
      BY <1>13 DEF Abort, NewRow
    <3>1. q # r /\ pc[q] = "locked" /\ pending'[q] = pending[q] /\ key[q] \in Keys
      BY <1>0, <1>13 DEF Abort, TypeOK
    <3>2. holder[key[q]] = q
      BY <3>1 DEF IInv, LockDiscipline, UpdateUnderLock
    <3>3. rows'[key[q]] = rows[key[q]]
      BY <1>13, <3>1, <3>2 DEF Abort
    <3> QED BY <3>1, <3>3 DEF IInv, NewRow
  <2>2. HeldRows'
    BY <1>0, <1>13 DEF Abort, Release, IInv, LockDiscipline, HeldRows, Counter, TypeOK
  <2>3. NumberUnderLock'
    BY <1>0, <1>13 DEF Abort, Release, IInv, LockDiscipline, NumberUnderLock, TypeOK
  <2>4. PendingInside'
    <3> SUFFICES ASSUME NEW q \in Requests, NEW a \in pending'[q]
                 PROVE  /\ holder'[a.key] = q
                        /\ Counter(a.key)' <= a.old /\ a.new <= work'[a.key]
                        /\ a.old <= work'[a.key] \/ Creates(a)
      BY DEF PendingInside
    <3>1. q # r /\ a \in pending[q] /\ a.key \in Keys
      BY <1>0, <1>13 DEF Abort, TypeOK, AuditRecords
    <3> QED BY <1>13, <3>1 DEF Abort, Release, IInv, LockDiscipline, PendingInside, Counter
  <2>5. TrailBelow'
    BY <1>13 DEF Abort, IInv, LockDiscipline, TrailBelow
  <2> QED BY <1>0, <2>1, <2>2, <2>3, <2>4, <2>5, <2>7 DEF IInv, LockDiscipline
<1>14. CASE UNCHANGED vars
  <2>1. HeldRows' /\ UpdateUnderLock' /\ NumberUnderLock' /\ ReadersVerify' /\ NewRow'
    BY <1>14 DEF IInv, LockDiscipline, vars, HeldRows, UpdateUnderLock, NumberUnderLock,
       ReadersVerify, NewRow
  <2>2. PendingInside' /\ TrailBelow'
    BY <1>14 DEF IInv, LockDiscipline, vars, PendingInside, TrailBelow, Counter
  <2> QED BY <1>0, <2>1, <2>2 DEF IInv, LockDiscipline
<1> QED
  BY <1>1, <1>2, <1>3, <1>4, <1>5, <1>6, <1>7, <1>8, <1>9, <1>10, <1>11,
     <1>12, <1>13, <1>14 DEF Next, Step, Advance, AllEnded

(* Locks, numbers and audit records stay as LockDiscipline says. *)
THEOREM LocksHold == Spec => []LockDiscipline
<1>1. IInv => LockDiscipline
  BY DEF IInv
<1> QED BY IInit, INext, <1>1, PTL DEF Spec

-----------------------------------------------------------------------------
(* A record added under the lock starts where the counter stands, at or    *)
(* past the end of every other record of its key.                          *)
LEMMA LogPartition ==
  ASSUME IInv, AuditPartition, NEW r \in Requests, NEW op, NEW n \in Int,
         pc[r] = "locked", Log(r, op, n), UNCHANGED audit
  PROVE  AuditPartition'
<1> DEFINE c == [key |-> key[r], op |-> op, old |-> work[key[r]], new |-> n, by |-> r]
<1>1. TypeOK /\ holder[key[r]] = r /\ r # Nobody /\ key[r] \in Keys
  BY ConstantsAssumption DEF IInv, LockDiscipline, UpdateUnderLock, TypeOK
<1>2. Logged' \subseteq Logged \cup {c}
  BY <1>1 DEF Logged, Log, TypeOK
<1>3. \A b \in Logged : b.key = c.key => b.new <= c.old
  <2> SUFFICES ASSUME NEW b \in Logged, b.key = key[r] PROVE b.new <= work[key[r]]
    OBVIOUS
  <2>1. CASE b \in audit
    <3>1. rows[key[r]] # NoRow /\ b.new <= rows[key[r]]
      BY <2>1 DEF IInv, LockDiscipline, TrailBelow
    <3>2. rows[key[r]] <= work[key[r]]
      BY <1>1, <3>1 DEF IInv, LockDiscipline, HeldRows, Counter
    <3>3. b.new \in Int /\ rows[key[r]] \in Int /\ work[key[r]] \in Int
      BY <1>1, <2>1, <3>1, RecordFields DEF TypeOK
    <3> QED BY <3>1, <3>2, <3>3
  <2>2. CASE b \notin audit
    <3>1. PICK q \in Requests : b \in pending[q]
      BY <2>2 DEF Logged
    <3> QED BY <3>1 DEF IInv, LockDiscipline, PendingInside
  <2> QED BY <2>1, <2>2
<1>4. \A b \in Logged : b.old \in Int /\ b.new \in Int
  BY <1>1, RecordFields DEF Logged
<1>5. c.old \in Int /\ c.new \in Int
  BY <1>1 DEF TypeOK
<1> HIDE DEF c
<1>6. \A b \in Logged : ~ Overlap(b, c) /\ ~ Overlap(c, b)
  <2> SUFFICES ASSUME NEW b \in Logged, b.key = c.key PROVE ~ (c.old < b.new)
    BY DEF Overlap
  <2> QED BY <1>3, <1>4, <1>5
<1> QED BY <1>2, <1>6 DEF AuditPartition

(* No step makes the ranges of two audit records overlap. *)
LEMMA PartitionNext == IInv /\ AuditPartition /\ [Next]_vars => AuditPartition'
<1> SUFFICES ASSUME IInv, AuditPartition, [Next]_vars PROVE AuditPartition'
  OBVIOUS
<1>1. ASSUME Logged' \subseteq Logged PROVE AuditPartition'
  BY <1>1 DEF AuditPartition
<1>2. CASE UNCHANGED <<audit, pending>>
  BY <1>1, <1>2 DEF Logged
<1>3. ASSUME NEW r \in Requests, IssueNumber(r) PROVE AuditPartition'
  <2>1. work[key[r]] + 1 \in Int
    BY DEF IInv, TypeOK
  <2> QED BY <1>3, <2>1, LogPartition DEF IssueNumber, db
<1>4. ASSUME NEW r \in Requests, Raise(r) PROVE AuditPartition'
  <2>1. num[r] \in Int
    BY DEF IInv, TypeOK
  <2> QED BY <1>4, <2>1, LogPartition DEF Raise, db
<1>5. ASSUME NEW r \in Requests, Commit(r) \/ Abort(r) PROVE AuditPartition'
  <2>1. \A q \in Requests : pending'[q] \subseteq pending[q]
    BY <1>5 DEF Commit, Abort, IInv, TypeOK
  <2>2. audit' \subseteq audit \cup pending[r]
    BY <1>5 DEF Commit, Abort, db
  <2> QED BY <1>1, <2>1, <2>2 DEF Logged
<1>6. ASSUME NEW r \in Requests, Advance(r), ~ IssueNumber(r), ~ Raise(r), ~ Commit(r)
      PROVE  UNCHANGED <<audit, pending>>
  BY <1>6 DEF Advance, BeginIssue, BeginRepair, BeginVerify, DeleteDocument,
     ReadCounter, ScanDocuments, SelectForUpdate, InsertRow, InsertDocument, db
<1> QED BY <1>2, <1>3, <1>4, <1>5, <1>6 DEF Next, Step, AllEnded, vars, db, locals

(* No two requests are ever given the same number, and no repair passes    *)
(* over a number being issued, for any set of requests.                    *)
THEOREM NumbersPartitioned == Spec => []AuditPartition
<1>1. Init => AuditPartition
  BY DEF Init, AuditPartition, Logged
<1> QED BY IInit, INext, PartitionNext, <1>1, PTL DEF Spec

-----------------------------------------------------------------------------
(* No transaction, and no repair that decided on a stale counter, lowers a *)
(* counter or loses its row.                                               *)
THEOREM CountersGrow == Spec => CounterMonotone
<1> DEFINE Grows == \A k \in Keys : rows[k] # NoRow => rows'[k] # NoRow /\ rows'[k] >= rows[k]
<1>1. IInv /\ [Next]_vars => [Grows]_vars
  <2> SUFFICES ASSUME IInv, Next PROVE Grows
    BY DEF vars
  <2>1. TypeOK
    BY DEF IInv
  <2>2. CASE rows' = rows
    BY <2>1, <2>2 DEF TypeOK
  <2>3. ASSUME NEW r \in Requests, Commit(r) PROVE Grows
    <3> SUFFICES ASSUME NEW k \in Keys, rows[k] # NoRow, holder[k] = r
                 PROVE  rows'[k] # NoRow /\ rows'[k] >= rows[k]
      BY <2>1, <2>3 DEF Commit, TypeOK
    <3>1. rows'[k] = work[k] /\ work[k] \in Int /\ rows[k] \in Int
      BY <2>1, <2>3 DEF Commit, TypeOK
    <3>2. rows[k] <= work[k]
      BY ConstantsAssumption DEF IInv, LockDiscipline, HeldRows, Counter
    <3> QED BY <3>1, <3>2, ConstantsAssumption
  <2>4. ASSUME NEW r \in Requests, Step(r), ~ Commit(r) PROVE rows' = rows
    BY <2>4 DEF Step, Advance, Abort, BeginIssue, BeginRepair, BeginVerify, DeleteDocument,
       ReadCounter, ScanDocuments, SelectForUpdate, InsertRow, IssueNumber, Raise,
       InsertDocument, db
  <2> QED BY <2>2, <2>3, <2>4 DEF Next, AllEnded, vars, db
<1> QED BY IInit, INext, <1>1, PTL DEF Spec, CounterMonotone

-----------------------------------------------------------------------------
(* No step lowers the counter of a row, and a document number that is new  *)
(* is the counter, set with it by the commit of the request that held the  *)
(* row.                                                                    *)
LEMMA CounterStep ==
  ASSUME IInv, [Next]_vars, NEW k \in Keys
  PROVE  /\ Counter(k) \in Int /\ Counter(k)' \in Int
         /\ rows[k] # NoRow => rows'[k] # NoRow /\ Counter(k) <= Counter(k)'
         /\ \A n \in docs'[k] :
              \/ n \in docs[k]
              \/ /\ n = Counter(k)' /\ rows'[k] # NoRow
                 /\ \E q \in Requests : holder[k] = q /\ Commit(q)
<1>1. TypeOK /\ Counter(k) \in Int
  BY CounterInt DEF IInv
<1>2. CASE rows' = rows /\ docs'[k] \subseteq docs[k]
  BY <1>1, <1>2 DEF Counter
<1>3. ASSUME NEW r \in Requests, Commit(r)
      PROVE  /\ Counter(k)' \in Int
             /\ rows[k] # NoRow => rows'[k] # NoRow /\ Counter(k) <= Counter(k)'
             /\ \A n \in docs'[k] :
                  \/ n \in docs[k]
                  \/ n = Counter(k)' /\ rows'[k] # NoRow /\ holder[k] = r
  <2>1. CASE holder[k] = r
    <3>1. rows'[k] = work[k] /\ work[k] \in Int
      BY <1>1, <1>3, <2>1 DEF Commit, TypeOK
    <3>2. Counter(k)' = work[k] /\ rows'[k] # NoRow
      BY <2>1, <3>1, ConstantsAssumption DEF Counter
    <3>4. rows[k] # NoRow => Counter(k) <= work[k]
      BY <2>1, ConstantsAssumption DEF Counter, IInv, LockDiscipline, HeldRows
    <3>3. ASSUME NEW n \in docs'[k], n \notin docs[k] PROVE n = work[k]
      BY <1>1, <1>3, <3>3 DEF Commit, TypeOK, IInv, LockDiscipline, NumberUnderLock
    <3> QED BY <2>1, <3>1, <3>2, <3>3, <3>4
  <2>2. CASE holder[k] # r
    <3>1. Counter(k)' = Counter(k) /\ rows'[k] = rows[k]
      BY <1>1, <1>3, <2>2 DEF Commit, Counter, TypeOK
    <3>2. docs'[k] = docs[k]
      BY <1>1, <1>3, <2>2 DEF Commit, TypeOK, IInv, LockDiscipline, NumberUnderLock
    <3> QED BY <1>1, <3>1, <3>2
  <2> QED BY <2>1, <2>2
<1>4. ASSUME NEW r \in Requests, DeleteDocument(r) PROVE rows' = rows /\ docs'[k] \subseteq docs[k]
  BY <1>1, <1>4 DEF DeleteDocument, TypeOK
<1>5. ASSUME NEW r \in Requests, Step(r), ~ Commit(r), ~ DeleteDocument(r)
      PROVE  rows' = rows /\ docs' = docs
  BY <1>5 DEF Step, Advance, Abort, BeginIssue, BeginRepair, BeginVerify,
     ReadCounter, ScanDocuments, SelectForUpdate, InsertRow, IssueNumber, Raise,
     InsertDocument, db
<1> QED BY <1>1, <1>2, <1>3, <1>4, <1>5 DEF Next, AllEnded, vars, db

(* Only a number that was issued can be 0 or negative, so it has a row     *)
(* that is past it.                                                        *)
LowDocs ==
  \A k \in Keys : \A n \in docs[k] : n <= 0 => rows[k] # NoRow /\ n <= rows[k]

(* Imported documents carry positive numbers ... *)
LEMMA LowInit == Init => LowDocs
<1>1. \A n \in LegacyNumbers : ~ (n <= 0)
  BY ConstantsAssumption
<1> QED BY <1>1 DEF Init, LowDocs

(* ... and a create commits its number with the row. *)
LEMMA LowNext == IInv /\ LowDocs /\ [Next]_vars => LowDocs'
<1> SUFFICES ASSUME IInv, LowDocs, [Next]_vars, NEW k \in Keys, NEW n \in docs'[k], n <= 0
             PROVE  rows'[k] # NoRow /\ n <= rows'[k]
  BY DEF LowDocs
<1>1. rows'[k] # NoRow => rows'[k] = Counter(k)'
  BY DEF Counter
<1>2. CASE n \in docs[k]
  <2>1. rows[k] # NoRow /\ n <= Counter(k) /\ n \in Int
    BY <1>2 DEF LowDocs, Counter, IInv, TypeOK
  <2> QED BY <1>1, <2>1, CounterStep
<1>3. CASE n \notin docs[k]
  <2>1. n = Counter(k)' /\ rows'[k] # NoRow /\ Counter(k)' \in Int
    BY <1>3, CounterStep
  <2> QED BY <1>1, <2>1
<1> QED BY <1>2, <1>3

(* A counter that has passed a document does not go back below it.         *)
LEMMA StaysBelow ==
  ASSUME IInv, LowDocs, [Next]_vars, NEW k \in Keys, NEW n \in docs[k], n <= Counter(k)
  PROVE  n <= Counter(k)'
<1>1. n \in Int
  BY DEF IInv, TypeOK
<1>2. rows[k] # NoRow
  BY DEF LowDocs, Counter
<1> QED BY <1>1, <1>2, CounterStep

(* A sequence in sync stays so. *)
LEMMA SyncStep ==
  ASSUME IInv, LowDocs, [Next]_vars, NEW k \in Keys, InSync(k)
  PROVE  InSync(k)'
<1> SUFFICES ASSUME NEW n \in docs'[k] PROVE n <= Counter(k)'
  BY DEF InSync
<1>1. CASE n \in docs[k]
  BY <1>1, StaysBelow DEF InSync
<1>2. CASE n \notin docs[k]
  BY <1>2, CounterStep
<1> QED BY <1>1, <1>2

(* No request, delete or create leaves a key's documents ahead of its      *)
(* counter, if they were not: a create writes its number and the counter   *)
(* in one transaction.                                                     *)
THEOREM SyncKept == Spec => InSyncStable
<1>1. IInv /\ LowDocs /\ [Next]_vars => [\A k \in Keys : InSync(k) => InSync(k)']_vars
  BY SyncStep
<1> QED BY IInit, INext, LowInit, LowNext, <1>1, PTL DEF Spec, InSyncStable

-----------------------------------------------------------------------------
(* What a request that issues a number has done so far: until it has its   *)
(* number it changed nothing; then it holds one row, one past the          *)
(* committed counter, and one record of that step.  Every other record is  *)
(* a sync.                                                                 *)
Issuing == {r \in Requests : kind[r] \in {"create", "peek"}}

Issued(k, r) == [key |-> k, op |-> "GET_NEXT", old |-> Counter(k),
                 new |-> Counter(k) + 1, by |-> r]

OneRow    == \A r \in Issuing : \A k \in Keys : holder[k] = r => k = key[r]
Unnumbered == \A r \in Issuing : pc[r] \in {"new", "lock", "insert", "locked"} => pending[r] = {}
Fresh     == \A r \in Issuing : pc[r] = "locked" => work[key[r]] = Counter(key[r])
Numbered  == \A r \in Issuing : pc[r] \in {"document", "ready"} =>
               /\ holder[key[r]] = r
               /\ work[key[r]] = Counter(key[r]) + 1
               /\ pending[r] = {Issued(key[r], r)}
Syncing   == \A r \in Requests \ Issuing :
               /\ kind[r] = "delete" => pc[r] \in Ended \cup {"new"}
               /\ \A a \in pending[r] : a.op = "MANUAL_SYNC"

IssueShape == OneRow /\ Unnumbered /\ Fresh /\ Numbered /\ Syncing

(* The shape holds initially. *)
LEMMA ShapeInit == Init => IssueShape
<1> SUFFICES ASSUME Init PROVE IssueShape
  OBVIOUS
<1>1. OneRow /\ Unnumbered
  BY ConstantsAssumption DEF Init, OneRow, Unnumbered, Issuing
<1>2. Fresh /\ Numbered /\ Syncing
  BY DEF Init, Fresh, Numbered, Syncing, Issuing, Kinds
<1> QED BY <1>1, <1>2 DEF IssueShape

(* A step of r that leaves rows, locks and records alone. *)
LEMMA ShapeQuiet ==
  ASSUME IInv, IssueShape, NEW r \in Requests,
         UNCHANGED <<rows, audit, holder, work, kind, pending>>,
         \A q \in Requests \ {r} : pc'[q] = pc[q] /\ key'[q] = key[q],
         kind[r] = "delete" => pc'[r] \in Ended \cup {"new"},
         r \in Issuing => /\ key'[r] = key[r]
                          /\ pc'[r] \notin {"locked"}
                          /\ pc'[r] \in {"document", "ready"} => pc[r] \in {"document", "ready"}
                          /\ pc'[r] \in {"new", "lock", "insert"} => pc[r] \in {"new", "lock", "insert"}
  PROVE  IssueShape'
<1> USE DEF IssueShape
<1>0. Issuing' = Issuing
  BY DEF Issuing
<1>1. \A q \in Issuing : key'[q] = key[q]
  BY DEF Issuing
<1>2. \A k : Counter(k)' = Counter(k)
  BY DEF Counter
<1>3. OneRow'
  BY <1>0, <1>1 DEF OneRow
<1>4. Unnumbered'
  <2> SUFFICES ASSUME NEW q \in Issuing, pc'[q] \in {"new", "lock", "insert", "locked"}
               PROVE  pending'[q] = {}
    BY <1>0 DEF Unnumbered
  <2>1. pc[q] \in {"new", "lock", "insert", "locked"}
    BY DEF Issuing
  <2> QED BY <2>1 DEF Unnumbered
<1>5. Fresh'
  <2> SUFFICES ASSUME NEW q \in Issuing, pc'[q] = "locked"
               PROVE  work'[key'[q]] = Counter(key[q])'
    BY <1>0, <1>1 DEF Fresh, Counter
  <2> QED BY <1>1 DEF Fresh, Counter, Issuing
<1>6. Numbered'
  <2> SUFFICES ASSUME NEW q \in Issuing, pc'[q] \in {"document", "ready"}
               PROVE  /\ holder'[key'[q]] = q
                      /\ work'[key'[q]] = (IF rows'[key'[q]] = NoRow THEN 0 ELSE rows'[key'[q]]) + 1
                      /\ pending'[q] = {Issued(key[q], q)'}
    BY <1>0, <1>1 DEF Numbered, Counter, Issued
  <2>1. pc[q] \in {"document", "ready"}
    BY DEF Issuing
  <2> QED BY <1>1, <2>1 DEF Numbered, Counter, Issued
<1>7. Syncing'
  BY <1>0 DEF Syncing
<1> QED BY <1>3, <1>4, <1>5, <1>6, <1>7

(* Requests at "locked", "document" or "ready" that issue a number work on *)
(* different keys: each holds its row.                                     *)
LEMMA IssuersApart ==
  ASSUME IInv, IssueShape, NEW q \in Issuing, pc[q] \in {"locked", "document", "ready"}
  PROVE  q \in Requests /\ q # Nobody /\ key[q] \in Keys /\ holder[key[q]] = q
<1>1. q \in Requests /\ q # Nobody /\ key[q] \in Keys
  BY ConstantsAssumption DEF Issuing, IInv, TypeOK
<1> QED BY <1>1 DEF IInv, LockDiscipline, UpdateUnderLock, IssueShape, Numbered

(* Taking the row's lock, or inserting the row, keeps the shape. *)
LEMMA ShapeTake ==
  ASSUME IInv, IssueShape, NEW r \in Requests,
         Free(key[r]), pc[r] \in {"lock", "insert"},
         holder' = [holder EXCEPT ![key[r]] = r],
         work' = [work EXCEPT ![key[r]] = Counter(key[r])],
         Goto(r, "locked"),
         UNCHANGED <<rows, audit, kind, key, pending>>
  PROVE  IssueShape'
<1>0. Issuing' = Issuing /\ TypeOK /\ Nobody \notin Requests /\ Issuing \subseteq Requests
  BY ConstantsAssumption DEF Issuing, IInv
<1>1. \A k : Counter(k)' = Counter(k)
  BY DEF Counter
<1>2. \A q \in Requests \ {r} : pc'[q] = pc[q]
  BY <1>0 DEF Goto, TypeOK
<1>3. pc'[r] = "locked"
  BY <1>0 DEF Goto, TypeOK
<1>4. ASSUME NEW q \in Issuing, q # r, pc[q] \in {"locked", "document", "ready"}
      PROVE  /\ key[q] # key[r] /\ holder'[key[q]] = holder[key[q]]
             /\ work'[key[q]] = work[key[q]]
  BY <1>0, <1>4, IssuersApart DEF Free, TypeOK
<1>5. OneRow'
  BY <1>0 DEF OneRow, IssueShape, TypeOK
<1>6. Unnumbered'
  BY <1>0, <1>2 DEF Unnumbered, IssueShape
<1>7. Fresh'
  <2> SUFFICES ASSUME NEW q \in Issuing, pc'[q] = "locked"
               PROVE  work'[key[q]] = Counter(key[q])
    BY <1>0 DEF Fresh, Counter
  <2>1. CASE q = r
    BY <1>0, <2>1 DEF TypeOK
  <2>2. CASE q # r
    BY <1>0, <1>2, <1>4, <2>2 DEF Fresh, IssueShape
  <2> QED BY <2>1, <2>2
<1>8. Numbered'
  <2> SUFFICES ASSUME NEW q \in Issuing, pc'[q] \in {"document", "ready"}
               PROVE  /\ holder'[key[q]] = q
                      /\ work'[key[q]] = Counter(key[q]) + 1
                      /\ pending[q] = {Issued(key[q], q)}
    BY <1>0 DEF Numbered, Counter, Issued
  <2>1. q # r
    BY <1>3
  <2> QED BY <1>0, <1>2, <1>4, <2>1 DEF Numbered, IssueShape
<1>9. Syncing'
  BY <1>0, <1>2 DEF Syncing, IssueShape, Ended
<1> QED BY <1>5, <1>6, <1>7, <1>8, <1>9 DEF IssueShape

(* A step of r under its lock leaves the others' rows alone. *)
LEMMA ShapeOthers ==
  ASSUME IInv, IssueShape, NEW r \in Requests, NEW n,
         pc[r] = "locked", UNCHANGED <<rows, holder, kind>>,
         work' = [work EXCEPT ![key[r]] = n],
         \A q \in Requests \ {r} :
           pc'[q] = pc[q] /\ key'[q] = key[q] /\ pending'[q] = pending[q],
         NEW q \in Issuing, q # r
  PROVE  /\ \A k \in Keys : holder'[k] = q => k = key'[q]
         /\ pc'[q] \in {"new", "lock", "insert", "locked"} => pending'[q] = {}
         /\ pc'[q] = "locked" => work'[key'[q]] = Counter(key[q])
         /\ pc'[q] \in {"document", "ready"} =>
              /\ holder'[key'[q]] = q
              /\ work'[key'[q]] = Counter(key[q]) + 1
              /\ pending'[q] = {Issued(key[q], q)}
<1>1. q \in Requests /\ TypeOK
  BY DEF Issuing, IInv
<1>2. holder[key[r]] = r
  BY DEF IInv, LockDiscipline, UpdateUnderLock
<1>3. pc[q] \in {"locked", "document", "ready"} => work'[key[q]] = work[key[q]]
  BY <1>1, <1>2, IssuersApart DEF TypeOK
<1>4. \A k \in Keys : holder'[k] = q => k = key'[q]
  BY <1>1 DEF IssueShape, OneRow
<1>5. pc'[q] \in {"new", "lock", "insert", "locked"} => pending'[q] = {}
  BY <1>1 DEF IssueShape, Unnumbered
<1>6. pc'[q] = "locked" => work'[key'[q]] = Counter(key[q])
  BY <1>1, <1>3 DEF IssueShape, Fresh
<1>7. pc'[q] \in {"document", "ready"} =>
        /\ holder'[key'[q]] = q
        /\ work'[key'[q]] = Counter(key[q]) + 1
        /\ pending'[q] = {Issued(key[q], q)}
  BY <1>1, <1>3 DEF IssueShape, Numbered
<1> QED BY <1>4, <1>5, <1>6, <1>7

(* Issuing a number keeps the shape. *)
LEMMA ShapeIssue ==
  ASSUME IInv, IssueShape, NEW r \in Requests, IssueNumber(r) PROVE IssueShape'
<1>0. Issuing' = Issuing /\ TypeOK /\ r \in Issuing /\ Issuing \subseteq Requests
  BY DEF Issuing, IInv, IssueNumber
<1>1. /\ pc[r] = "locked" /\ key' = key /\ UNCHANGED <<rows, holder, kind>>
      /\ work' = [work EXCEPT ![key[r]] = work[key[r]] + 1]
      /\ \A q \in Requests \ {r} :
           pc'[q] = pc[q] /\ key'[q] = key[q] /\ pending'[q] = pending[q]
  BY <1>0 DEF IssueNumber, Goto, Log, TypeOK, db
<1>2. pc'[r] \in {"document", "ready"}
  BY <1>0 DEF IssueNumber, Goto, TypeOK
<1>3. work[key[r]] = Counter(key[r]) /\ pending[r] = {}
  BY <1>0, <1>1 DEF IssueShape, Fresh, Unnumbered
<1>4. holder'[key[r]] = r /\ \A k \in Keys : holder'[k] = r => k = key[r]
  BY <1>0, <1>1 DEF IInv, LockDiscipline, UpdateUnderLock, IssueShape, OneRow
<1>5. work'[key[r]] = Counter(key[r]) + 1
  BY <1>0, <1>1, <1>3 DEF TypeOK
<1>6. pending'[r] = {Issued(key[r], r)}
  BY <1>0, <1>3 DEF IssueNumber, Log, Issued, TypeOK
<1>7. OneRow' /\ Unnumbered'
  BY <1>0, <1>1, <1>2, <1>4, ShapeOthers DEF OneRow, Unnumbered
<1>8. Fresh'
  <2> SUFFICES ASSUME NEW q \in Issuing, pc'[q] = "locked"
               PROVE  work'[key'[q]] = Counter(key[q])
    BY <1>0, <1>1 DEF Fresh, Counter
  <2> QED BY <1>0, <1>1, <1>2, ShapeOthers
<1>9. Numbered'
  <2> SUFFICES ASSUME NEW q \in Issuing, pc'[q] \in {"document", "ready"}
               PROVE  /\ holder'[key'[q]] = q
                      /\ work'[key'[q]] = Counter(key[q]) + 1
                      /\ pending'[q] = {Issued(key[q], q)}
    BY <1>0, <1>1 DEF Numbered, Counter, Issued
  <2> QED BY <1>0, <1>1, <1>4, <1>5, <1>6, ShapeOthers
<1>10. Syncing'
  BY <1>0, <1>1 DEF Syncing, IssueShape
<1> QED BY <1>7, <1>8, <1>9, <1>10 DEF IssueShape

(* Raising a counter keeps the shape. *)
LEMMA ShapeRaise ==
  ASSUME IInv, IssueShape, NEW r \in Requests, Raise(r) PROVE IssueShape'
<1>0. Issuing' = Issuing /\ TypeOK /\ r \notin Issuing /\ Issuing \subseteq Requests
  BY DEF Issuing, IInv, Raise
<1>1. /\ pc[r] = "locked" /\ UNCHANGED <<rows, holder, kind>>
      /\ work' = [work EXCEPT ![key[r]] =
                    IF rows[key[r]] = NoRow THEN num[r] ELSE Raised(work[key[r]], num[r])]
      /\ \A q \in Requests \ {r} :
           pc'[q] = pc[q] /\ key'[q] = key[q] /\ pending'[q] = pending[q]
  BY <1>0 DEF Raise, NextVerify, Goto, Log, TypeOK, db
<1>2. \A q \in Issuing : q # r /\ key'[q] = key[q]
  BY <1>0, <1>1
<1>3. OneRow' /\ Unnumbered'
  BY <1>0, <1>1, <1>2, ShapeOthers DEF OneRow, Unnumbered
<1>4. Fresh'
  <2> SUFFICES ASSUME NEW q \in Issuing, pc'[q] = "locked"
               PROVE  work'[key'[q]] = Counter(key[q])
    BY <1>0, <1>1, <1>2 DEF Fresh, Counter
  <2> QED BY <1>1, <1>2, ShapeOthers
<1>5. Numbered'
  <2> SUFFICES ASSUME NEW q \in Issuing, pc'[q] \in {"document", "ready"}
               PROVE  /\ holder'[key'[q]] = q
                      /\ work'[key'[q]] = Counter(key[q]) + 1
                      /\ pending'[q] = {Issued(key[q], q)}
    BY <1>0, <1>1, <1>2 DEF Numbered, Counter, Issued
  <2> QED BY <1>1, <1>2, ShapeOthers
<1>6. \A a \in pending'[r] : a \in pending[r] \/ a.op = "MANUAL_SYNC"
  BY <1>0 DEF Raise, Log, TypeOK
<1>7. Syncing'
  BY <1>0, <1>1, <1>6 DEF Syncing, IssueShape, Raise
<1> QED BY <1>3, <1>4, <1>5, <1>7 DEF IssueShape

(* The end of a transaction, with or without its changes.                  *)
LEMMA ShapeEnd ==
  ASSUME IInv, IssueShape, NEW r \in Requests, Commit(r) \/ Abort(r) PROVE IssueShape'
<1>0. Issuing' = Issuing /\ TypeOK /\ Issuing \subseteq Requests /\ Nobody \notin Requests
  BY ConstantsAssumption DEF Issuing, IInv, Commit, Abort
<1>1. /\ UNCHANGED <<work, kind, key>> /\ pc'[r] \in Ended /\ pending'[r] = {}
      /\ \A q \in Requests \ {r} : pc'[q] = pc[q] /\ pending'[q] = pending[q]
      /\ \A k \in Keys : holder'[k] = IF holder[k] = r THEN Nobody ELSE holder[k]
  BY <1>0 DEF Commit, Abort, Release, Goto, TypeOK, Ended
<1>3. ASSUME NEW q \in Issuing, q # r, pc[q] \in {"locked", "document", "ready"}
      PROVE  Counter(key[q])' = Counter(key[q]) /\ holder'[key[q]] = q
  <2>1. key[q] \in Keys /\ holder[key[q]] = q
    BY <1>3, IssuersApart
  <2>2. holder'[key[q]] = q
    BY <1>1, <1>3, <2>1
  <2>3. rows'[key[q]] = rows[key[q]]
    BY <1>3, <2>1 DEF Commit, Abort, db
  <2> QED BY <1>1, <2>2, <2>3 DEF Counter
<1>4. OneRow' /\ Unnumbered'
  BY <1>0, <1>1 DEF OneRow, Unnumbered, IssueShape, Ended
<1>5. Fresh'
  <2> SUFFICES ASSUME NEW q \in Issuing, pc'[q] = "locked"
               PROVE  work'[key'[q]] = Counter(key[q])'
    BY <1>0 DEF Fresh
  <2>1. q # r /\ pc[q] = "locked"
    BY <1>0, <1>1 DEF Ended
  <2> QED BY <1>1, <1>3, <2>1 DEF Fresh, IssueShape
<1>6. Numbered'
  <2> SUFFICES ASSUME NEW q \in Issuing, pc'[q] \in {"document", "ready"}
               PROVE  /\ holder'[key'[q]] = q
                      /\ work'[key'[q]] = Counter(key[q])' + 1
                      /\ pending'[q] = {Issued(key[q], q)'}
    BY <1>0 DEF Numbered
  <2>1. q # r /\ pc[q] \in {"document", "ready"}
    BY <1>0, <1>1 DEF Ended
  <2>2. Issued(key[q], q)' = Issued(key[q], q)
    BY <1>1, <1>3, <2>1 DEF Issued
  <2> QED BY <1>0, <1>1, <1>3, <2>1, <2>2 DEF Numbered, IssueShape
<1>7. Syncing'
  BY <1>0, <1>1 DEF Syncing, IssueShape
<1> QED BY <1>4, <1>5, <1>6, <1>7 DEF IssueShape

(* Every step keeps the shape. *)
LEMMA ShapeNext == IInv /\ IssueShape /\ [Next]_vars => IssueShape'
<1> SUFFICES ASSUME IInv, IssueShape, [Next]_vars PROVE IssueShape'
  OBVIOUS
<1>0. TypeOK
  BY DEF IInv
<1> USE DEF db, locks, locals, Goto
<1>1. ASSUME NEW r \in Requests, BeginIssue(r) PROVE IssueShape'
  BY <1>0, <1>1, ShapeQuiet DEF BeginIssue, TypeOK
<1>2. ASSUME NEW r \in Requests, BeginRepair(r) PROVE IssueShape'
  BY <1>0, <1>2, ShapeQuiet DEF BeginRepair, Issuing, TypeOK
<1>3. ASSUME NEW r \in Requests, BeginVerify(r) PROVE IssueShape'
  BY <1>0, <1>3, ShapeQuiet DEF BeginVerify, Issuing, TypeOK
<1>4. ASSUME NEW r \in Requests, DeleteDocument(r) PROVE IssueShape'
  BY <1>0, <1>4, ShapeQuiet DEF DeleteDocument, Issuing, Ended, TypeOK
<1>5. ASSUME NEW r \in Requests, ReadCounter(r) PROVE IssueShape'
  <2>1. kind[r] = "verify"
    BY <1>5 DEF ReadCounter, IInv, ReadersVerify
  <2> QED BY <1>0, <1>5, <2>1, ShapeQuiet DEF ReadCounter, Issuing, TypeOK
<1>6. ASSUME NEW r \in Requests, ScanDocuments(r) PROVE IssueShape'
  <2>1. kind[r] = "verify"
    BY <1>6 DEF ScanDocuments, IInv, ReadersVerify
  <2> QED BY <1>0, <1>6, <2>1, ShapeQuiet DEF ScanDocuments, NextVerify, Issuing, TypeOK
<1>7. ASSUME NEW r \in Requests, SelectForUpdate(r) PROVE IssueShape'
  <2>1. kind[r] # "delete"
    BY <1>7 DEF SelectForUpdate, IssueShape, Syncing, Issuing, Ended
  <2>2. CASE rows[key[r]] = NoRow
    BY <1>0, <1>7, <2>1, <2>2, ShapeQuiet DEF SelectForUpdate, TypeOK
  <2>3. CASE rows[key[r]] # NoRow
    BY <1>0, <1>7, <2>3, ShapeTake DEF SelectForUpdate, Counter
  <2> QED BY <2>2, <2>3
<1>8. ASSUME NEW r \in Requests, InsertRow(r) PROVE IssueShape'
  BY <1>0, <1>8, ShapeTake DEF InsertRow, Counter
<1>9. ASSUME NEW r \in Requests, InsertDocument(r) PROVE IssueShape'
  <2>1. kind[r] # "delete"
    BY <1>9 DEF InsertDocument, IssueShape, Syncing, Issuing, Ended
  <2> QED BY <1>0, <1>9, <2>1, ShapeQuiet DEF InsertDocument, TypeOK
<1>10. CASE UNCHANGED vars
  <2>1. OneRow' /\ Unnumbered' /\ Syncing'
    BY <1>10 DEF vars, IssueShape, OneRow, Unnumbered, Syncing, Issuing
  <2>2. Fresh' /\ Numbered'
    BY <1>10 DEF vars, IssueShape, Fresh, Numbered, Issuing, Counter, Issued
  <2> QED BY <2>1, <2>2 DEF IssueShape
<1> QED
  BY <1>1, <1>2, <1>3, <1>4, <1>5, <1>6, <1>7, <1>8, <1>9, <1>10,
     ShapeIssue, ShapeRaise, ShapeEnd DEF Next, Step, Advance, AllEnded

-----------------------------------------------------------------------------
(* The numbers issued for a key, as NumberRegister sees them. *)
Numbers(k) == {a.new : a \in {b \in audit : b.key = k /\ b.op = "GET_NEXT"}}

(* The commit of a create, or of a request for the next number, moves the  *)
(* counter of its key one up and issues that number.                       *)
LEMMA IssueRefines ==
  ASSUME IInv, IssueShape, NEW r \in Issuing, Commit(r), NEW k0 \in Keys, k0 = key[r]
  PROVE  Register!Issue(k0)
<1> DEFINE c == Counter(k0)
<1>1. r \in Requests /\ k0 \in Keys /\ TypeOK /\ r # Nobody /\ c \in Int
  BY ConstantsAssumption, CounterInt DEF Issuing, IInv, TypeOK
<1>2. /\ \A k \in Keys : holder[k] = r <=> k = k0
      /\ work[k0] = c + 1 /\ pending[r] = {Issued(k0, r)}
  BY <1>1 DEF Commit, IssueShape, OneRow, Numbered
<1>3. rows' = [k \in Keys |-> IF k = k0 THEN c + 1 ELSE rows[k]]
  BY <1>1, <1>2 DEF Commit
<1>4. audit' = audit \cup {Issued(k0, r)}
  BY <1>2 DEF Commit
<1>5. rows' = [rows EXCEPT ![k0] = c + 1]
  <2> HIDE DEF c
  <2> QED BY <1>1, <1>3 DEF TypeOK
<1>6. \A k \in Keys : Numbers(k)' = IF k = k0 THEN Numbers(k) \cup {c + 1} ELSE Numbers(k)
  <2>1. /\ Issued(k0, r).key = k0 /\ Issued(k0, r).op = "GET_NEXT"
        /\ Issued(k0, r).new = c + 1
    BY DEF Issued
  <2> HIDE DEF c
  <2> QED BY <1>4, <2>1 DEF Numbers
<1>7. [k \in Keys |-> Numbers(k)]' = [[k \in Keys |-> Numbers(k)] EXCEPT ![k0] = @ \cup {c + 1}]
  <2> HIDE DEF c
  <2> QED BY <1>1, <1>6
<1>8. Register!Following(k0) = c + 1
  BY DEF Register!Following, Counter
<1> QED BY <1>5, <1>7, <1>8 DEF Register!Issue, Numbers

(* The commit of a repair or a verify moves counters forward and issues    *)
(* nothing.                                                                *)
LEMMA SyncRefines ==
  ASSUME IInv, IssueShape, NEW r \in Requests \ Issuing, Commit(r)
  PROVE  Register!SkipAhead
<1>1. TypeOK /\ r # Nobody
  BY ConstantsAssumption DEF IInv
<1>2. ASSUME NEW k \in Keys, rows[k] # NoRow PROVE rows'[k] # NoRow /\ rows'[k] >= rows[k]
  <2>1. rows[k] \in Int
    BY <1>1, <1>2 DEF TypeOK
  <2>2. CASE holder[k] = r
    <3>1. rows'[k] = work[k] /\ work[k] \in Int /\ rows[k] <= work[k]
      BY <1>1, <1>2, <2>2 DEF Commit, TypeOK, IInv, LockDiscipline, HeldRows
    <3> QED BY <2>1, <3>1, ConstantsAssumption
  <2>3. CASE holder[k] # r
    BY <1>2, <2>1, <2>3 DEF Commit
  <2> QED BY <2>2, <2>3
<1>3. rows' \in [Keys -> Int \cup {NoRow}]
  BY <1>1 DEF Commit, TypeOK
<1>4. \A a \in pending[r] : a.op = "MANUAL_SYNC"
  BY DEF IssueShape, Syncing
<1>5. \A k \in Keys : Numbers(k)' = Numbers(k)
  BY <1>4 DEF Numbers, Commit
<1>6. [k \in Keys |-> Numbers(k)]' = [k \in Keys |-> Numbers(k)]
  BY <1>5
<1> QED BY <1>2, <1>3, <1>6 DEF Register!SkipAhead, Numbers

(* An initial state of the service is one of the register. *)
LEMMA RegisterInit == Init => Register!Init
<1> SUFFICES ASSUME Init PROVE Register!Init
  OBVIOUS
<1>1. rows \in [Keys -> InitialCounters \cup {NoRow}]
  BY DEF Init
<1>2. \A k \in Keys : Numbers(k) = {}
  BY DEF Init, Numbers
<1> QED BY <1>1, <1>2 DEF Register!Init, Numbers

(* A step of the service is a step of the register, or a stutter. *)
LEMMA RegisterNext ==
  ASSUME IInv, IssueShape, [Next]_vars
  PROVE  [Register!Next]_<<rows, [k \in Keys |-> Numbers(k)]>>
<1>1. ASSUME UNCHANGED <<rows, audit>> PROVE UNCHANGED <<rows, [k \in Keys |-> Numbers(k)]>>
  BY <1>1 DEF Numbers
<1>2. ASSUME NEW r \in Requests, Commit(r) PROVE Register!Next
  <2>1. CASE r \in Issuing
    <3>1. PICK k \in Keys : k = key[r]
      BY DEF IInv, TypeOK
    <3>2. Register!Issue(k)
      BY <1>2, <2>1, <3>1, IssueRefines
    <3> QED BY <3>2 DEF Register!Next
  <2>2. CASE r \notin Issuing
    BY <1>2, <2>2, SyncRefines DEF Register!Next
  <2> QED BY <2>1, <2>2
<1>3. ASSUME NEW r \in Requests, Step(r), ~ Commit(r) PROVE UNCHANGED <<rows, audit>>
  BY <1>3 DEF Step, Advance, Abort, BeginIssue, BeginRepair, BeginVerify, DeleteDocument,
     ReadCounter, ScanDocuments, SelectForUpdate, InsertRow, IssueNumber, Raise,
     InsertDocument, db
<1> QED BY <1>1, <1>2, <1>3 DEF Next, AllEnded, vars, db

(* The numbering service, with its row locks, missing rows, stale reads    *)
(* and rollbacks, implements the atomic register NumberRegister.           *)
THEOREM ServiceIsRegister == Spec => RegisterSpec
<1>1. Spec => [](IInv /\ IssueShape)
  BY IInit, INext, ShapeInit, ShapeNext, PTL DEF Spec
<1>2. IInv /\ IssueShape /\ [Next]_vars =>
        [Register!Next]_<<rows, [k \in Keys |-> Numbers(k)]>>
  BY RegisterNext
<1> QED BY <1>1, <1>2, RegisterInit, PTL
        DEF Spec, RegisterSpec, Register!Spec, Numbers
-----------------------------------------------------------------------------
(* Only a create puts a number on a document. *)
CreatesNumber == \A r \in Requests : pc[r] = "document" => kind[r] = "create"

(* Every step keeps it: kinds never change. *)
LEMMA CreatesNumberNext == IInv /\ CreatesNumber /\ [Next]_vars => CreatesNumber'
<1> SUFFICES ASSUME IInv, CreatesNumber, [Next]_vars PROVE CreatesNumber'
  OBVIOUS
<1>1. TypeOK
  BY DEF IInv
<1>2. CASE UNCHANGED vars
  BY <1>2 DEF vars, locals, CreatesNumber
<1>3. ASSUME NEW r \in Requests, IssueNumber(r) PROVE CreatesNumber'
  BY <1>1, <1>3 DEF IssueNumber, Goto, CreatesNumber, TypeOK
<1>4. ASSUME NEW r \in Requests, Step(r), ~ IssueNumber(r) PROVE CreatesNumber'
  <2>1. kind' = kind /\ \E step : step # "document" /\ pc' = [pc EXCEPT ![r] = step]
    BY <1>1, <1>4 DEF Step, Advance, Abort, BeginIssue, BeginRepair, BeginVerify, DeleteDocument,
       ReadCounter, ScanDocuments, NextVerify, SelectForUpdate, InsertRow, Raise, InsertDocument,
       Commit, Goto
  <2> QED BY <1>1, <2>1 DEF CreatesNumber, TypeOK
<1> QED BY <1>2, <1>3, <1>4 DEF Next, AllEnded

(* While a sequence covers its documents, no create can meet the number of *)
(* another document, for any requests and any numbers imported.            *)
THEOREM CollisionsNeedDrift == Spec => []CollisionOnlyOutOfSync
<1>1. IInv /\ IssueShape /\ CreatesNumber => CollisionOnlyOutOfSync
  <2> SUFFICES ASSUME IInv, IssueShape, CreatesNumber, NEW r \in Requests,
                      pc[r] = "document", InSync(key[r])
               PROVE  num[r] \notin docs[key[r]]
    BY DEF CollisionOnlyOutOfSync
  <2>1. kind[r] = "create" /\ r \in Issuing
    BY DEF CreatesNumber, Issuing
  <2>2. key[r] \in Keys /\ Counter(key[r]) \in Int
    BY CounterInt DEF IInv, TypeOK
  <2>3. num[r] = Counter(key[r]) + 1
    BY <2>1 DEF IInv, LockDiscipline, NumberUnderLock, IssueShape, Numbered
  <2> QED BY <2>2, <2>3 DEF InSync
<1>2. Init => CreatesNumber
  BY DEF Init, CreatesNumber
<1> QED BY IInit, INext, ShapeInit, ShapeNext, <1>1, <1>2, CreatesNumberNext, PTL DEF Spec

-----------------------------------------------------------------------------
(* The records of a sequence a request has not committed. *)
Mine(r, k) == {a \in pending[r] : a.key = k}

(* A held counter has not moved, or a record its holder has yet to commit  *)
(* tells where it stands.                                                  *)
WorkExplained ==
  \A k \in Keys : holder[k] # Nobody =>
    /\ Mine(holder[k], k) = {} => work[k] = Counter(k)
    /\ Mine(holder[k], k) # {} => \E a \in Mine(holder[k], k) : work[k] \in {a.old, a.new}

(* Nobody but its holder has records of a sequence. *)
LEMMA MineHeld ==
  ASSUME IInv, NEW r \in Requests, NEW k, Mine(r, k) # {}
  PROVE  holder[k] = r
BY DEF Mine, IInv, LockDiscipline, PendingInside

(* A request that takes a row has nothing to explain yet. *)
LEMMA TakeExplained ==
  ASSUME IInv, WorkExplained, NEW r \in Requests, Free(key[r]),
         holder' = [holder EXCEPT ![key[r]] = r],
         work' = [work EXCEPT ![key[r]] = Counter(key[r])],
         UNCHANGED <<rows, pending>>
  PROVE  WorkExplained'
<1>1. TypeOK /\ r # Nobody /\ Mine(r, key[r]) = {}
  BY MineHeld, ConstantsAssumption DEF IInv, Free
<1>2. \A q, k : Mine(q, k)' = Mine(q, k) /\ Counter(k)' = Counter(k)
  BY DEF Mine, Counter
<1> SUFFICES ASSUME NEW k \in Keys, holder'[k] # Nobody
             PROVE  /\ Mine(holder'[k], k) = {} => work'[k] = Counter(k)
                    /\ Mine(holder'[k], k) # {} =>
                         \E a \in Mine(holder'[k], k) : work'[k] \in {a.old, a.new}
  BY <1>2 DEF WorkExplained, Mine, Counter
<1>3. CASE k = key[r]
  BY <1>1, <1>3 DEF TypeOK
<1>4. CASE k # key[r]
  <2>1. holder'[k] = holder[k] /\ work'[k] = work[k]
    BY <1>1, <1>4 DEF TypeOK
  <2> QED BY <2>1 DEF WorkExplained
<1> QED BY <1>3, <1>4

(* A request that moves a counter logs from where and where to. *)
LEMMA LogExplained ==
  ASSUME IInv, WorkExplained, NEW r \in Requests, NEW op, NEW new, NEW n \in {work[key[r]], new},
         pc[r] = "locked", work' = [work EXCEPT ![key[r]] = n], Log(r, op, new),
         UNCHANGED <<rows, holder>>
  PROVE  WorkExplained'
<1> DEFINE c == [key |-> key[r], op |-> op, old |-> work[key[r]], new |-> new, by |-> r]
<1>1. TypeOK /\ holder[key[r]] = r /\ key[r] \in Keys
  BY DEF IInv, LockDiscipline, UpdateUnderLock, TypeOK
<1>2. pending' = [pending EXCEPT ![r] = pending[r] \cup {c}]
  BY DEF Log
<1>3. c.key = key[r] /\ c.old = work[key[r]] /\ c.new = new
  OBVIOUS
<1> HIDE DEF c
<1> SUFFICES ASSUME NEW k \in Keys, holder[k] # Nobody
             PROVE  /\ Mine(holder[k], k)' = {} => work'[k] = Counter(k)
                    /\ Mine(holder[k], k)' # {} =>
                         \E a \in Mine(holder[k], k)' : work'[k] \in {a.old, a.new}
  BY DEF WorkExplained, Mine, Counter
<1>4. CASE k = key[r]
  <2>1. c \in Mine(holder[k], k)'
    BY <1>1, <1>2, <1>3, <1>4 DEF Mine, TypeOK
  <2>2. work'[k] = n /\ n \in {c.old, c.new}
    BY <1>1, <1>3, <1>4 DEF TypeOK
  <2> QED BY <2>1, <2>2
<1>5. CASE k # key[r]
  <2>1. Mine(holder[k], k)' = Mine(holder[k], k)
    BY <1>1, <1>2, <1>3, <1>5 DEF Mine, TypeOK
  <2>2. work'[k] = work[k]
    BY <1>1, <1>5 DEF TypeOK
  <2> QED BY <2>1, <2>2 DEF WorkExplained
<1> QED BY <1>4, <1>5

(* A request that ends leaves the rows of others as they were. *)
LEMMA EndExplained ==
  ASSUME IInv, WorkExplained, NEW r \in Requests, Commit(r) \/ Abort(r)
  PROVE  WorkExplained'
<1>1. TypeOK /\ r # Nobody
  BY ConstantsAssumption DEF IInv
<1> SUFFICES ASSUME NEW k \in Keys, NEW h, h = holder'[k], h # Nobody
             PROVE  /\ Mine(h, k)' = {} => work'[k] = Counter(k)'
                    /\ Mine(h, k)' # {} => \E a \in Mine(h, k)' : work'[k] \in {a.old, a.new}
  BY DEF WorkExplained, Mine
<1>2. h = holder[k] /\ h # r /\ h \in Requests
  BY <1>1 DEF Commit, Abort, Release, TypeOK
<1>3. rows'[k] = rows[k] /\ work'[k] = work[k] /\ pending'[h] = pending[h]
  BY <1>1, <1>2 DEF Commit, Abort, TypeOK, db
<1>4. Mine(h, k)' = Mine(h, k) /\ Counter(k)' = Counter(k)
  BY <1>3 DEF Mine, Counter
<1> QED BY <1>2, <1>3, <1>4 DEF WorkExplained

(* Every step keeps held counters explained. *)
LEMMA WorkNext == IInv /\ WorkExplained /\ [Next]_vars => WorkExplained'
<1> SUFFICES ASSUME IInv, WorkExplained, [Next]_vars PROVE WorkExplained'
  OBVIOUS
<1>1. TypeOK
  BY DEF IInv
<1>2. CASE UNCHANGED <<rows, holder, work, pending>>
  <2>1. \A q, k : Mine(q, k)' = Mine(q, k) /\ Counter(k)' = Counter(k)
    BY <1>2 DEF Mine, Counter
  <2> QED BY <1>2, <2>1 DEF WorkExplained
<1>3. ASSUME NEW r \in Requests, SelectForUpdate(r) PROVE WorkExplained'
  <2>1. CASE rows[key[r]] = NoRow
    <3>1. UNCHANGED <<rows, holder, work, pending>>
      BY <1>3, <2>1 DEF SelectForUpdate, db, locks
    <3> QED BY <1>2, <3>1
  <2>2. CASE rows[key[r]] # NoRow
    BY <1>3, <2>2, TakeExplained DEF SelectForUpdate, Counter, db
  <2> QED BY <2>1, <2>2
<1>4. ASSUME NEW r \in Requests, InsertRow(r) PROVE WorkExplained'
  BY <1>4, TakeExplained DEF InsertRow, Counter, db
<1>5. ASSUME NEW r \in Requests, IssueNumber(r) PROVE WorkExplained'
  BY <1>5, LogExplained DEF IssueNumber, db
<1>6. ASSUME NEW r \in Requests, Raise(r) PROVE WorkExplained'
  <2> DEFINE n == IF rows[key[r]] = NoRow THEN num[r] ELSE Raised(work[key[r]], num[r])
  <2>1. work' = [work EXCEPT ![key[r]] = n] /\ n \in {work[key[r]], num[r]}
    BY <1>6 DEF Raise, Raised
  <2> HIDE DEF n
  <2> QED BY <1>6, <2>1, LogExplained DEF Raise, db
<1>7. ASSUME NEW r \in Requests, Commit(r) \/ Abort(r) PROVE WorkExplained'
  BY <1>7, EndExplained
<1>8. ASSUME NEW r \in Requests,
             \/ BeginIssue(r) \/ BeginRepair(r) \/ BeginVerify(r) \/ DeleteDocument(r)
             \/ ReadCounter(r) \/ ScanDocuments(r) \/ InsertDocument(r)
      PROVE  WorkExplained'
  BY <1>2, <1>8 DEF BeginIssue, BeginRepair, BeginVerify, DeleteDocument, ReadCounter,
     ScanDocuments, InsertDocument, db, locks
<1>9. CASE UNCHANGED vars
  BY <1>2, <1>9 DEF vars, db, locks, locals
<1> QED BY <1>3, <1>4, <1>5, <1>6, <1>7, <1>8, <1>9 DEF Next, Step, Advance, AllEnded

(* A commit takes the records that explain a counter along with it. *)
LEMMA CommitExplains ==
  ASSUME IInv, WorkExplained, AuditExplainsCounter, NEW r \in Requests, Commit(r),
         NEW k \in Keys, NEW b \in audit', b.key = k
  PROVE  \E a \in audit' : a.key = k /\ rows'[k] \in {a.old, a.new}
<1>1. TypeOK /\ audit' = audit \cup pending[r]
  BY DEF IInv, Commit
<1>2. CASE Mine(r, k) # {}
  <2>1. holder[k] = r /\ r # Nobody
    BY <1>2, MineHeld, ConstantsAssumption
  <2>2. PICK a \in Mine(r, k) : work[k] \in {a.old, a.new}
    BY <1>2, <2>1 DEF WorkExplained
  <2>3. rows'[k] = work[k]
    BY <2>1 DEF Commit
  <2> QED BY <1>1, <2>2, <2>3 DEF Mine
<1>3. CASE Mine(r, k) = {}
  <2>1. b \in audit /\ rows[k] # NoRow
    BY <1>1, <1>3 DEF Mine, IInv, LockDiscipline, TrailBelow
  <2>2. rows'[k] = rows[k]
    <3>1. CASE holder[k] = r
      BY <1>3, <2>1, <3>1, ConstantsAssumption DEF Commit, WorkExplained, Counter
    <3>2. CASE holder[k] # r
      BY <3>2 DEF Commit
    <3> QED BY <3>1, <3>2
  <2> QED BY <1>1, <2>1, <2>2 DEF AuditExplainsCounter
<1> QED BY <1>2, <1>3

(* The trail goes on explaining the counters: only commits touch either.   *)
LEMMA TrailNext ==
  IInv /\ WorkExplained /\ AuditExplainsCounter /\ [Next]_vars => AuditExplainsCounter'
<1> SUFFICES ASSUME IInv, WorkExplained, AuditExplainsCounter, [Next]_vars
             PROVE  AuditExplainsCounter'
  OBVIOUS
<1>1. CASE UNCHANGED <<rows, audit>>
  BY <1>1 DEF AuditExplainsCounter
<1>2. ASSUME NEW r \in Requests, Commit(r) PROVE AuditExplainsCounter'
  <2>1. TrailBelow'
    BY INext DEF IInv, LockDiscipline
  <2> SUFFICES ASSUME NEW k \in Keys, NEW b \in audit', b.key = k
               PROVE  /\ rows'[k] # NoRow
                      /\ \A a \in audit' : a.key = k =>
                           a.new <= rows'[k] /\ (a.old <= rows'[k] \/ Creates(a))
                      /\ \E a \in audit' : a.key = k /\ rows'[k] \in {a.old, a.new}
    BY DEF AuditExplainsCounter
  <2> QED BY <1>2, <2>1, CommitExplains DEF TrailBelow
<1>3. ASSUME NEW r \in Requests, Step(r), ~ Commit(r) PROVE UNCHANGED <<rows, audit>>
  BY <1>3 DEF Step, Advance, Abort, BeginIssue, BeginRepair, BeginVerify, DeleteDocument,
     ReadCounter, ScanDocuments, SelectForUpdate, InsertRow, IssueNumber, Raise,
     InsertDocument, db
<1> QED BY <1>1, <1>2, <1>3 DEF Next, AllEnded, vars, db

(* Whatever mixture of issues, repairs, failed inserts and rollbacks led   *)
(* to it, a counter is the largest number its committed trail mentions,    *)
(* but for the 0 a repair of a missing row records; for any integers an    *)
(* operator may give a repair, the negative ones included.                 *)
THEOREM TrailExplains == Spec => []AuditExplainsCounter
<1>1. Init => WorkExplained /\ AuditExplainsCounter
  BY DEF Init, WorkExplained, AuditExplainsCounter
<1> QED BY IInit, INext, WorkNext, TrailNext, <1>1, PTL DEF Spec

-----------------------------------------------------------------------------
(* What a verification has established: a key it has passed is in sync, or *)
(* will be when it commits; the counter it compares is at most the key's,  *)
(* or the 0 of a row that was missing and may since have been created      *)
(* below it; and no document is above both the maximum it has found and the counter. *)
Covers(r, k) ==
  InSync(k) \/ (holder[k] = r /\ \A n \in docs[k] : n <= work[k])

AtKey(r)    == pc[r] \in {"read", "scan", "lock", "insert", "locked"} =>
                 key[r] = VerifyOrder[at[r]]
Compared(r) == pc[r] = "scan" =>
                 num[r] = 0 \/ (rows[key[r]] # NoRow /\ num[r] <= Counter(key[r]))
Found(r)    == pc[r] \in {"lock", "insert", "locked"} =>
                 \A n \in docs[key[r]] : n <= num[r] \/ n <= Counter(key[r])
Passed(r)   == pc[r] \notin Ended => \A i \in 1 .. Len(VerifyOrder) :
                 i < at[r] \/ pc[r] = "ready" => Covers(r, VerifyOrder[i])
Begun(r)    == pc[r] = "new" => at[r] = 1

VerifyShape ==
  \A r \in Requests : kind[r] = "verify" =>
    AtKey(r) /\ Compared(r) /\ Found(r) /\ Passed(r) /\ Begun(r)

(* At first nothing has been verified. *)
LEMMA VerifyInit == Init => VerifyShape
<1> SUFFICES ASSUME Init, NEW r \in Requests
             PROVE  AtKey(r) /\ Compared(r) /\ Found(r) /\ Passed(r) /\ Begun(r)
  BY DEF VerifyShape
<1>1. pc[r] = "new" /\ at[r] = 1
  BY DEF Init
<1> QED BY <1>1, VerifyOrderKeys DEF AtKey, Compared, Found, Passed, Begun

(* A row that is held keeps its holder, its counter is not lowered (but    *)
(* for a new row's, from 0) and its documents only disappear, until the    *)
(* holder ends.                                                            *)
LEMMA HeldStep ==
  ASSUME IInv, [Next]_vars, NEW r \in Requests, NEW k \in Keys, holder[k] = r, pc'[r] \notin Ended
  PROVE  /\ holder'[k] = r /\ work'[k] \in Int /\ docs'[k] \subseteq docs[k]
         /\ work[k] <= work'[k] \/ (work[k] = 0 /\ rows[k] = NoRow)
<1>1. TypeOK /\ r # Nobody /\ work[k] \in Int
  BY ConstantsAssumption DEF IInv, TypeOK
<1>2. docs'[k] \subseteq docs[k]
  <2> SUFFICES ASSUME NEW q \in Requests, holder[k] = q, Commit(q) PROVE FALSE
    BY CounterStep
  <2> QED BY <1>1 DEF Commit, Goto, TypeOK, Ended
<1>3. CASE UNCHANGED <<holder, work>>
  BY <1>1, <1>2, <1>3
<1>4. ASSUME NEW q \in Requests, SelectForUpdate(q) \/ InsertRow(q), ~ UNCHANGED <<holder, work>>
      PROVE  holder'[k] = r /\ work'[k] = work[k]
  BY <1>1, <1>4 DEF SelectForUpdate, InsertRow, Free, TypeOK, locks
<1>5. ASSUME NEW q \in Requests, IssueNumber(q)
      PROVE  holder'[k] = r /\ work'[k] \in Int /\ work[k] <= work'[k]
  BY <1>1, <1>5 DEF IssueNumber, TypeOK
<1>6. ASSUME NEW q \in Requests, Raise(q)
      PROVE  /\ holder'[k] = r /\ work'[k] \in Int
             /\ work[k] <= work'[k] \/ (work[k] = 0 /\ rows[k] = NoRow)
  BY <1>1, <1>6 DEF Raise, Raised, TypeOK, IInv, NewRow
<1>7. ASSUME NEW q \in Requests, Commit(q) \/ Abort(q)
      PROVE  holder'[k] = r /\ work'[k] = work[k]
  <2>1. q # r
    BY <1>1, <1>7 DEF Commit, Abort, Goto, TypeOK, Ended
  <2> QED BY <1>7, <2>1 DEF Commit, Abort, Release
<1>8. ASSUME NEW q \in Requests,
             \/ BeginIssue(q) \/ BeginRepair(q) \/ BeginVerify(q) \/ DeleteDocument(q)
             \/ ReadCounter(q) \/ ScanDocuments(q) \/ InsertDocument(q)
      PROVE  UNCHANGED <<holder, work>>
  BY <1>8 DEF BeginIssue, BeginRepair, BeginVerify, DeleteDocument, ReadCounter,
     ScanDocuments, InsertDocument, locks
<1>9. CASE UNCHANGED vars
  BY <1>3, <1>9 DEF vars, locks
<1> QED BY <1>1, <1>2, <1>3, <1>4, <1>5, <1>6, <1>7, <1>8, <1>9 DEF Next, Step, Advance, AllEnded

(* What a verification has covered stays covered until it ends ...         *)
LEMMA CoversStep ==
  ASSUME IInv, LowDocs, [Next]_vars, NEW r \in Requests, NEW k \in Keys, Covers(r, k), pc'[r] \notin Ended
  PROVE  Covers(r, k)'
<1>1. CASE InSync(k)
  BY <1>1, SyncStep DEF Covers
<1>2. CASE holder[k] = r /\ \A n \in docs[k] : n <= work[k]
  <2>1. /\ holder'[k] = r /\ work'[k] \in Int /\ docs'[k] \subseteq docs[k]
        /\ work[k] <= work'[k] \/ (work[k] = 0 /\ rows[k] = NoRow)
    BY <1>2, HeldStep
  <2>2. docs[k] \subseteq Int /\ work[k] \in Int
    BY DEF IInv, TypeOK
  <2>3. work[k] = 0 /\ rows[k] = NoRow => docs[k] = {}
    BY <1>2 DEF LowDocs
  <2> QED BY <1>2, <2>1, <2>2, <2>3 DEF Covers
<1> QED BY <1>1, <1>2 DEF Covers

(* ... and is in sync when it has committed. *)
LEMMA CoversCommit ==
  ASSUME IInv, LowDocs, [Next]_vars, NEW r \in Requests, Commit(r), NEW k \in Keys, Covers(r, k)
  PROVE  InSync(k)'
<1>1. CASE InSync(k)
  BY <1>1, SyncStep
<1>2. CASE holder[k] = r /\ \A n \in docs[k] : n <= work[k]
  <2>1. Counter(k)' = work[k]
    BY <1>2, ConstantsAssumption DEF Commit, Counter, IInv, TypeOK
  <2>2. \A n \in docs'[k] : n \in docs[k] \/ n = Counter(k)'
    BY CounterStep
  <2>3. work[k] \in Int
    BY DEF IInv, TypeOK
  <2> QED BY <1>2, <2>1, <2>2, <2>3 DEF InSync
<1> QED BY <1>1, <1>2 DEF Covers

(* A step that leaves a verification where it is. *)
LEMMA VerifyRests ==
  ASSUME IInv, LowDocs, [Next]_vars, NEW r \in Requests, UNCHANGED <<pc[r], key[r], num[r], at[r]>>,
         AtKey(r), Compared(r), Found(r), Passed(r), Begun(r)
  PROVE  AtKey(r)' /\ Compared(r)' /\ Found(r)' /\ Passed(r)' /\ Begun(r)'
<1>1. key[r] \in Keys /\ num[r] \in Int /\ docs[key[r]] \subseteq Int
  BY DEF IInv, TypeOK
<1>2. AtKey(r)' /\ Begun(r)'
  BY DEF AtKey, Begun
<1>3. Compared(r)'
  <2> DEFINE k == key[r]
  <2>1. k \in Keys /\ k' = k
    BY <1>1
  <2>2. /\ Counter(k) \in Int /\ Counter(k)' \in Int
        /\ rows[k] # NoRow => rows'[k] # NoRow /\ Counter(k) <= Counter(k)'
    BY <2>1, CounterStep DEF Counter
  <2> QED BY <1>1, <2>1, <2>2 DEF Compared, Counter
<1>4. Found(r)'
  <2> DEFINE k == key[r]
  <2>1. k \in Keys /\ k' = k
    BY <1>1
  <2> SUFFICES ASSUME pc[r] \in {"lock", "insert", "locked"}, NEW n \in docs'[k]
               PROVE  n <= num[r] \/ n <= Counter(k)'
    BY <2>1 DEF Found, Counter
  <2>2. CASE n \in docs[k]
    BY <2>1, <2>2, StaysBelow DEF Found
  <2>3. CASE n \notin docs[k]
    BY <2>1, <2>3, CounterStep
  <2> QED BY <2>2, <2>3
<1>5. Passed(r)'
  BY CoversStep, VerifyOrderKeys DEF Passed
<1> QED BY <1>2, <1>3, <1>4, <1>5

(* A verification that is done with a key goes on to the next, or is ready. *)
LEMMA VerifyMoves ==
  ASSUME IInv, LowDocs, [Next]_vars, NEW r \in Requests, NextVerify(r), pc[r] \in {"scan", "locked"},
         AtKey(r), Passed(r), NEW k \in Keys, k = key[r], Covers(r, k)'
  PROVE  AtKey(r)' /\ Compared(r)' /\ Found(r)' /\ Passed(r)' /\ Begun(r)'
<1>1. /\ TypeOK /\ pc[r] \notin Ended /\ k = VerifyOrder[at[r]] /\ Len(VerifyOrder) \in Nat
      /\ at[r] \in 1 .. Len(VerifyOrder) /\ pc'[r] \in {"read", "ready"}
  BY VerifyOrderKeys DEF IInv, TypeOK, Ended, AtKey, NextVerify, Goto
<1>2. \A i \in 1 .. Len(VerifyOrder) : i <= at[r] => Covers(r, VerifyOrder[i])'
  <2> SUFFICES ASSUME NEW i \in 1 .. Len(VerifyOrder), i < at[r]
               PROVE  Covers(r, VerifyOrder[i])'
    BY <1>1
  <2>1. Covers(r, VerifyOrder[i]) /\ VerifyOrder[i] \in Keys
    BY <1>1, VerifyOrderKeys DEF Passed
  <2> QED BY <1>1, <2>1, CoversStep DEF Ended
<1>3. CASE at[r] < Len(VerifyOrder)
  <2>1. at'[r] = at[r] + 1 /\ pc'[r] = "read" /\ key'[r] = VerifyOrder[at[r] + 1]
    BY <1>1, <1>3 DEF NextVerify, Goto, TypeOK
  <2>2. Passed(r)'
    BY <1>1, <1>2, <2>1 DEF Passed
  <2> QED BY <2>1, <2>2 DEF AtKey, Compared, Found, Begun
<1>4. CASE ~ at[r] < Len(VerifyOrder)
  <2>1. at'[r] = Len(VerifyOrder) /\ pc'[r] = "ready"
    BY <1>1, <1>4 DEF NextVerify, Goto, TypeOK
  <2>2. Passed(r)'
    BY <1>1, <1>2, <1>4, <2>1 DEF Passed
  <2> QED BY <2>1, <2>2 DEF AtKey, Compared, Found, Begun
<1> QED BY <1>3, <1>4

(* A verification's own steps. *)
LEMMA VerifySteps ==
  ASSUME IInv, LowDocs, CreatesNumber, [Next]_vars, NEW r \in Requests, kind[r] = "verify", Step(r),
         AtKey(r), Compared(r), Found(r), Passed(r), Begun(r)
  PROVE  AtKey(r)' /\ Compared(r)' /\ Found(r)' /\ Passed(r)' /\ Begun(r)'
<1> USE DEF Goto, db, locks
<1>1. TypeOK /\ key[r] \in Keys /\ num[r] \in Int /\ docs[key[r]] \subseteq Int
  BY DEF IInv, TypeOK
<1>2. ASSUME at'[r] = at[r], pc[r] \notin Ended \cup {"ready"}, pc'[r] \notin Ended \cup {"ready"}
      PROVE  Passed(r)'
  BY <1>2, CoversStep, VerifyOrderKeys DEF Passed
<1>3. CASE BeginVerify(r)
  <2>1. pc'[r] = "read" /\ key'[r] = VerifyOrder[1] /\ at'[r] = 1
    BY <1>1, <1>3 DEF BeginVerify, Begun, TypeOK
  <2> QED BY <2>1, VerifyOrderKeys DEF AtKey, Compared, Found, Passed, Begun
<1>4. CASE ReadCounter(r)
  <2>1. /\ pc[r] = "read" /\ pc'[r] = "scan" /\ num'[r] = Counter(key[r]) /\ key'[r] = key[r]
        /\ at'[r] = at[r] /\ rows' = rows
    BY <1>1, <1>4 DEF ReadCounter, TypeOK
  <2>2. Compared(r)'
    BY <1>1, <2>1, CounterInt DEF Compared, Counter, TypeOK
  <2> QED BY <1>2, <2>1, <2>2 DEF AtKey, Found, Begun, Ended
<1>5. CASE ScanDocuments(r)
  <2>1. PICK m \in IF docs[key[r]] = {} THEN {0} ELSE docs[key[r]] :
          /\ \A n \in docs[key[r]] : n <= m
          /\ IF Behind(r, m)
             THEN /\ num' = [num EXCEPT ![r] = m] /\ pc' = [pc EXCEPT ![r] = "lock"]
                  /\ UNCHANGED <<at, key>>
             ELSE NextVerify(r) /\ UNCHANGED num
    BY <1>5 DEF ScanDocuments
  <2>2. pc[r] = "scan" /\ UNCHANGED <<rows, docs>>
    BY <1>5 DEF ScanDocuments
  <2>3. CASE Behind(r, m)
    <3>1. /\ pc'[r] = "lock" /\ num'[r] = m /\ key'[r] = key[r] /\ at'[r] = at[r]
      BY <1>1, <2>1, <2>3 DEF TypeOK
    <3>2. Found(r)'
      BY <2>1, <2>2, <3>1 DEF Found
    <3> QED BY <1>2, <2>2, <3>1, <3>2 DEF AtKey, Compared, Begun, Ended
  <2>4. CASE ~ Behind(r, m)
    <3>1. PICK k \in Keys : k = key[r]
      BY <1>1
    <3>2. InSync(k)
      <4> SUFFICES ASSUME NEW n \in docs[k] PROVE n <= Counter(k)
        BY DEF InSync
      <4>1. n <= num[r] /\ n \in Int /\ m \in Int /\ Counter(k) \in Int
        BY <1>1, <2>1, <2>4, <3>1, CounterInt DEF Behind
      <4>2. CASE num[r] = 0
        BY <4>1, <4>2 DEF LowDocs, Counter
      <4>3. CASE num[r] # 0
        BY <1>1, <2>2, <3>1, <4>1, <4>3 DEF Compared
      <4> QED BY <4>2, <4>3
    <3>3. Covers(r, k)'
      BY <3>2, SyncStep DEF Covers
    <3> QED BY <2>1, <2>2, <2>4, <3>1, <3>3, VerifyMoves
  <2> QED BY <2>3, <2>4
<1>6. CASE SelectForUpdate(r) \/ InsertRow(r)
  <2>1. /\ pc[r] \in {"lock", "insert"} /\ pc'[r] \in {"insert", "locked"}
        /\ UNCHANGED <<rows, docs, key, num, at>>
    BY <1>1, <1>6 DEF SelectForUpdate, InsertRow, TypeOK
  <2>2. Found(r)'
    BY <2>1 DEF Found, Counter
  <2> QED BY <1>2, <2>1, <2>2 DEF AtKey, Compared, Begun, Ended
<1>7. CASE Raise(r)
  <2>1. PICK k \in Keys : k = key[r]
    BY <1>1
  <2>2. /\ pc[r] = "locked" /\ NextVerify(r) /\ UNCHANGED <<rows, docs, holder>>
        /\ work'[k] = IF rows[k] = NoRow THEN num[r] ELSE Raised(work[k], num[r])
    BY <1>1, <1>7, <2>1 DEF Raise, TypeOK
  <2>3. holder[k] = r /\ (rows[k] # NoRow => Counter(k) <= work[k] /\ Counter(k) \in Int)
          /\ work[k] \in Int
    BY <1>1, <2>1, <2>2, CounterInt, ConstantsAssumption
    DEF IInv, LockDiscipline, UpdateUnderLock, HeldRows, Counter, TypeOK
  <2>4. \A n \in docs[k] : n <= work'[k]
    <3> SUFFICES ASSUME NEW n \in docs[k] PROVE n <= work'[k]
      OBVIOUS
    <3>1. n \in Int /\ (n <= num[r] \/ n <= Counter(k))
      BY <1>1, <2>1, <2>2 DEF Found
    <3>2. rows[k] = NoRow => n <= num[r]
      BY <3>1 DEF LowDocs, Counter
    <3> QED BY <1>1, <2>2, <2>3, <3>1, <3>2 DEF Raised
  <2>5. Covers(r, k)'
    BY <2>2, <2>3, <2>4 DEF Covers
  <2> QED BY <2>1, <2>2, <2>5, VerifyMoves
<1>8. CASE Commit(r) \/ Abort(r)
  <2>1. pc'[r] \in Ended
    BY <1>1, <1>8 DEF Commit, Abort, TypeOK, Ended
  <2> QED BY <2>1 DEF AtKey, Compared, Found, Passed, Begun, Ended
<1>9. ~ BeginIssue(r) /\ ~ BeginRepair(r) /\ ~ DeleteDocument(r) /\ ~ IssueNumber(r)
        /\ ~ InsertDocument(r)
  BY DEF BeginIssue, BeginRepair, DeleteDocument, IssueNumber, InsertDocument, CreatesNumber
<1> QED BY <1>3, <1>4, <1>5, <1>6, <1>7, <1>8, <1>9 DEF Step, Advance

(* Every step keeps what verifications have established. *)
LEMMA VerifyNext ==
  IInv /\ LowDocs /\ CreatesNumber /\ VerifyShape /\ [Next]_vars => VerifyShape'
<1> SUFFICES ASSUME IInv, LowDocs, CreatesNumber, VerifyShape, [Next]_vars,
                    NEW r \in Requests, kind'[r] = "verify"
             PROVE  AtKey(r)' /\ Compared(r)' /\ Found(r)' /\ Passed(r)' /\ Begun(r)'
  BY DEF VerifyShape
<1>1. TypeOK
  BY DEF IInv
<1>2. ASSUME NEW q \in Requests, Step(q)
      PROVE  kind' = kind /\ (q # r => UNCHANGED <<pc[r], key[r], num[r], at[r]>>)
  BY <1>1, <1>2 DEF Step, Advance, Abort, BeginIssue, BeginRepair, BeginVerify, DeleteDocument,
     ReadCounter, ScanDocuments, NextVerify, SelectForUpdate, InsertRow, IssueNumber, Raise,
     InsertDocument, Commit, Goto, TypeOK
<1>3. UNCHANGED vars => kind' = kind /\ UNCHANGED <<pc[r], key[r], num[r], at[r]>>
  BY DEF vars, locals
<1>4. kind[r] = "verify"
  BY <1>2, <1>3 DEF Next, AllEnded
<1>5. AtKey(r) /\ Compared(r) /\ Found(r) /\ Passed(r) /\ Begun(r)
  BY <1>4 DEF VerifyShape
<1>6. CASE Step(r)
  BY <1>4, <1>5, <1>6, VerifySteps
<1>7. CASE UNCHANGED <<pc[r], key[r], num[r], at[r]>>
  BY <1>5, <1>7, VerifyRests
<1> QED BY <1>2, <1>3, <1>6, <1>7 DEF Next, AllEnded

(* A verification that answers leaves every key it visited in sync, though *)
(* it read counters and maxima without a lock, for any number of keys and  *)
(* any requests that go on meanwhile.                                      *)
THEOREM VerifySyncs == Spec => VerifyLeavesSync
<1>1. ASSUME IInv, LowDocs, CreatesNumber, VerifyShape, [Next]_vars, NEW r \in Requests,
             kind[r] = "verify", pc[r] # "done", pc'[r] = "done", NEW i \in 1 .. Len(VerifyOrder)
      PROVE  InSync(VerifyOrder[i])'
  <2>1. TypeOK
    BY <1>1 DEF IInv
  <2>2. Commit(r)
    BY <1>1, <2>1 DEF Next, AllEnded, Step, Advance, Abort, BeginIssue, BeginRepair, BeginVerify,
       DeleteDocument, ReadCounter, ScanDocuments, NextVerify, SelectForUpdate, InsertRow,
       IssueNumber, Raise, InsertDocument, Commit, Goto, TypeOK, vars, locals
  <2>3. pc[r] = "ready" /\ Covers(r, VerifyOrder[i]) /\ VerifyOrder[i] \in Keys
    BY <1>1, <2>2, VerifyOrderKeys DEF VerifyShape, Passed, Commit, Ended
  <2> QED BY <1>1, <2>2, <2>3, CoversCommit
<1>2. Init => CreatesNumber
  BY DEF Init, CreatesNumber
<1>3. IInv /\ LowDocs /\ CreatesNumber /\ VerifyShape /\ [Next]_vars =>
        [\A r \in Requests :
           kind[r] = "verify" /\ pc[r] # "done" /\ pc'[r] = "done" =>
             \A i \in 1 .. Len(VerifyOrder) : InSync(VerifyOrder[i])']_vars
  BY <1>1
<1> QED
  BY IInit, INext, LowInit, LowNext, <1>2, CreatesNumberNext, VerifyInit, VerifyNext, <1>3, PTL
  DEF Spec, VerifyLeavesSync
=============================================================================
