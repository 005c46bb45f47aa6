-------------------------- MODULE DocumentSequence --------------------------
(***************************************************************************)
(* Document numbers (PR, PO, GRN, SRN, SA, DEMO) of one tenant, as         *)
(* app/services/document_sequence_service.py hands them out to the         *)
(* endpoints that create documents.                                        *)
(*                                                                         *)
(* Every HTTP request is ONE PostgreSQL READ COMMITTED transaction: the    *)
(* tenant session is bound to a connection that is already in a            *)
(* transaction (app/database.py, get_tenant_session), so the db.commit()   *)
(* of an endpoint only flushes, and row locks, new rows and audit records  *)
(* become visible together when the request ends (Commit) or not at all    *)
(* (Abort: an exception, a constraint violation, a lost connection or a    *)
(* dead process).                                                          *)
(*                                                                         *)
(* A row of document_sequences is identified by its key, the pair          *)
(* (document_type, financial_year) of the unique constraint                *)
(* uq_document_type_fy.  is_active is TRUE in every row: nothing in the    *)
(* program ever clears it.                                                 *)
(***************************************************************************)
EXTENDS Integers, Sequences

CONSTANTS
  Requests,         \* identities of HTTP requests, each served once
  Keys,             \* (document_type, financial_year) pairs
  VerifyOrder,      \* the keys /sequences/verify visits, in order (PR, PO, GRN)
  InitialCounters,  \* values current_number may have when the service starts
  LegacyNumbers,    \* numbers imported documents may already carry
  RepairNumbers,    \* numbers an operator may pass to /sequences/repair
  Nobody,           \* no request holds the row
  NoRow             \* the row does not exist

ASSUME ConstantsAssumption ==
  /\ VerifyOrder \in Seq(Keys) /\ VerifyOrder # << >>
  /\ \A i, j \in 1 .. Len(VerifyOrder) : VerifyOrder[i] = VerifyOrder[j] => i = j
  /\ InitialCounters \subseteq Int
  /\ LegacyNumbers \subseteq Nat \ {0}
  /\ RepairNumbers \subseteq Int
  /\ Nobody \notin Requests
  /\ NoRow \notin Int

VARIABLES
  rows,     \* committed current_number of each key, or NoRow
  docs,     \* numbers carried by the committed documents of each key
  audit,    \* committed document_sequence_audit records
  holder,   \* request whose transaction has locked (or inserted) the row
  work,     \* current_number in the holder's uncommitted version of the row
  pc,       \* what each request does next
  kind,     \* which endpoint each request calls
  key,      \* the key each request works on
  at,       \* position in VerifyOrder of a verify request
  num,      \* counter read, maximum to sync to, or number issued
  pending   \* audit records each request has added but not committed

db     == <<rows, docs, audit>>
locks  == <<holder, work>>
locals == <<pc, kind, key, at, num, pending>>
vars   == <<db, locks, locals>>

Kinds == {"create", "peek", "verify", "repair", "delete"}
Ops   == {"GET_NEXT", "MANUAL_SYNC"}
Steps == {"new", "read", "scan", "lock", "insert", "locked", "document",
          "ready", "done", "failed"}
Ended == {"done", "failed"}

AuditRecords == [key : Keys, op : Ops, old : Int, new : Int, by : Requests]

(* Mutant: a missing row is not read as 0. *)
BugCounter(k) == rows[k]

(* current_number as a reader sees it: `current or 0`. *)
Counter(k) == IF rows[k] = NoRow THEN 0 ELSE rows[k]

Init ==
  /\ rows \in [Keys -> InitialCounters \cup {NoRow}]
  /\ docs \in [Keys -> SUBSET LegacyNumbers]
  /\ audit = {}
  /\ holder = [k \in Keys |-> Nobody]
  /\ work = [k \in Keys |-> 0]
  /\ pc = [r \in Requests |-> "new"]
  /\ kind \in [Requests -> Kinds]
  /\ key \in [Requests -> Keys]
  /\ at = [r \in Requests |-> 1]
  /\ num = [r \in Requests |-> 0]
  /\ pending = [r \in Requests |-> {}]

-----------------------------------------------------------------------------
Goto(r, step) == pc' = [pc EXCEPT ![r] = step]

(* A create request, or GET /grn/next-number and GET /sales-returns/       *)
(* next-number, which call get_next_number to show a number ("peek").      *)
BeginIssue(r) ==
  /\ pc[r] = "new" /\ kind[r] \in {"create", "peek"}
  /\ Goto(r, "lock")
  /\ UNCHANGED <<db, locks, kind, key, at, num, pending>>

(* POST /sequences/repair/{type}?max_number=n, any integer *)
BeginRepair(r) ==
  /\ pc[r] = "new" /\ kind[r] = "repair"
  /\ \E n \in RepairNumbers : num' = [num EXCEPT ![r] = n]
  /\ Goto(r, "lock")
  /\ UNCHANGED <<db, locks, kind, key, at, pending>>

(* GET /sequences/verify starts with the first key. *)
BeginVerify(r) ==
  /\ pc[r] = "new" /\ kind[r] = "verify"
  /\ key' = [key EXCEPT ![r] = VerifyOrder[1]]
  /\ Goto(r, "read")
  /\ UNCHANGED <<db, locks, kind, at, num, pending>>

(* Deleting a document frees its number in the document table only. *)
DeleteDocument(r) ==
  /\ pc[r] = "new" /\ kind[r] = "delete"
  /\ \E n \in docs[key[r]] : docs' = [docs EXCEPT ![key[r]] = @ \ {n}]
  /\ Goto(r, "done")
  /\ UNCHANGED <<rows, audit, locks, kind, key, at, num, pending>>

(* verify_and_repair_sequence reads the counter without a lock ... *)
ReadCounter(r) ==
  /\ pc[r] = "read"
  /\ num' = [num EXCEPT ![r] = Counter(key[r])]
  /\ Goto(r, "scan")
  /\ UNCHANGED <<db, locks, kind, key, at, pending>>

(* Mutant: off by one. *)
BugBehind(r, m) == num[r] + 1 < m

(* current < max_in_docs *)
Behind(r, m) == num[r] < m

NextVerify(r) ==
  IF at[r] < Len(VerifyOrder)
  THEN /\ at' = [at EXCEPT ![r] = @ + 1]
       /\ key' = [key EXCEPT ![r] = VerifyOrder[at[r] + 1]]
       /\ Goto(r, "read")
  ELSE UNCHANGED <<at, key>> /\ Goto(r, "ready")

(* ... then, in a later statement, the largest number in the documents,    *)
(* and syncs only if the counter it read is behind.                        *)
ScanDocuments(r) ==
  /\ pc[r] = "scan"
  /\ \E m \in IF docs[key[r]] = {} THEN {0} ELSE docs[key[r]] :
       /\ \A n \in docs[key[r]] : n <= m
       /\ IF Behind(r, m)
          THEN /\ num' = [num EXCEPT ![r] = m]
               /\ Goto(r, "lock")
               /\ UNCHANGED <<at, key>>
          ELSE NextVerify(r) /\ UNCHANGED num
  /\ UNCHANGED <<db, locks, kind, pending>>

(* Mutant: no row lock, no wait on the unique index. *)
BugFree(k) == TRUE

(* No other transaction has locked, changed or inserted the row. *)
Free(k) == holder[k] = Nobody

(* SELECT ... FOR UPDATE.  A row inserted by an uncommitted transaction is *)
(* invisible; a row locked by another one is waited for and read as its    *)
(* last committed version.                                                 *)
SelectForUpdate(r) ==
  LET k == key[r] IN
  /\ pc[r] = "lock"
  /\ \/ /\ rows[k] = NoRow
        /\ Goto(r, "insert")
        /\ UNCHANGED locks
     \/ /\ rows[k] # NoRow /\ Free(k)
        /\ holder' = [holder EXCEPT ![k] = r]
        /\ work' = [work EXCEPT ![k] = rows[k]]
        /\ Goto(r, "locked")
  /\ UNCHANGED <<db, kind, key, at, num, pending>>

(* INSERT of the missing row.  The unique index makes it wait for another  *)
(* transaction's uncommitted insert and fail once that one has committed.  *)
(* (A sync inserts its maximum: Raise sets it in the same transaction.)    *)
InsertRow(r) ==
  LET k == key[r] IN
  /\ pc[r] = "insert" /\ Free(k) /\ rows[k] = NoRow
  /\ holder' = [holder EXCEPT ![k] = r]
  /\ work' = [work EXCEPT ![k] = 0]
  /\ Goto(r, "locked")
  /\ UNCHANGED <<db, kind, key, at, num, pending>>

Log(r, op, new) ==
  pending' = [pending EXCEPT ![r] = @ \cup
    {[key |-> key[r], op |-> op, old |-> work[key[r]], new |-> new, by |-> r]}]

(* Mutant: the increment of the model object is never flushed. *)
BugIssueNumber(r) ==
  LET n == work[key[r]] + 1 IN
  /\ pc[r] = "locked" /\ kind[r] \in {"create", "peek"}
  /\ num' = [num EXCEPT ![r] = n]
  /\ Log(r, "GET_NEXT", n)
  /\ Goto(r, IF kind[r] = "create" THEN "document" ELSE "ready")
  /\ UNCHANGED <<db, locks, kind, key, at>>

(* Mutant: the number is formatted before the increment. *)
BugPostIncrement(r) ==
  LET n == work[key[r]] IN
  /\ pc[r] = "locked" /\ kind[r] \in {"create", "peek"}
  /\ work' = [work EXCEPT ![key[r]] = n + 1]
  /\ num' = [num EXCEPT ![r] = n]
  /\ Log(r, "GET_NEXT", n)
  /\ Goto(r, IF kind[r] = "create" THEN "document" ELSE "ready")
  /\ UNCHANGED <<db, holder, kind, key, at>>

(* get_next_number: increment, audit, flush; the lock is kept. *)
IssueNumber(r) ==
  LET n == work[key[r]] + 1 IN
  /\ pc[r] = "locked" /\ kind[r] \in {"create", "peek"}
  /\ work' = [work EXCEPT ![key[r]] = n]
  /\ num' = [num EXCEPT ![r] = n]
  /\ Log(r, "GET_NEXT", n)
  /\ Goto(r, IF kind[r] = "create" THEN "document" ELSE "ready")
  /\ UNCHANGED <<db, holder, kind, key, at>>

(* Mutant: the row is set to the maximum that was read. *)
BugRaised(current, max) == max

(* sync_sequence_from_max keeps the larger of the counter and the maximum. *)
Raised(current, max) == IF max > current THEN max ELSE current

(* The row is re-read under its lock before it is compared and audited; a  *)
(* row that did not exist takes the maximum as it is, even a negative one, *)
(* and 0 is recorded as its old number.                                    *)
Raise(r) ==
  LET k == key[r] IN
  /\ pc[r] = "locked" /\ kind[r] \in {"verify", "repair"}
  /\ work' = [work EXCEPT ![k] = IF rows[k] = NoRow THEN num[r] ELSE Raised(@, num[r])]
  /\ Log(r, "MANUAL_SYNC", num[r])
  /\ IF kind[r] = "verify" THEN NextVerify(r)
     ELSE Goto(r, "ready") /\ UNCHANGED <<at, key>>
  /\ UNCHANGED <<db, holder, kind, num>>

(* The endpoint inserts the document; its number column is unique. *)
InsertDocument(r) ==
  /\ pc[r] = "document" /\ num[r] \notin docs[key[r]]
  /\ Goto(r, "ready")
  /\ UNCHANGED <<db, locks, kind, key, at, num, pending>>

(* Mutant: row locks outlive their transaction. *)
BugRelease(r) == UNCHANGED holder

(* The end of a transaction drops its row locks. *)
Release(r) == holder' = [k \in Keys |-> IF holder[k] = r THEN Nobody ELSE holder[k]]

(* conn.commit() at the end of the request *)
Commit(r) ==
  /\ pc[r] = "ready"
  /\ rows' = [k \in Keys |-> IF holder[k] = r THEN work[k] ELSE rows[k]]
  /\ docs' = IF kind[r] = "create"
             THEN [docs EXCEPT ![key[r]] = @ \cup {num[r]}] ELSE docs
  /\ audit' = audit \cup pending[r]
  /\ pending' = [pending EXCEPT ![r] = {}]
  /\ Release(r)
  /\ Goto(r, "done")
  /\ UNCHANGED <<work, kind, key, at, num>>

(* conn.rollback(), or the end of a connection: nothing is kept. *)
Abort(r) ==
  /\ pc[r] \notin Ended
  /\ pending' = [pending EXCEPT ![r] = {}]
  /\ Release(r)
  /\ Goto(r, "failed")
  /\ UNCHANGED <<db, work, kind, key, at, num>>

(* The statements of one request that PostgreSQL lets through. *)
Advance(r) ==
  \/ BeginIssue(r) \/ BeginRepair(r) \/ BeginVerify(r) \/ DeleteDocument(r)
  \/ ReadCounter(r) \/ ScanDocuments(r) \/ SelectForUpdate(r) \/ InsertRow(r)
  \/ IssueNumber(r) \/ Raise(r) \/ InsertDocument(r) \/ Commit(r)

(* The constraint violations the code does not catch. *)
MustFail(r) ==
  \/ pc[r] = "insert" /\ rows[key[r]] # NoRow
  \/ pc[r] = "document" /\ num[r] \in docs[key[r]]
  \/ pc[r] = "new" /\ kind[r] = "delete" /\ docs[key[r]] = {}

Step(r) == Advance(r) \/ Abort(r)

AllEnded == (\A r \in Requests : pc[r] \in Ended) /\ UNCHANGED vars

Next == (\E r \in Requests : Step(r)) \/ AllEnded

Spec == Init /\ [][Next]_vars

(* The event loop runs every request whose statement PostgreSQL answers,   *)
(* and a request whose statement failed is rolled back.                    *)
Fairness == \A r \in Requests :
  /\ WF_vars(Advance(r))
  /\ WF_vars(MustFail(r) /\ Abort(r))

FairSpec == Spec /\ Fairness

-----------------------------------------------------------------------------
(* The state has the types the tables and the request handlers give it.    *)
TypeOK ==
  /\ rows \in [Keys -> Int \cup {NoRow}]
  /\ docs \in [Keys -> SUBSET Int]
  /\ audit \in SUBSET AuditRecords
  /\ holder \in [Keys -> Requests \cup {Nobody}]
  /\ work \in [Keys -> Int]
  /\ pc \in [Requests -> Steps]
  /\ kind \in [Requests -> Kinds]
  /\ key \in [Requests -> Keys]
  /\ at \in [Requests -> 1 .. Len(VerifyOrder)]
  /\ num \in [Requests -> Int]
  /\ pending \in [Requests -> SUBSET AuditRecords]

Logged == audit \cup UNION {pending[r] : r \in Requests}

Overlap(a, b) == a.key = b.key /\ a.old < b.new /\ b.old < a.new

(* The ranges (old, new] of the audit records of a key, those of requests  *)
(* still running included, never overlap: no two requests are ever given   *)
(* the same number, and no repair passes over a number being issued.  This *)
(* is what SELECT FOR UPDATE, and the unique key for the first request of  *)
(* a year, have to provide together.                                       *)
AuditPartition ==
  \A a, b \in Logged :
    a # b /\ a.old < a.new /\ b.old < b.new => ~ Overlap(a, b)

(* A repair that had to create the row: its old number is no counter.      *)
Creates(a) == a.op = "MANUAL_SYNC" /\ a.old = 0

(* What the row lock protects: a held row is never behind its committed    *)
(* version; the number of an unfinished document is the holder's; every    *)
(* uncommitted audit record lies between the committed counter and the     *)
(* holder's counter, and every committed one at or below the counter       *)
(* (but for the 0 a repair of a missing row records as its old number).    *)
HeldRows ==
  \A k \in Keys : holder[k] # Nobody =>
    /\ pc[holder[k]] \notin Ended \cup {"new"}
    /\ rows[k] # NoRow => rows[k] <= work[k]

UpdateUnderLock ==
  \A r \in Requests : pc[r] = "locked" => holder[key[r]] = r

NumberUnderLock ==
  \A r \in Requests : kind[r] = "create" /\ pc[r] \in {"document", "ready"} =>
    holder[key[r]] = r /\ num[r] = work[key[r]]

PendingInside ==
  \A r \in Requests : \A a \in pending[r] :
    /\ holder[a.key] = r
    /\ Counter(a.key) <= a.old /\ a.new <= work[a.key]
    /\ a.old <= work[a.key] \/ Creates(a)

TrailBelow ==
  \A a \in audit :
    /\ rows[a.key] # NoRow /\ a.new <= rows[a.key]
    /\ a.old <= rows[a.key] \/ Creates(a)

LockDiscipline ==
  HeldRows /\ UpdateUnderLock /\ NumberUnderLock /\ PendingInside /\ TrailBelow

(* The committed audit trail of a key accounts for its counter: the        *)
(* counter is the largest number the trail mentions, whatever mixture of   *)
(* issues, repairs, failed inserts and rollbacks led to it, but for the 0  *)
(* that a repair of a missing row records as old when it is given a        *)
(* negative number.                                                        *)
AuditExplainsCounter ==
  \A k \in Keys :
    LET trail == {a \in audit : a.key = k} IN
    trail # {} =>
      /\ rows[k] # NoRow
      /\ \A a \in trail : a.new <= rows[k] /\ (a.old <= rows[k] \/ Creates(a))
      /\ \E a \in trail : rows[k] \in {a.old, a.new}

(* The counter is at or past every number the key's documents carry. *)
InSync(k) == \A n \in docs[k] : n <= Counter(k)

(* While a key is in sync, the number a request is about to put on its     *)
(* document is free: the unique index can only reject a create when the    *)
(* sequence is behind imported documents.                                  *)
CollisionOnlyOutOfSync ==
  \A r \in Requests :
    pc[r] = "document" /\ InSync(key[r]) => num[r] \notin docs[key[r]]

(* No request, and no repair that decided on a counter it read before      *)
(* another request moved it, ever lowers a counter or loses its row.       *)
CounterMonotone ==
  [][\A k \in Keys : rows[k] # NoRow => rows'[k] # NoRow /\ rows'[k] >= rows[k]]_vars

(* A sequence that covers its documents goes on covering them. *)
InSyncStable == [][\A k \in Keys : InSync(k) => InSync(k)']_vars

(* When /sequences/verify answers, every key it visits is in sync, though  *)
(* it read each counter and each maximum without a lock while other        *)
(* requests went on issuing numbers.                                       *)
VerifyLeavesSync ==
  [][\A r \in Requests :
       kind[r] = "verify" /\ pc[r] # "done" /\ pc'[r] = "done" =>
         \A i \in 1 .. Len(VerifyOrder) : InSync(VerifyOrder[i])']_vars

(* Every request ends: no combination of row locks, waiting inserts and    *)
(* failures leaves a request waiting for ever, and locks die with their    *)
(* transaction.                                                            *)
RequestsEnd == \A r \in Requests : <>(pc[r] \in Ended)

(* The service implements the register: the committed counters and the     *)
(* numbers of committed GET_NEXT records behave as one atomic register.    *)
Register == INSTANCE NumberRegister WITH
  Unused  <- NoRow,
  counter <- rows,
  issued  <- [k \in Keys |->
               {a.new : a \in {b \in audit : b.key = k /\ b.op = "GET_NEXT"}}]

RegisterSpec == Register!Spec
=============================================================================
