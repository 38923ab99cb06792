--------------------------- MODULE ContentDatabase ---------------------------
(***************************************************************************)
(* database.ts statement by statement: several agent processes, each with   *)
(* one synchronous connection to the same SQLite file.  A store runs inside *)
(* BEGIN IMMEDIATE ... COMMIT; a load (and purgeExpired's trim) runs its    *)
(* statements one by one in autocommit mode, so the statements of other     *)
(* processes, or their death, come in between.                              *)
(*                                                                          *)
(* SQLite is external and modelled by the guarantees the code relies on:    *)
(* one writer at a time, a transaction visible to others only once it       *)
(* commits, a failed or dead transaction undone, and a statement that waits *)
(* too long for the lock failing (busy_timeout).                            *)
(***************************************************************************)
EXTENDS ResponseTable

CONSTANTS
    Procs, Scopes,
    Documents,      \* id -> number of documents of the response
    Ttl,            \* RESULT_TTL_MS
    MaxTime,        \* bound of the model
    NoProc

ASSUME DatabaseAssumption ==
    /\ Documents \in [Ids -> Nat]
    /\ Ttl \in Nat \ {0}
    /\ MaxTime \in Nat
    /\ NoProc \notin Procs

VARIABLES
    now,
    disk,      \* the committed database: rows, and how many documents each has
    writer,    \* the process inside BEGIN IMMEDIATE
    draft,     \* what it would commit, Empty when there is no writer
    call,      \* process -> the database call it is executing
    used       \* ids already given to a response

vars == <<now, disk, writer, draft, call, used>>

Steps == {"begin", "insert", "documents", "expire", "count", "evict", "size",
          "evictOne", "select", "touch", "commit"}

Idle == [job |-> "none"]

Calls == [job : {"store", "load"}, at : Steps, id : Ids, scope : Scopes,
          time : Nat, excess : Nat]

IsDatabase(db) ==
    /\ db = [rows |-> db.rows, docs |-> db.docs]
    /\ IsTable(db.rows, Scopes)
    /\ db.docs \in [DOMAIN db.rows -> Nat]
    /\ \A id \in DOMAIN db.rows : db.docs[id] <= Documents[id]

TypeOK ==
    /\ now \in 0..MaxTime
    /\ IsDatabase(disk) /\ IsDatabase(draft)
    /\ writer \in Procs \cup {NoProc}
    /\ call \in [Procs -> Calls \cup {Idle}]
    /\ used \subseteq Ids

Empty == [rows |-> [id \in {} |-> {}], docs |-> [id \in {} |-> {}]]

Init ==
    /\ now = 0
    /\ disk = Empty
    /\ writer = NoProc
    /\ draft = Empty
    /\ call = [p \in Procs |-> Idle]
    /\ used = {}

Tick ==
    /\ now < MaxTime
    /\ now' = now + 1
    /\ UNCHANGED <<disk, writer, draft, call, used>>

-----------------------------------------------------------------------------
(* Statements.                                                              *)

\* A process reads its own transaction, or else what is committed.
View(p) == IF writer = p THEN draft ELSE disk

At(p, step) == call[p] # Idle /\ call[p].at = step

Goto(p, step) == call' = [call EXCEPT ![p].at = step]

Return(p) == call' = [call EXCEPT ![p] = Idle]

\* A writing statement: into the transaction, or committed at once when the
\* process has none, for which no other process may hold the lock.
Write(p, db) ==
    /\ writer \in {p, NoProc}
    /\ IF writer = p
       THEN draft' = db /\ UNCHANGED disk
       ELSE disk' = db /\ UNCHANGED draft

\* A response comes without documents, which are added one by one.
InsertRow(db, id, row) ==
    [rows |-> Insert(db.rows, id, row),
     docs |-> [i \in DOMAIN db.rows \cup {id} |-> IF i = id THEN 0 ELSE db.docs[i]]]
AddDocument(db, id) ==
    [rows |-> db.rows, docs |-> [db.docs EXCEPT ![id] = @ + 1]]

TouchRows(db, S, time) == [rows |-> Touch(db.rows, S, time), docs |-> db.docs]

\* Deleting responses takes their documents along (ON DELETE CASCADE).
KeepResponsesOnly(db, S) == [rows |-> Keep(db.rows, S), docs |-> db.docs]
KeepRows(db, S) == [rows |-> Keep(db.rows, S), docs |-> [id \in S |-> db.docs[id]]]

-----------------------------------------------------------------------------
(* persistStoredContent.                                                    *)

\* createStoredDocuments and the payload check; created_at is read here.
StartStore(p, id, scope) ==
    /\ call[p] = Idle
    /\ id \notin used
    /\ used' = used \cup {id}
    /\ call' = [call EXCEPT ![p] = [job |-> "store", at |-> "begin", id |-> id,
                                    scope |-> scope, time |-> now, excess |-> 0]]
    /\ UNCHANGED <<now, disk, writer, draft>>

\* Without BEGIN IMMEDIATE each statement would commit by itself.
BeginNothing(p) ==
    /\ At(p, "begin")
    /\ writer = NoProc
    /\ Goto(p, "insert")
    /\ UNCHANGED <<now, disk, writer, draft, used>>

BeginImmediate(p) ==
    /\ At(p, "begin")
    /\ writer = NoProc
    /\ writer' = p
    /\ draft' = disk
    /\ Goto(p, "insert")
    /\ UNCHANGED <<now, disk, used>>

InsertResponse(p) ==
    LET c == call[p]
        row == [scope |-> c.scope, expires |-> c.time + Ttl, accessed |-> c.time]
    IN  /\ At(p, "insert")
        /\ Write(p, InsertRow(View(p), c.id, row))
        /\ Goto(p, "documents")
        /\ UNCHANGED <<now, writer, used>>

\* A document with its passages and crawl membership.
InsertDocument(p) ==
    LET id == call[p].id IN
    /\ At(p, "documents")
    /\ id \in DOMAIN View(p).rows
    /\ View(p).docs[id] < Documents[id]
    /\ Write(p, AddDocument(View(p), id))
    /\ UNCHANGED <<now, writer, call, used>>

\* The trim could be left to the next load.
AfterDocumentsUntrimmed(p) ==
    LET id == call[p].id IN
    /\ At(p, "documents")
    /\ id \in DOMAIN View(p).rows => View(p).docs[id] = Documents[id]
    /\ Goto(p, "commit")
    /\ UNCHANGED <<now, disk, writer, draft, used>>

\* trimDatabase(connection, Date.now()): the clock is read again.
AfterDocuments(p) ==
    LET id == call[p].id IN
    /\ At(p, "documents")
    /\ id \in DOMAIN View(p).rows => View(p).docs[id] = Documents[id]
    /\ call' = [call EXCEPT ![p].at = "expire", ![p].time = now]
    /\ UNCHANGED <<now, disk, writer, draft, used>>

Commit(p) ==
    /\ At(p, "commit")
    /\ disk' = draft
    /\ draft' = Empty
    /\ writer' = NoProc
    /\ Return(p)
    /\ UNCHANGED <<now, used>>

-----------------------------------------------------------------------------
(* trimDatabase.                                                            *)

DeleteExpired(p) ==
    /\ At(p, "expire")
    /\ Write(p, KeepRows(View(p), Unexpired(View(p).rows, call[p].time)))
    /\ Goto(p, "count")
    /\ UNCHANGED <<now, writer, used>>

CountRows(p) ==
    LET count == Cardinality(DOMAIN View(p).rows) IN
    /\ At(p, "count")
    /\ call' = [call EXCEPT
                  ![p].at = IF count > MaxResponses THEN "evict" ELSE "size",
                  ![p].excess = IF count > MaxResponses THEN count - MaxResponses ELSE 0]
    /\ UNCHANGED <<now, disk, writer, draft, used>>

\* ORDER BY last_accessed DESC would take the rows used last.
EvictExcessMostRecent(p) ==
    LET db == View(p)
        count == Cardinality(DOMAIN db.rows)
        excess == call[p].excess
    IN
    /\ At(p, "evict")
    /\ \E S \in SUBSET DOMAIN db.rows :
         /\ MostRecent(db.rows, DOMAIN db.rows \ S, DOMAIN db.rows)
         /\ Cardinality(S) = IF excess > count THEN 0 ELSE count - excess
         /\ Write(p, KeepRows(db, S))
    /\ Goto(p, "size")
    /\ UNCHANGED <<now, writer, used>>

\* ORDER BY last_accessed ASC LIMIT excess
EvictExcess(p) ==
    LET db == View(p)
        count == Cardinality(DOMAIN db.rows)
        excess == call[p].excess
    IN
    /\ At(p, "evict")
    /\ \E S \in SUBSET DOMAIN db.rows :
         /\ MostRecent(db.rows, S, DOMAIN db.rows)
         /\ Cardinality(S) = IF excess > count THEN 0 ELSE count - excess
         /\ Write(p, KeepRows(db, S))
    /\ Goto(p, "size")
    /\ UNCHANGED <<now, writer, used>>

MeasureSize(p) ==
    /\ At(p, "size")
    /\ Goto(p, IF LogicalBytes[DOMAIN View(p).rows] > MaxBytes THEN "evictOne"
               ELSE IF call[p].job = "store" THEN "commit" ELSE "select")
    /\ UNCHANGED <<now, disk, writer, draft, used>>

\* The delete would find no row and the loop would measure the same size again.
EvictNothing(p) ==
    /\ At(p, "evictOne")
    /\ Goto(p, "size")
    /\ UNCHANGED <<now, disk, writer, draft, used>>

EvictLeastRecent(p) ==
    LET db == View(p) IN
    /\ At(p, "evictOne")
    /\ \E least \in DOMAIN db.rows :
         LET S == DOMAIN db.rows \ {least} IN
         /\ MostRecent(db.rows, S, DOMAIN db.rows)
         /\ Write(p, KeepRows(db, S))
    /\ Goto(p, "size")
    /\ UNCHANGED <<now, writer, used>>

-----------------------------------------------------------------------------
(* loadStoredContent.                                                       *)

\* Its time is the caller's, read before the first statement.
StartLoad(p, id, scope) ==
    /\ call[p] = Idle
    /\ id \in used
    /\ call' = [call EXCEPT ![p] = [job |-> "load", at |-> "expire", id |-> id,
                                    scope |-> scope, time |-> now, excess |-> 0]]
    /\ UNCHANGED <<now, disk, writer, draft, used>>

SelectRow(p) ==
    LET c == call[p]
        found == /\ RowsOf(View(p).rows, {c.id}, c.scope) # {}
                 /\ View(p).rows[c.id].expires > c.time
    IN  /\ At(p, "select")
        /\ IF found THEN Goto(p, "touch") ELSE Return(p)
        /\ UNCHANGED <<now, disk, writer, draft, used>>

\* UPDATE ... SET last_accessed, of a row that may be gone by now.
TouchRow(p) ==
    LET c == call[p]
        db == View(p)
    IN  /\ At(p, "touch")
        /\ Write(p, TouchRows(db, RowsOf(db.rows, {c.id}, c.scope), c.time))
        /\ Return(p)
        /\ UNCHANGED <<now, writer, used>>

-----------------------------------------------------------------------------
(* Failures.                                                                *)

Writing == {"begin", "insert", "documents", "expire", "evict", "evictOne", "touch"}

\* busy_timeout runs out while another process holds the lock: the call throws.
Busy(p) ==
    /\ call[p] # Idle
    /\ call[p].at \in Writing
    /\ writer \notin {p, NoProc}
    /\ Return(p)
    /\ UNCHANGED <<now, disk, writer, draft, used>>

\* A statement fails and a store rolls its transaction back and rethrows; or
\* the process dies, and SQLite undoes the transaction and frees the lock.
Fail(p) ==
    /\ call[p] # Idle
    /\ writer' = IF writer = p THEN NoProc ELSE writer
    /\ draft' = IF writer = p THEN Empty ELSE draft
    /\ Return(p)
    /\ UNCHANGED <<now, disk, used>>

-----------------------------------------------------------------------------
Step(p) ==
    \/ BeginImmediate(p) \/ InsertResponse(p) \/ InsertDocument(p)
    \/ AfterDocuments(p) \/ Commit(p)
    \/ DeleteExpired(p) \/ CountRows(p) \/ EvictExcess(p)
    \/ MeasureSize(p) \/ EvictLeastRecent(p)
    \/ SelectRow(p) \/ TouchRow(p)
    \/ Busy(p)

Next ==
    \/ Tick
    \/ \E p \in Procs :
         \/ \E id \in Ids, scope \in Scopes :
              StartStore(p, id, scope) \/ StartLoad(p, id, scope)
         \/ Step(p)
         \/ Fail(p)

Spec == Init /\ [][Next]_vars

\* A call is synchronous: its process executes nothing else until it returns.
FairSpec == Spec /\ \A p \in Procs : WF_vars(Step(p))

-----------------------------------------------------------------------------
(* Properties.                                                              *)

\* What other processes and a later start can see is always within the count
\* and byte bounds, at every point between two statements of any process.
CommittedWithinBounds == WithinBounds(disk.rows)

\* No committed response lacks a document, whatever fails or dies half way.
WholeResponses == \A id \in DOMAIN disk.rows : disk.docs[id] = Documents[id]

\* Statement by statement, the file behaves as one table with atomic stores,
\* and the autocommitted trims of loads take nothing but expired rows.
Atomic == INSTANCE AtomicTable WITH clock <- now, rows <- disk.rows
ImplementsAtomicTable == Atomic!ASpec

\* Every database call returns or throws: waiting for the lock ends, and the
\* eviction loop runs out of bytes.
EveryCallReturns == \A p \in Procs : []<>(call[p] = Idle)
=============================================================================
