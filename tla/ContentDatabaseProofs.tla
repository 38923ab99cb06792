------------------------ MODULE ContentDatabaseProofs ------------------------
(***************************************************************************)
(* Proofs about ContentDatabase for any processes, handles, scopes, bounds  *)
(* and times.  The heart of the inductive invariant is Transaction: what    *)
(* the draft of the one writer is, statement by statement, compared with    *)
(* the committed rows, which stand still while it holds the lock.           *)
(***************************************************************************)
EXTENDS ContentDatabaseParts, ResponseTableProofs

Storing(p) == call[p] # Idle /\ call[p].job = "store"
Loading(p) == call[p] # Idle /\ call[p].job = "load"

Whole(db) == \A id \in DOMAIN db.rows : db.docs[id] = Documents[id]

\* Who holds the lock, and which statements each kind of call gets to: a load
\* never evicts, because what is committed is within the bounds.
Locking ==
    /\ \A p \in Procs : writer = p <=> Storing(p) /\ call[p].at # "begin"
    /\ \A p \in Procs : Storing(p) => call[p].at \notin {"select", "touch"}
    /\ \A p \in Procs : Loading(p) =>
         call[p].at \in {"expire", "count", "size", "select", "touch"}

\* A store under way works on a handle of its own, which no row has yet, and
\* no call has a time ahead of the clock.
Fresh ==
    /\ DOMAIN disk.rows \subseteq used
    /\ \A p \in Procs : call[p] # Idle =>
         call[p].time <= now /\ call[p].id \in used
    /\ \A p \in Procs : Storing(p) =>
         /\ call[p].id \notin DOMAIN disk.rows
         /\ \A q \in Procs : Storing(q) /\ call[q].id = call[p].id => q = p

\* The committed rows with the one that the store of p inserts.
Full(p, created) ==
    Insert(disk.rows, call[p].id,
           [scope |-> call[p].scope, expires |-> created + Ttl, accessed |-> created])

\* The eviction loop so far: the least recently used of C are gone, and there
\* were too many bytes before the last of them went.
Evicting(table, K, C) ==
    /\ K \subseteq C
    /\ MostRecent(table, K, C)
    /\ K # C => \E last \in C \ K :
                  /\ MostRecent(table, K \cup {last}, C)
                  /\ LogicalBytes[K \cup {last}] > MaxBytes

\* What a transaction past its documents has made of the full table.
Trimming(p, full) ==
    LET c == call[p]
        live == Unexpired(full, c.time)
        K == DOMAIN draft.rows
    IN  /\ c.at = "expire" => draft.rows = full
        /\ c.at \in {"count", "evict"} => draft.rows = Keep(full, live)
        /\ c.at = "evict" => /\ Cardinality(live) > MaxResponses
                             /\ c.excess = Cardinality(live) - MaxResponses
        /\ c.at \in {"size", "evictOne"} =>
             /\ draft.rows = Keep(full, K)
             /\ \E C \in WithinCount(full, live) : Evicting(full, K, C)
        /\ c.at = "evictOne" => LogicalBytes[K] > MaxBytes
        /\ c.at = "commit" => draft.rows \in TrimDatabase(full, c.time)

Transaction(p) ==
    /\ call[p].at = "insert" => draft = disk
    /\ call[p].at = "documents" =>
         /\ draft.rows = Full(p, call[p].time)
         /\ \A id \in DOMAIN draft.rows \ {call[p].id} :
              draft.docs[id] = Documents[id]
    /\ call[p].at \notin {"insert", "documents"} =>
         /\ Whole(draft)
         /\ \E created \in 0..call[p].time : Trimming(p, Full(p, created))

Transactions == \A p \in Procs : writer = p => Transaction(p)

IInv ==
    /\ TypeOK /\ Locking /\ Fresh /\ Transactions
    /\ CommittedWithinBounds /\ WholeResponses
-----------------------------------------------------------------------------
(* Tables and databases.                                                    *)

\* Deleting rows leaves a table, and no bound is passed by it.
LEMMA KeepType ==
    ASSUME NEW table, IsTable(table, Scopes), NEW S \in SUBSET DOMAIN table
    PROVE  /\ IsTable(Keep(table, S), Scopes)
           /\ DOMAIN Keep(table, S) = S
           /\ WithinBounds(table) => WithinBounds(Keep(table, S))
<1>1. DOMAIN Keep(table, S) = S /\ DOMAIN table \subseteq Ids
  BY DEF Keep, IsTable
<1>2. IsTable(Keep(table, S), Scopes)
  BY DEF Keep, IsTable
<1>3. ASSUME WithinBounds(table) PROVE WithinBounds(Keep(table, S))
  <2>1. IsFiniteSet(DOMAIN table)
    BY <1>1, FS_Subset, TableAssumption DEF TableAssumption
  <2>2. /\ Cardinality(S) <= Cardinality(DOMAIN table)
        /\ Cardinality(S) \in Nat /\ Cardinality(DOMAIN table) \in Nat
    BY <2>1, FS_Subset, FS_CardinalityType
  <2>3. /\ LogicalBytes[S] <= LogicalBytes[DOMAIN table]
        /\ LogicalBytes[S] \in Nat /\ LogicalBytes[DOMAIN table] \in Nat
    BY <1>1, TableAssumption DEF TableAssumption
  <2> QED
    BY <1>1, <1>3, <2>2, <2>3, TableAssumption DEF TableAssumption, WithinBounds
<1> QED
  BY <1>1, <1>2, <1>3

LEMMA KeepRowsType ==
    ASSUME NEW db, IsDatabase(db), NEW S \in SUBSET DOMAIN db.rows
    PROVE  /\ IsDatabase(KeepRows(db, S))
           /\ KeepRows(db, S).rows = Keep(db.rows, S)
           /\ DOMAIN KeepRows(db, S).rows = S
           /\ Whole(db) => Whole(KeepRows(db, S))
<1>1. KeepRows(db, S).rows = Keep(db.rows, S)
  BY DEF KeepRows
<1>2. KeepRows(db, S).docs = [id \in S |-> db.docs[id]]
  BY DEF KeepRows
<1>3. IsTable(db.rows, Scopes)
  BY DEF IsDatabase
<1>4. IsTable(Keep(db.rows, S), Scopes) /\ DOMAIN Keep(db.rows, S) = S
  BY <1>3, KeepType
<1>5. IsDatabase(KeepRows(db, S))
  <2>1. KeepRows(db, S) = [rows |-> KeepRows(db, S).rows, docs |-> KeepRows(db, S).docs]
    BY DEF KeepRows
  <2>2. KeepRows(db, S).docs \in [S -> Nat]
        /\ \A id \in S : KeepRows(db, S).docs[id] <= Documents[id]
    BY <1>2 DEF IsDatabase
  <2> QED BY <1>1, <1>4, <2>1, <2>2 DEF IsDatabase
<1>6. Whole(db) => Whole(KeepRows(db, S))
  BY <1>1, <1>2, <1>4 DEF Whole
<1> QED
  BY <1>1, <1>4, <1>5, <1>6

LEMMA EmptyType == IsDatabase(Empty) /\ WithinBounds(Empty.rows) /\ DOMAIN Empty.rows = {}
<1>1. DOMAIN Empty.rows = {} /\ DOMAIN Empty.docs = {}
  BY DEF Empty
<1>2. IsDatabase(Empty)
  BY DEF Empty, IsDatabase, IsTable
<1>3. Cardinality({}) = 0
  BY FS_EmptySet
<1> QED
  BY <1>1, <1>2, <1>3, TableAssumption DEF TableAssumption, WithinBounds

LEMMA ViewType == TypeOK => \A p \in Procs : IsDatabase(View(p))
  BY DEF TypeOK, View

-----------------------------------------------------------------------------
(* Type correctness.                                                        *)

LEMMA TypeInit == Init => TypeOK
  BY EmptyType, DatabaseAssumption DEF Init, TypeOK, DatabaseAssumption

LEMMA GotoType ==
    ASSUME TypeOK, NEW p \in Procs, NEW from, At(p, from), NEW to \in Steps, Goto(p, to)
    PROVE  call' \in [Procs -> Calls \cup {Idle}]
  BY DEF TypeOK, At, Goto, Calls

LEMMA ReturnType ==
    ASSUME TypeOK, NEW p \in Procs, Return(p)
    PROVE  call' \in [Procs -> Calls \cup {Idle}]
  BY DEF TypeOK, Return

LEMMA WriteType ==
    ASSUME TypeOK, NEW p \in Procs, NEW db, IsDatabase(db), Write(p, db)
    PROVE  IsDatabase(disk') /\ IsDatabase(draft')
  BY DEF TypeOK, Write

LEMMA CallType ==
    ASSUME TypeOK, NEW p \in Procs, call[p] # Idle
    PROVE  call[p] \in Calls
  BY DEF TypeOK

\* The databases the statements write.
LEMMA InsertRowType ==
    ASSUME NEW db, IsDatabase(db), NEW id \in Ids,
           NEW row \in [scope : Scopes, expires : Nat, accessed : Nat]
    PROVE  /\ IsDatabase(InsertRow(db, id, row))
           /\ InsertRow(db, id, row).rows = Insert(db.rows, id, row)
           /\ DOMAIN InsertRow(db, id, row).rows = DOMAIN db.rows \cup {id}
           /\ \A i \in DOMAIN db.rows \ {id} : InsertRow(db, id, row).docs[i] = db.docs[i]
<1> DEFINE new == InsertRow(db, id, row)
<1>1. IsTable(db.rows, Scopes) /\ db.docs \in [DOMAIN db.rows -> Nat]
      /\ \A i \in DOMAIN db.rows : db.docs[i] <= Documents[i]
  BY DEF IsDatabase
<1>2. new.rows = Insert(db.rows, id, row)
      /\ new.docs = [i \in DOMAIN db.rows \cup {id} |-> IF i = id THEN 0 ELSE db.docs[i]]
      /\ new = [rows |-> new.rows, docs |-> new.docs]
  BY DEF InsertRow
<1>3. IsTable(Insert(db.rows, id, row), Scopes)
      /\ DOMAIN Insert(db.rows, id, row) = DOMAIN db.rows \cup {id}
  <2> DEFINE table == db.rows
  <2>1. IsTable(table, Scopes)
    BY <1>1
  <2> HIDE DEF table
  <2>2. IsTable(Insert(table, id, row), Scopes)
        /\ DOMAIN Insert(table, id, row) = DOMAIN table \cup {id}
    BY <2>1, InsertType
  <2> QED BY <2>2 DEF table
<1>4. Documents[id] \in Nat
  BY DatabaseAssumption DEF DatabaseAssumption
<1> HIDE DEF new
<1>5. /\ new.docs \in [DOMAIN new.rows -> Nat]
      /\ \A i \in DOMAIN new.rows : new.docs[i] <= Documents[i]
      /\ \A i \in DOMAIN db.rows \ {id} : new.docs[i] = db.docs[i]
  BY <1>1, <1>2, <1>3, <1>4
<1>6. IsDatabase(new)
  BY <1>2, <1>3, <1>5 DEF IsDatabase
<1> QED BY <1>2, <1>3, <1>5, <1>6 DEF new

LEMMA AddDocumentType ==
    ASSUME NEW db, IsDatabase(db), NEW id \in DOMAIN db.rows, db.docs[id] < Documents[id]
    PROVE  /\ IsDatabase(AddDocument(db, id))
           /\ AddDocument(db, id).rows = db.rows
           /\ \A i \in DOMAIN db.rows \ {id} : AddDocument(db, id).docs[i] = db.docs[i]
<1> DEFINE new == AddDocument(db, id)
<1>1. IsTable(db.rows, Scopes) /\ db.docs \in [DOMAIN db.rows -> Nat]
      /\ \A i \in DOMAIN db.rows : db.docs[i] <= Documents[i]
  BY DEF IsDatabase
<1>2. new.rows = db.rows /\ new.docs = [db.docs EXCEPT ![id] = @ + 1]
      /\ new = [rows |-> new.rows, docs |-> new.docs]
  BY DEF AddDocument
<1>3. Documents[id] \in Nat
  BY <1>1, DatabaseAssumption DEF DatabaseAssumption, IsTable
<1> HIDE DEF new
<1>4. /\ new.docs \in [DOMAIN new.rows -> Nat]
      /\ \A i \in DOMAIN new.rows : new.docs[i] <= Documents[i]
      /\ \A i \in DOMAIN db.rows \ {id} : new.docs[i] = db.docs[i]
  BY <1>1, <1>2, <1>3
<1>5. IsDatabase(new)
  BY <1>1, <1>2, <1>4 DEF IsDatabase
<1> QED BY <1>2, <1>4, <1>5 DEF new

LEMMA TouchRowsType ==
    ASSUME NEW db, IsDatabase(db), NEW S, NEW t \in Nat
    PROVE  /\ IsDatabase(TouchRows(db, S, t))
           /\ TouchRows(db, S, t).rows = Touch(db.rows, S, t)
           /\ TouchRows(db, S, t).docs = db.docs
<1> DEFINE new == TouchRows(db, S, t)
<1>1. IsTable(db.rows, Scopes) /\ db.docs \in [DOMAIN db.rows -> Nat]
      /\ \A i \in DOMAIN db.rows : db.docs[i] <= Documents[i]
  BY DEF IsDatabase
<1>2. new.rows = Touch(db.rows, S, t) /\ new.docs = db.docs
      /\ new = [rows |-> new.rows, docs |-> new.docs]
  BY DEF TouchRows
<1>3. IsTable(new.rows, Scopes) /\ DOMAIN new.rows = DOMAIN db.rows
  BY <1>1, <1>2, TouchOutcome
<1> HIDE DEF new
<1>4. IsDatabase(new)
  BY <1>1, <1>2, <1>3 DEF IsDatabase
<1> QED BY <1>2, <1>4 DEF new

LEMMA TypeStep == TypeOK /\ [Next]_vars => TypeOK'
<1> SUFFICES ASSUME TypeOK, [Next]_vars PROVE TypeOK'
  OBVIOUS
<1>1. CASE Tick
  BY <1>1, DatabaseAssumption DEF Tick, TypeOK, IsDatabase, DatabaseAssumption
<1>2. ASSUME NEW p \in Procs, NEW id \in Ids, NEW scope \in Scopes,
             StartStore(p, id, scope) \/ StartLoad(p, id, scope)
      PROVE  TypeOK'
  <2>1. UNCHANGED <<now, disk, writer, draft>> /\ used' \subseteq Ids
    BY <1>2 DEF StartStore, StartLoad, TypeOK
  <2>2. call' \in [Procs -> Calls \cup {Idle}]
    BY <1>2, DatabaseAssumption
       DEF StartStore, StartLoad, TypeOK, Calls, Steps, DatabaseAssumption
  <2> QED BY <2>1, <2>2 DEF TypeOK, IsDatabase
<1>3. ASSUME NEW p \in Procs, Step(p) PROVE TypeOK'
  <2> DEFINE c == call[p]
             db == View(p)
             WellTyped == [Procs -> Calls \cup {Idle}]
  <2>a. /\ IsDatabase(db) /\ IsTable(db.rows, Scopes)
        /\ DOMAIN db.rows \subseteq Ids
    BY ViewType DEF IsDatabase, IsTable
  <2>b. c # Idle => c \in Calls
    BY CallType
  <2>c. ASSUME NEW new, IsDatabase(new), Write(p, new), call' \in WellTyped,
               UNCHANGED <<now, writer, used>>
        PROVE  TypeOK'
    BY <2>c, WriteType DEF TypeOK, IsDatabase
  <2>d. ASSUME call' \in WellTyped, UNCHANGED <<now, disk, writer, draft, used>>
        PROVE  TypeOK'
    BY <2>d DEF TypeOK, IsDatabase
  <2>e. ASSUME NEW S \in SUBSET DOMAIN db.rows PROVE IsDatabase(KeepRows(db, S))
    BY <2>a, KeepRowsType
  <2>1. CASE BeginImmediate(p)
    <3>1. call' \in WellTyped
      BY <2>1, GotoType DEF BeginImmediate, Steps
    <3> QED BY <2>1, <3>1 DEF BeginImmediate, TypeOK, IsDatabase
  <2>2. CASE InsertResponse(p)
    <3>1. call' \in WellTyped
      BY <2>2, GotoType DEF InsertResponse, Steps
    <3>2. c.id \in Ids /\ [scope |-> c.scope, expires |-> c.time + Ttl, accessed |-> c.time]
            \in [scope : Scopes, expires : Nat, accessed : Nat]
      BY <2>2, <2>b, DatabaseAssumption
         DEF InsertResponse, At, Calls, DatabaseAssumption
    <3> QED
      BY <2>2, <2>a, <2>c, <3>1, <3>2, InsertRowType DEF InsertResponse
  <2>3. CASE InsertDocument(p)
    <3>1. call' \in WellTyped
      BY <2>3 DEF InsertDocument, TypeOK
    <3> QED BY <2>3, <2>a, <2>c, <3>1, AddDocumentType DEF InsertDocument
  <2>4. CASE AfterDocuments(p)
    <3>1. now \in Nat /\ c \in Calls /\ call \in WellTyped
      BY <2>4, <2>b, DatabaseAssumption DEF AfterDocuments, TypeOK, At, DatabaseAssumption
    <3>2. [c EXCEPT !.at = "expire", !.time = now] \in Calls
      BY <3>1 DEF Calls, Steps
    <3>3. call' \in WellTyped
      BY <2>4, <3>1, <3>2 DEF AfterDocuments
    <3> QED BY <2>4, <2>d, <3>3 DEF AfterDocuments
  <2>5. CASE Commit(p)
    <3>1. call' \in WellTyped
      BY <2>5, ReturnType DEF Commit
    <3> QED BY <2>5, <3>1, EmptyType DEF Commit, TypeOK, IsDatabase
  <2>6. CASE DeleteExpired(p)
    <3>1. call' \in WellTyped
      BY <2>6, GotoType DEF DeleteExpired, Steps
    <3>2. Unexpired(db.rows, c.time) \subseteq DOMAIN db.rows
      BY DEF Unexpired
    <3> QED BY <2>6, <2>c, <2>e, <3>1, <3>2 DEF DeleteExpired
  <2>7. CASE CountRows(p)
    <3>1. /\ Cardinality(DOMAIN db.rows) \in Nat /\ MaxResponses \in Nat
      BY <2>a, FS_Subset, FS_CardinalityType, TableAssumption DEF TableAssumption
    <3>2. c \in Calls /\ call \in WellTyped
      BY <2>7, <2>b DEF CountRows, TypeOK, At
    <3>3. ASSUME NEW to \in Steps, NEW n \in Nat PROVE [c EXCEPT !.at = to, !.excess = n] \in Calls
      BY <3>2 DEF Calls
    <3>4. PICK to \in Steps, n \in Nat : call' = [call EXCEPT ![p].at = to, ![p].excess = n]
      <4> DEFINE count == Cardinality(DOMAIN db.rows)
      <4>1. (IF count > MaxResponses THEN count - MaxResponses ELSE 0) \in Nat
        BY <3>1
      <4>2. (IF count > MaxResponses THEN "evict" ELSE "size") \in Steps
        BY DEF Steps
      <4> QED BY <2>7, <4>1, <4>2 DEF CountRows
    <3>5. call' \in WellTyped
      BY <3>2, <3>3, <3>4
    <3> QED BY <2>7, <2>d, <3>5 DEF CountRows
  <2>8. CASE EvictExcess(p)
    <3>1. call' \in WellTyped
      BY <2>8, GotoType DEF EvictExcess, Steps
    <3> QED BY <2>8, <2>c, <2>e, <3>1 DEF EvictExcess
  <2>9. CASE MeasureSize(p)
    <3>1. call' \in WellTyped
      BY <2>9, GotoType DEF MeasureSize, Steps
    <3> QED BY <2>9, <2>d, <3>1 DEF MeasureSize
  <2>10. CASE EvictLeastRecent(p)
    <3>1. call' \in WellTyped
      BY <2>10, GotoType DEF EvictLeastRecent, Steps
    <3> QED BY <2>10, <2>c, <2>e, <3>1 DEF EvictLeastRecent
  <2>11. CASE SelectRow(p)
    <3>1. call' \in WellTyped
      BY <2>11, GotoType, ReturnType DEF SelectRow, Steps
    <3> QED BY <2>11, <2>d, <3>1 DEF SelectRow
  <2>12. CASE TouchRow(p)
    <3>1. call' \in WellTyped /\ c.time \in Nat
      BY <2>12, <2>b, ReturnType DEF TouchRow, At, Calls
    <3> QED BY <2>12, <2>a, <2>c, <3>1, TouchRowsType DEF TouchRow
  <2>13. CASE Busy(p)
    BY <2>13, <2>d, ReturnType DEF Busy
  <2> QED
    BY <1>3, <2>1, <2>2, <2>3, <2>4, <2>5, <2>6, <2>7, <2>8, <2>9, <2>10, <2>11,
       <2>12, <2>13 DEF Step
<1>4. ASSUME NEW p \in Procs, Fail(p) PROVE TypeOK'
  BY <1>4, EmptyType, ReturnType DEF Fail, TypeOK, IsDatabase
<1>5. CASE UNCHANGED vars
  BY <1>5 DEF vars, TypeOK, IsDatabase
<1> QED
  BY <1>1, <1>2, <1>3, <1>4, <1>5 DEF Next

\* TypeOK: every reachable state has its types.
THEOREM DatabaseTypeCorrect == Spec => []TypeOK
  BY TypeInit, TypeStep, PTL DEF Spec

-----------------------------------------------------------------------------
(* The lock.                                                                *)

LEMMA CallIsNotIdle == \A c \in Calls : c # Idle
  BY DEF Calls, Idle

LEMMA GotoEffect ==
    ASSUME TypeOK, NEW p \in Procs, NEW from, At(p, from), NEW to, Goto(p, to)
    PROVE  /\ call[p] \in Calls /\ call'[p] # Idle
           /\ call'[p].job = call[p].job /\ call'[p].at = to
           /\ call'[p].id = call[p].id /\ call'[p].scope = call[p].scope
           /\ call'[p].time = call[p].time /\ call'[p].excess = call[p].excess
           /\ \A q \in Procs \ {p} : call'[q] = call[q]
  BY DEF TypeOK, At, Goto, Calls, Idle

LEMMA ReturnEffect ==
    ASSUME TypeOK, NEW p \in Procs, Return(p)
    PROVE  call'[p] = Idle /\ \A q \in Procs \ {p} : call'[q] = call[q]
  BY DEF TypeOK, Return

\* Only a store writes into a transaction, and a load finds the file unlocked.
LEMMA WriteEffect ==
    ASSUME Locking, NEW p \in Procs, NEW db, Write(p, db)
    PROVE  /\ Storing(p) /\ call[p].at # "begin" =>
                writer = p /\ View(p) = draft /\ draft' = db /\ disk' = disk
           /\ ~ Storing(p) =>
                writer = NoProc /\ View(p) = disk /\ disk' = db /\ draft' = draft
  BY DatabaseAssumption DEF Locking, Write, View, DatabaseAssumption

LEMMA LockingStep == TypeOK /\ Locking /\ CommittedWithinBounds /\ [Next]_vars => Locking'
<1> SUFFICES ASSUME TypeOK, Locking, CommittedWithinBounds, [Next]_vars PROVE Locking'
  OBVIOUS
<1> DEFINE Lock(q) ==
             /\ writer = q <=> Storing(q) /\ call[q].at # "begin"
             /\ Storing(q) => call[q].at \notin {"select", "touch"}
             /\ Loading(q) => call[q].at \in {"expire", "count", "size", "select", "touch"}
<1>a. \A q \in Procs : Lock(q)
  BY DEF Locking
<1>b. (\A q \in Procs : Lock(q)') => Locking'
  BY DEF Locking
<1>c. ASSUME NEW p \in Procs, Lock(p)', writer' = writer,
             \A q \in Procs \ {p} : call'[q] = call[q]
      PROVE  Locking'
  BY <1>a, <1>b, <1>c DEF Storing, Loading
<1>d. ASSUME NEW p \in Procs, ~ Storing(p), Return(p), writer' = writer PROVE Locking'
  BY <1>a, <1>c, <1>d, ReturnEffect DEF Storing, Loading
<1>e. NoProc \notin Procs
  BY DatabaseAssumption DEF DatabaseAssumption
<1>1. CASE Tick
  BY <1>1, <1>a, <1>b DEF Tick, Storing, Loading
<1>2. ASSUME NEW p \in Procs, NEW id \in Ids, NEW scope \in Scopes,
             StartStore(p, id, scope) \/ StartLoad(p, id, scope)
      PROVE  Locking'
  <2>1. /\ writer' = writer /\ call[p] = Idle
        /\ \A q \in Procs \ {p} : call'[q] = call[q]
        /\ \/ call'[p].job = "store" /\ call'[p].at = "begin"
           \/ call'[p].job = "load" /\ call'[p].at = "expire"
    BY <1>2 DEF StartStore, StartLoad, TypeOK
  <2> QED BY <2>1, <1>a, <1>c DEF Storing, Loading
<1>3. ASSUME NEW p \in Procs, Step(p) PROVE Locking'
  <2> DEFINE c == call[p]
  <2>1. CASE BeginImmediate(p)
    <3>1. At(p, "begin") /\ Goto(p, "insert") /\ writer = NoProc /\ writer' = p
      BY <2>1 DEF BeginImmediate
    <3>2. Storing(p)
      BY <3>1, <1>a, CallType DEF At, Storing, Loading, Calls
    <3>3. Lock(p)' /\ \A q \in Procs \ {p} : Lock(q)'
      BY <3>1, <3>2, <1>a, <1>e, GotoEffect DEF Storing, Loading
    <3> QED BY <3>3, <1>b
  <2>2. CASE InsertResponse(p)
    <3>1. At(p, "insert") /\ Goto(p, "documents") /\ writer' = writer
      BY <2>2 DEF InsertResponse
    <3> QED BY <3>1, <1>a, <1>c, GotoEffect DEF At, Storing, Loading
  <2>3. CASE InsertDocument(p)
    BY <2>3, <1>a, <1>b DEF InsertDocument, Storing, Loading
  <2>4. CASE AfterDocuments(p)
    <3>1. At(p, "documents") /\ writer' = writer
          /\ call' = [call EXCEPT ![p].at = "expire", ![p].time = now]
      BY <2>4 DEF AfterDocuments
    <3>2. /\ c \in Calls /\ call'[p].job = c.job /\ call'[p].at = "expire"
          /\ \A q \in Procs \ {p} : call'[q] = call[q]
      BY <3>1, CallType DEF TypeOK, At, Calls
    <3>3. c # Idle /\ call'[p] # Idle
      <4>1. c # Idle
        BY <3>1 DEF At
      <4>2. c.job # "none"
        BY <3>2 DEF Calls
      <4>3. call'[p].job # Idle.job
        BY <3>2, <4>2 DEF Idle
      <4> QED BY <4>1, <4>3
    <3> QED BY <3>1, <3>2, <3>3, <1>a, <1>c DEF At, Storing, Loading
  <2>5. CASE Commit(p)
    <3>1. At(p, "commit") /\ Return(p) /\ writer' = NoProc
      BY <2>5 DEF Commit
    <3>2. writer = p
      BY <3>1, <1>a, CallType DEF At, Storing, Loading, Calls
    <3>3. Lock(p)' /\ \A q \in Procs \ {p} : Lock(q)'
      BY <3>1, <3>2, <1>a, <1>e, ReturnEffect DEF Storing, Loading
    <3> QED BY <3>3, <1>b
  <2>6. CASE DeleteExpired(p)
    <3>1. At(p, "expire") /\ Goto(p, "count") /\ writer' = writer
      BY <2>6 DEF DeleteExpired
    <3> QED BY <3>1, <1>a, <1>c, GotoEffect DEF At, Storing, Loading
  <2>7. CASE CountRows(p)
    <3>1. /\ At(p, "count") /\ writer' = writer /\ c \in Calls
          /\ \A q \in Procs \ {p} : call'[q] = call[q]
          /\ call'[p].job = c.job
          /\ call'[p].at = IF Cardinality(DOMAIN View(p).rows) > MaxResponses
                           THEN "evict" ELSE "size"
      BY <2>7, CallType DEF CountRows, TypeOK, At, Calls
    <3>2. c # Idle /\ call'[p] # Idle
      BY <3>1, CallType DEF At, Calls, Idle
    <3>3. Loading(p) => call'[p].at = "size"
      <4>1. SUFFICES ASSUME Loading(p) PROVE View(p) = disk
        <5>1. /\ Cardinality(DOMAIN disk.rows) \in Nat /\ MaxResponses \in Nat
              /\ Cardinality(DOMAIN disk.rows) <= MaxResponses
          BY FS_Subset, FS_CardinalityType, TableAssumption
             DEF TableAssumption, TypeOK, IsDatabase, IsTable, CommittedWithinBounds,
                 WithinBounds
        <5> QED BY <3>1, <5>1
      <4> QED BY <4>1, <1>a DEF Loading, Storing, View
    <3> QED BY <3>1, <3>2, <3>3, <1>a, <1>c DEF At, Storing, Loading
  <2>8. CASE EvictExcess(p)
    <3>1. At(p, "evict") /\ Goto(p, "size") /\ writer' = writer
      BY <2>8 DEF EvictExcess
    <3> QED BY <3>1, <1>a, <1>c, GotoEffect DEF At, Storing, Loading
  <2>9. CASE MeasureSize(p)
    <3> DEFINE to == IF LogicalBytes[DOMAIN View(p).rows] > MaxBytes THEN "evictOne"
                     ELSE IF c.job = "store" THEN "commit" ELSE "select"
    <3>1. At(p, "size") /\ Goto(p, to) /\ writer' = writer
      BY <2>9 DEF MeasureSize
    <3>2. Loading(p) => to = "select"
      <4>1. SUFFICES ASSUME Loading(p) PROVE View(p) = disk
        <5>1. /\ LogicalBytes[DOMAIN disk.rows] \in Nat /\ MaxBytes \in Nat
              /\ LogicalBytes[DOMAIN disk.rows] <= MaxBytes
          BY TableAssumption
             DEF TableAssumption, TypeOK, IsDatabase, IsTable, CommittedWithinBounds,
                 WithinBounds
        <5> QED BY <5>1 DEF Loading
      <4> QED BY <4>1, <1>a DEF Loading, Storing, View
    <3>3. Storing(p) => to \in {"evictOne", "commit"}
      BY DEF Storing
    <3> HIDE DEF to
    <3> QED BY <3>1, <3>2, <3>3, <1>a, <1>c, GotoEffect DEF At, Storing, Loading
  <2>10. CASE EvictLeastRecent(p)
    <3>1. At(p, "evictOne") /\ Goto(p, "size") /\ writer' = writer
      BY <2>10 DEF EvictLeastRecent
    <3> QED BY <3>1, <1>a, <1>c, GotoEffect DEF At, Storing, Loading
  <2>11. CASE SelectRow(p)
    <3>1. At(p, "select") /\ (Goto(p, "touch") \/ Return(p)) /\ writer' = writer
      BY <2>11 DEF SelectRow
    <3>2. Loading(p)
      BY <3>1, <1>a, CallType DEF At, Storing, Loading, Calls
    <3>3. ~ Storing(p)
      BY <3>2 DEF Storing, Loading
    <3>4. CASE Goto(p, "touch")
      BY <3>1, <3>3, <3>4, <1>a, <1>c, GotoEffect DEF At, Storing, Loading
    <3> QED BY <3>1, <3>3, <3>4, <1>d
  <2>12. CASE TouchRow(p)
    <3>1. At(p, "touch") /\ Return(p) /\ writer' = writer
      BY <2>12 DEF TouchRow
    <3>2. ~ Storing(p)
      BY <3>1, <1>a DEF At, Storing
    <3> QED BY <3>1, <3>2, <1>d
  <2>13. CASE Busy(p)
    <3>1. /\ call[p] # Idle /\ writer \notin {p, NoProc} /\ Return(p) /\ writer' = writer
      BY <2>13 DEF Busy
    <3> QED BY <3>1, <1>a, <1>c, ReturnEffect DEF Storing, Loading
  <2> QED
    BY <1>3, <2>1, <2>2, <2>3, <2>4, <2>5, <2>6, <2>7, <2>8, <2>9, <2>10, <2>11,
       <2>12, <2>13 DEF Step
<1>4. ASSUME NEW p \in Procs, Fail(p) PROVE Locking'
  <2>1. Return(p) /\ writer' = IF writer = p THEN NoProc ELSE writer
    BY <1>4 DEF Fail
  <2>2. Lock(p)' /\ \A q \in Procs \ {p} : Lock(q)'
    BY <2>1, <1>a, <1>e, ReturnEffect DEF Storing, Loading
  <2> QED BY <2>2, <1>b
<1>5. CASE UNCHANGED vars
  BY <1>5, <1>a, <1>b DEF vars, Storing, Loading
<1> QED
  BY <1>1, <1>2, <1>3, <1>4, <1>5 DEF Next

-----------------------------------------------------------------------------
(* What a step leaves alone.                                                *)

\* Who holds no lock cannot disturb the transaction of who does.
LEMMA Bystander ==
    ASSUME TypeOK, Locking, NEW p \in Procs, writer # p,
           Step(p) \/ Fail(p), ~ BeginImmediate(p)
    PROVE  /\ writer' = writer /\ draft' = draft
           /\ writer # NoProc => disk' = disk
           /\ \A q \in Procs \ {p} : call'[q] = call[q]
<1> DEFINE Harmless == /\ writer' = writer /\ draft' = draft
                       /\ writer # NoProc => disk' = disk
                       /\ \A q \in Procs \ {p} : call'[q] = call[q]
<1>1. ASSUME NEW db, Write(p, db) PROVE draft' = draft /\ (writer # NoProc => disk' = disk)
  BY <1>1 DEF Write
<1>2. /\ \A to : Goto(p, to) => \A q \in Procs \ {p} : call'[q] = call[q]
      /\ Return(p) => \A q \in Procs \ {p} : call'[q] = call[q]
  BY DEF Goto, Return, TypeOK
<1>3. CASE InsertResponse(p)
  BY <1>1, <1>2, <1>3 DEF InsertResponse
<1>4. CASE InsertDocument(p)
  BY <1>1, <1>4 DEF InsertDocument
<1>5. CASE AfterDocuments(p)
  BY <1>5 DEF AfterDocuments, TypeOK
<1>6. CASE Commit(p)
  <2>1. Storing(p) /\ call[p].at # "begin"
    BY <1>6, CallType DEF Commit, Locking, At, Storing, Loading, Calls
  <2> QED BY <2>1 DEF Locking
<1>7. CASE DeleteExpired(p)
  BY <1>1, <1>2, <1>7 DEF DeleteExpired
<1>8. CASE CountRows(p)
  BY <1>8 DEF CountRows, TypeOK
<1>9. CASE EvictExcess(p)
  BY <1>1, <1>2, <1>9 DEF EvictExcess
<1>10. CASE MeasureSize(p)
  BY <1>2, <1>10 DEF MeasureSize
<1>11. CASE EvictLeastRecent(p)
  BY <1>1, <1>2, <1>11 DEF EvictLeastRecent
<1>12. CASE SelectRow(p)
  BY <1>2, <1>12 DEF SelectRow
<1>13. CASE TouchRow(p)
  BY <1>1, <1>2, <1>13 DEF TouchRow
<1>14. CASE Busy(p)
  BY <1>2, <1>14 DEF Busy
<1>15. CASE Fail(p)
  BY <1>2, <1>15 DEF Fail
<1> QED
  BY <1>3, <1>4, <1>5, <1>6, <1>7, <1>8, <1>9, <1>10, <1>11, <1>12, <1>13, <1>14,
     <1>15 DEF Step

\* The committed database changes by a commit, and by what a load deletes and
\* touches while there is no writer.
DiskChange(p) ==
    \/ /\ Commit(p) /\ writer = p /\ Storing(p)
    \/ /\ Loading(p) /\ At(p, "expire") /\ writer = NoProc /\ writer' = NoProc
       /\ disk' = KeepRows(disk, Unexpired(disk.rows, call[p].time))
       /\ Goto(p, "count") /\ UNCHANGED <<now, draft, used>>
    \/ /\ Loading(p) /\ At(p, "touch") /\ writer = NoProc /\ writer' = NoProc
       /\ disk' = TouchRows(disk, RowsOf(disk.rows, {call[p].id}, call[p].scope),
                            call[p].time)
       /\ Return(p) /\ UNCHANGED <<now, draft, used>>

LEMMA DiskStep ==
    ASSUME TypeOK, Locking, [Next]_vars
    PROVE  disk' = disk \/ \E p \in Procs : DiskChange(p)
<1>1. ASSUME NEW p \in Procs, Step(p) PROVE disk' = disk \/ DiskChange(p)
  <2>a. ASSUME NEW db, Write(p, db), Storing(p), call[p].at # "begin" PROVE disk' = disk
    BY <2>a, WriteEffect
  <2>b. ASSUME NEW s, At(p, s) PROVE call[p].at = s /\ (~ Storing(p) => Loading(p))
    BY <2>b, CallType DEF At, Storing, Loading, Calls
  <2>1. CASE InsertResponse(p)
    BY <2>1, <2>a, <2>b DEF InsertResponse, Locking
  <2>2. CASE InsertDocument(p)
    BY <2>2, <2>a, <2>b DEF InsertDocument, Locking
  <2>3. CASE Commit(p)
    BY <2>3, <2>b DEF Commit, Locking, DiskChange
  <2>4. CASE DeleteExpired(p)
    BY <2>4, <2>a, <2>b, WriteEffect DEF DeleteExpired, DiskChange
  <2>5. CASE EvictExcess(p)
    BY <2>5, <2>a, <2>b DEF EvictExcess, Locking
  <2>6. CASE EvictLeastRecent(p)
    BY <2>6, <2>a, <2>b DEF EvictLeastRecent, Locking
  <2>7. CASE TouchRow(p)
    <3>1. Loading(p) /\ ~ Storing(p)
      BY <2>7, <2>b DEF TouchRow, Locking, Loading, Storing
    <3> QED BY <2>7, <3>1, WriteEffect DEF TouchRow, DiskChange
  <2> QED
    BY <1>1, <2>1, <2>2, <2>3, <2>4, <2>5, <2>6, <2>7
       DEF Step, BeginImmediate, AfterDocuments, CountRows, MeasureSize, SelectRow, Busy
<1> QED
  BY <1>1 DEF Next, Tick, StartStore, StartLoad, Fail, vars

-----------------------------------------------------------------------------
(* The transaction of a store.                                              *)

LEMMA KeepKeep ==
    ASSUME NEW table, NEW K, NEW S \in SUBSET K
    PROVE  Keep(Keep(table, K), S) = Keep(table, S)
  BY DEF Keep

LEMMA MostRecentKeep ==
    ASSUME NEW table, NEW K, NEW S \in SUBSET K, NEW R \in SUBSET S
    PROVE  MostRecent(Keep(table, K), R, S) <=> MostRecent(table, R, S)
<1>1. \A id \in K : Keep(table, K)[id] = table[id]
  BY DEF Keep
<1>2. \A id \in S : Keep(table, K)[id].accessed = table[id].accessed
  BY <1>1
<1> QED
  BY <1>2 DEF MostRecent

\* The table of a transaction: that of the file and the new row.
LEMMA FullType ==
    ASSUME TypeOK, NEW p \in Procs, call[p] # Idle, NEW created \in Nat
    PROVE  /\ IsTable(Full(p, created), Scopes)
           /\ DOMAIN Full(p, created) = DOMAIN disk.rows \cup {call[p].id}
<1> DEFINE row == [scope |-> call[p].scope, expires |-> created + Ttl, accessed |-> created]
           table == disk.rows
           new == call[p].id
<1>1. call[p] \in Calls
  BY CallType
<1>2. row \in [scope : Scopes, expires : Nat, accessed : Nat] /\ new \in Ids
  BY <1>1, DatabaseAssumption DEF Calls, DatabaseAssumption
<1>3. IsTable(table, Scopes)
  BY DEF TypeOK, IsDatabase
<1>4. Full(p, created) = Insert(table, new, row)
  BY DEF Full
<1> HIDE DEF row, table, new
<1>5. /\ IsTable(Insert(table, new, row), Scopes)
      /\ DOMAIN Insert(table, new, row) = DOMAIN table \cup {new}
  BY <1>2, <1>3, InsertType
<1> QED
  BY <1>4, <1>5 DEF table, new

LEMMA LiveType ==
    ASSUME NEW table, IsTable(table, Scopes), NEW time, NEW K \in SUBSET Unexpired(table, time)
    PROVE  /\ K \subseteq DOMAIN table
           /\ IsFiniteSet(K) /\ Cardinality(K) \in Nat
  BY FS_Subset, FS_CardinalityType, TableAssumption
     DEF Unexpired, IsTable, TableAssumption

LEMMA NothingEvicted ==
    ASSUME NEW table, NEW C PROVE Evicting(table, C, C)
  BY DEF Evicting, MostRecent

\* One round of the eviction loop.
LEMMA EvictionGoesOn ==
    ASSUME NEW table, IsTable(table, Scopes), NEW C \in SUBSET DOMAIN table, NEW K, Evicting(table, K, C),
           LogicalBytes[K] > MaxBytes, NEW least \in K,
           MostRecent(Keep(table, K), K \ {least}, K)
    PROVE  Evicting(table, K \ {least}, C)
<1>1. K \subseteq C /\ MostRecent(table, K, C)
  BY DEF Evicting
<1>2. MostRecent(table, K \ {least}, K)
  BY MostRecentKeep
<1>3. \A gone \in C \ (K \ {least}), kept \in K \ {least} :
        table[gone].accessed <= table[kept].accessed
  BY <1>1, <1>2 DEF MostRecent
<1>4. (K \ {least}) \cup {least} = K /\ least \in C \ (K \ {least})
  BY <1>1
<1> QED
  BY <1>1, <1>3, <1>4 DEF Evicting, MostRecent

\* The loop ends with what trimDatabase may leave.
LEMMA EvictionEnds ==
    ASSUME NEW table, NEW time, NEW C \in WithinCount(table, Unexpired(table, time)),
           NEW K, Evicting(table, K, C), LogicalBytes[K] <= MaxBytes
    PROVE  Keep(table, K) \in TrimDatabase(table, time)
<1>1. K \in WithinBytes(table, C)
  BY DEF Evicting, WithinBytes
<1> QED
  BY <1>1 DEF TrimDatabase

\* The steps of a transaction, from the statement that its call is at.
LEMMA TransactionBegins ==
    ASSUME TypeOK, Locking, NEW p \in Procs, BeginImmediate(p)
    PROVE  Transaction(p)'
<1>1. At(p, "begin") /\ Goto(p, "insert") /\ draft' = disk /\ disk' = disk
  BY DEF BeginImmediate
<1>2. call'[p].at = "insert"
  BY <1>1, GotoEffect
<1> QED
  BY <1>1, <1>2 DEF Transaction

\* Full depends on the file, which a transaction finds unchanged, and on what
\* does not change in a call.
LEMMA SameFull ==
    ASSUME NEW p \in Procs, disk' = disk,
           call'[p].id = call[p].id, call'[p].scope = call[p].scope
    PROVE  \A created : Full(p, created)' = Full(p, created)
  BY DEF Full

LEMMA TransactionInserts ==
    ASSUME TypeOK, Locking, Fresh, WholeResponses, NEW p \in Procs, writer = p,
           Transaction(p), InsertResponse(p)
    PROVE  Transaction(p)'
<1> DEFINE c == call[p]
           row == [scope |-> c.scope, expires |-> c.time + Ttl, accessed |-> c.time]
           id == c.id
<1>1. /\ At(p, "insert") /\ Goto(p, "documents")
      /\ Write(p, InsertRow(View(p), id, row))
  BY DEF InsertResponse
<1>2. Storing(p) /\ c.at = "insert" /\ c \in Calls
  BY <1>1, CallType DEF At, Locking
<1>3. draft = disk /\ View(p) = disk
  BY <1>2 DEF Transaction, View
<1>4. disk' = disk /\ draft' = InsertRow(disk, id, row)
  BY <1>1, <1>2, <1>3, WriteEffect
<1>5. /\ call'[p].at = "documents" /\ call'[p].id = id /\ call'[p].time = c.time
      /\ \A created : Full(p, created)' = Full(p, created)
  BY <1>1, <1>4, GotoEffect, SameFull
<1>6. row \in [scope : Scopes, expires : Nat, accessed : Nat] /\ id \in Ids
  BY <1>2, DatabaseAssumption DEF Calls, DatabaseAssumption
<1>7. Full(p, c.time) = Insert(disk.rows, id, row)
  BY DEF Full
<1>8. IsDatabase(disk)
  BY DEF TypeOK
<1> HIDE DEF row, id
<1>9. /\ draft'.rows = Insert(disk.rows, id, row)
      /\ DOMAIN draft'.rows = DOMAIN disk.rows \cup {id}
      /\ \A i \in DOMAIN disk.rows \ {id} : draft'.docs[i] = disk.docs[i]
  BY <1>4, <1>6, <1>8, InsertRowType
<1>10. \A i \in DOMAIN draft'.rows \ {id} : draft'.docs[i] = Documents[i]
  BY <1>9 DEF WholeResponses
<1> QED
  BY <1>5, <1>7, <1>9, <1>10 DEF Transaction

LEMMA TransactionAddsDocument ==
    ASSUME TypeOK, Locking, NEW p \in Procs, writer = p,
           Transaction(p), InsertDocument(p)
    PROVE  Transaction(p)'
<1> DEFINE id == call[p].id
<1>1. /\ At(p, "documents") /\ call' = call
      /\ id \in DOMAIN View(p).rows /\ View(p).docs[id] < Documents[id]
      /\ Write(p, AddDocument(View(p), id))
  BY DEF InsertDocument
<1>2. Storing(p) /\ call[p].at = "documents" /\ View(p) = draft
  BY <1>1 DEF At, Locking, View
<1>3. disk' = disk /\ draft' = AddDocument(draft, id)
  BY <1>1, <1>2, WriteEffect
<1>4. draft.rows = Full(p, call[p].time)
      /\ \A i \in DOMAIN draft.rows \ {id} : draft.docs[i] = Documents[i]
  BY <1>2 DEF Transaction
<1>5. \A created : Full(p, created)' = Full(p, created)
  BY <1>1, <1>3, SameFull
<1>6. IsDatabase(draft)
  BY DEF TypeOK
<1> HIDE DEF id
<1>7. draft'.rows = draft.rows
      /\ \A i \in DOMAIN draft.rows \ {id} : draft'.docs[i] = draft.docs[i]
  BY <1>1, <1>2, <1>3, <1>6, AddDocumentType
<1> QED
  BY <1>1, <1>2, <1>4, <1>5, <1>7 DEF Transaction, id

LEMMA TransactionTrims ==
    ASSUME TypeOK, Locking, Fresh, NEW p \in Procs, writer = p,
           Transaction(p), AfterDocuments(p)
    PROVE  Transaction(p)'
<1> DEFINE c == call[p]
<1>1. /\ At(p, "documents") /\ disk' = disk /\ draft' = draft
      /\ c.id \in DOMAIN draft.rows => draft.docs[c.id] = Documents[c.id]
      /\ call' = [call EXCEPT ![p].at = "expire", ![p].time = now]
  BY DEF AfterDocuments, View
<1>2. c \in Calls /\ c.at = "documents"
  BY <1>1, CallType DEF At
<1>3. /\ call'[p].at = "expire" /\ call'[p].time = now
      /\ call'[p].id = c.id /\ call'[p].scope = c.scope
  BY <1>1, <1>2 DEF TypeOK, Calls
<1>4. draft.rows = Full(p, c.time) /\ Whole(draft)
  BY <1>1, <1>2 DEF Transaction, Whole
<1> QED
  <2>1. c.time \in 0..now
    BY <1>1, <1>2, DatabaseAssumption DEF TypeOK, Fresh, Calls, At, DatabaseAssumption
  <2>2. PICK created \in 0..now : created = c.time
    BY <2>1
  <2>3. Full(p, created)' = Full(p, created) /\ Full(p, created) = Full(p, c.time)
    BY <1>1, <1>3, <2>2, SameFull
  <2> HIDE DEF c
  <2>4. Trimming(p, Full(p, created))'
    BY <1>1, <1>3, <1>4, <2>3 DEF Trimming
  <2>5. Whole(draft')
    BY <1>1, <1>4 DEF Whole
  <2>6. call'[p].at \notin {"insert", "documents"} /\ now' = now
    BY <1>3 DEF AfterDocuments
  <2> QED BY <1>3, <2>4, <2>5, <2>6 DEF Transaction

\* The statements of trimDatabase in a transaction, on the full table.
LEMMA TrimExpires ==
    ASSUME TypeOK, Locking, NEW p \in Procs, writer = p, NEW full, IsTable(full, Scopes),
           Trimming(p, full), DeleteExpired(p)
    PROVE  Trimming(p, full)'
<1> DEFINE live == Unexpired(full, call[p].time)
<1>1. /\ At(p, "expire") /\ Goto(p, "count") /\ View(p) = draft
      /\ Write(p, KeepRows(draft, Unexpired(draft.rows, call[p].time)))
  BY DEF DeleteExpired, View
<1>2. draft' = KeepRows(draft, Unexpired(draft.rows, call[p].time)) /\ draft.rows = full
  BY <1>1, WriteEffect DEF At, Locking, Trimming
<1>3. draft'.rows = Keep(full, live)
  BY <1>2 DEF KeepRows
<1>4. call'[p].at = "count" /\ call'[p].time = call[p].time
  BY <1>1, GotoEffect
<1> QED
  BY <1>3, <1>4 DEF Trimming

LEMMA TrimCounts ==
    ASSUME TypeOK, Locking, NEW p \in Procs, writer = p, NEW full, IsTable(full, Scopes),
           Trimming(p, full), CountRows(p)
    PROVE  Trimming(p, full)'
<1> DEFINE live == Unexpired(full, call[p].time)
           count == Cardinality(live)
<1>1. At(p, "count") /\ View(p) = draft /\ draft' = draft /\ call[p] \in Calls
  BY CallType DEF CountRows, View, At
<1>2. draft.rows = Keep(full, live) /\ DOMAIN draft.rows = live
  BY <1>1 DEF At, Trimming, Keep
<1>3. call' = [call EXCEPT ![p].at = IF count > MaxResponses THEN "evict" ELSE "size",
                           ![p].excess = IF count > MaxResponses
                                         THEN count - MaxResponses ELSE 0]
  BY <1>1, <1>2 DEF CountRows
<1>4. /\ call'[p].time = call[p].time
      /\ call'[p].at = IF count > MaxResponses THEN "evict" ELSE "size"
      /\ call'[p].excess = IF count > MaxResponses THEN count - MaxResponses ELSE 0
  <2> HIDE DEF count
  <2> QED BY <1>1, <1>3 DEF TypeOK, Calls
<1>5. CASE count > MaxResponses
  BY <1>1, <1>2, <1>4, <1>5 DEF Trimming
<1>6. CASE ~ (count > MaxResponses)
  <2>1. call'[p].at = "size"
    BY <1>4, <1>6
  <2>2. live \in WithinCount(full, live)
    BY <1>6 DEF WithinCount, MostRecent
  <2>3. Evicting(full, live, live)
    BY NothingEvicted
  <2> HIDE DEF live
  <2>4. /\ draft'.rows = Keep(full, DOMAIN draft'.rows)
        /\ \E C \in WithinCount(full, live) : Evicting(full, DOMAIN draft'.rows, C)
    BY <1>1, <1>2, <2>2, <2>3
  <2> QED BY <1>4, <2>1, <2>4 DEF Trimming, live
<1> QED BY <1>5, <1>6

LEMMA TrimEvicts ==
    ASSUME TypeOK, Locking, NEW p \in Procs, writer = p, NEW full, IsTable(full, Scopes),
           Trimming(p, full), EvictExcess(p)
    PROVE  Trimming(p, full)'
<1> DEFINE live == Unexpired(full, call[p].time)
           count == Cardinality(live)
<1>1. At(p, "evict") /\ Goto(p, "size") /\ View(p) = draft
  BY DEF EvictExcess, View
<1>2. /\ draft.rows = Keep(full, live) /\ DOMAIN draft.rows = live
      /\ count > MaxResponses /\ call[p].excess = count - MaxResponses
  BY <1>1 DEF At, Trimming, Keep
<1>3. PICK S \in SUBSET live :
        /\ MostRecent(draft.rows, S, live)
        /\ Cardinality(S) = IF call[p].excess > count THEN 0 ELSE count - call[p].excess
        /\ Write(p, KeepRows(draft, S))
  BY <1>1, <1>2 DEF EvictExcess
<1>4. count \in Nat /\ MaxResponses \in Nat
  BY LiveType, TableAssumption DEF TableAssumption
<1>5. Cardinality(S) = MaxResponses
  BY <1>2, <1>3, <1>4
<1>6. MostRecent(full, S, live)
  BY <1>2, <1>3, MostRecentKeep
<1>7. S \in WithinCount(full, live) /\ Evicting(full, S, S)
  BY <1>2, <1>3, <1>5, <1>6, NothingEvicted DEF WithinCount
<1>8. draft' = KeepRows(draft, S)
  BY <1>1, <1>3, WriteEffect DEF At, Locking
<1>9. draft'.rows = Keep(full, S) /\ DOMAIN draft'.rows = S
  BY <1>2, <1>3, <1>8, KeepKeep DEF KeepRows, Keep
<1>10. call'[p].at = "size" /\ call'[p].time = call[p].time
  BY <1>1, GotoEffect
<1> QED
  BY <1>7, <1>9, <1>10 DEF Trimming

LEMMA TrimMeasures ==
    ASSUME TypeOK, Locking, NEW p \in Procs, writer = p, NEW full, IsTable(full, Scopes),
           Trimming(p, full), MeasureSize(p)
    PROVE  Trimming(p, full)'
<1> DEFINE live == Unexpired(full, call[p].time)
           K == DOMAIN draft.rows
<1>1. At(p, "size") /\ View(p) = draft /\ draft' = draft /\ Storing(p)
  BY DEF MeasureSize, View, Locking
<1>2. Goto(p, IF LogicalBytes[K] > MaxBytes THEN "evictOne" ELSE "commit")
  BY <1>1 DEF MeasureSize, Storing
<1>3. /\ call'[p].at = IF LogicalBytes[K] > MaxBytes THEN "evictOne" ELSE "commit"
      /\ call'[p].time = call[p].time
  BY <1>1, <1>2, GotoEffect
<1>4. draft.rows = Keep(full, K) /\ \E C \in WithinCount(full, live) : Evicting(full, K, C)
  BY <1>1 DEF At, Trimming
<1>5. CASE LogicalBytes[K] > MaxBytes
  BY <1>1, <1>3, <1>4, <1>5 DEF Trimming
<1>6. CASE ~ (LogicalBytes[K] > MaxBytes)
  <2>1. LogicalBytes[K] <= MaxBytes
    BY <1>6, TableAssumption DEF TableAssumption, TypeOK, IsDatabase, IsTable
  <2>2. Keep(full, K) \in TrimDatabase(full, call[p].time)
    BY <1>4, <2>1, EvictionEnds
  <2> QED BY <1>1, <1>3, <1>4, <1>6, <2>2 DEF Trimming
<1> QED BY <1>5, <1>6

LEMMA TrimEvictsOne ==
    ASSUME TypeOK, Locking, NEW p \in Procs, writer = p, NEW full, IsTable(full, Scopes),
           Trimming(p, full), EvictLeastRecent(p)
    PROVE  Trimming(p, full)'
<1> DEFINE live == Unexpired(full, call[p].time)
           K == DOMAIN draft.rows
<1>1. At(p, "evictOne") /\ Goto(p, "size") /\ View(p) = draft
  BY DEF EvictLeastRecent, View
<1>2. draft.rows = Keep(full, K) /\ LogicalBytes[K] > MaxBytes
  BY <1>1 DEF At, Trimming
<1>3. PICK C \in WithinCount(full, live) : Evicting(full, K, C)
  BY <1>1 DEF At, Trimming
<1>4. PICK least \in K : /\ MostRecent(draft.rows, K \ {least}, K)
                          /\ Write(p, KeepRows(draft, K \ {least}))
  BY <1>1 DEF EvictLeastRecent
<1>5. C \in SUBSET DOMAIN full
  BY DEF WithinCount, Unexpired
<1>6. Evicting(full, K \ {least}, C)
  BY <1>2, <1>3, <1>4, <1>5, EvictionGoesOn
<1>7. draft' = KeepRows(draft, K \ {least})
  BY <1>1, <1>4, WriteEffect DEF At, Locking
<1>8. draft'.rows = Keep(full, K \ {least}) /\ DOMAIN draft'.rows = K \ {least}
  BY <1>2, <1>7, KeepKeep DEF KeepRows, Keep
<1>9. call'[p].at = "size" /\ call'[p].time = call[p].time
  BY <1>1, GotoEffect
<1> QED
  BY <1>3, <1>6, <1>8, <1>9 DEF Trimming

Trims(p) ==
    \/ DeleteExpired(p) \/ CountRows(p) \/ EvictExcess(p)
    \/ MeasureSize(p) \/ EvictLeastRecent(p)

\* What the statements of a trim have in common.
LEMMA TrimFrame ==
    ASSUME TypeOK, Locking, NEW p \in Procs, writer = p, Whole(draft), Trims(p)
    PROVE  /\ disk' = disk /\ Whole(draft')
           /\ call[p].at \notin {"insert", "documents"}
           /\ call'[p].at \notin {"insert", "documents"}
           /\ call'[p].id = call[p].id /\ call'[p].scope = call[p].scope
           /\ call'[p].time = call[p].time
<1>1. Storing(p) /\ call[p].at # "begin" /\ View(p) = draft /\ IsDatabase(draft)
  BY DEF Locking, View, TypeOK
<1>2. ASSUME NEW from \in {"expire", "count", "evict", "size", "evictOne"}, At(p, from),
             NEW to \in {"count", "evict", "size", "evictOne", "commit"}, Goto(p, to)
      PROVE  /\ call[p].at \notin {"insert", "documents"}
             /\ call'[p].at \notin {"insert", "documents"}
             /\ call'[p].id = call[p].id /\ call'[p].scope = call[p].scope
             /\ call'[p].time = call[p].time
  BY <1>2, GotoEffect DEF At
<1>3. ASSUME NEW S \in SUBSET DOMAIN draft.rows, Write(p, KeepRows(draft, S))
      PROVE  disk' = disk /\ Whole(draft')
  BY <1>1, <1>3, KeepRowsType, WriteEffect
<1>4. CASE DeleteExpired(p)
  <2>1. Unexpired(draft.rows, call[p].time) \in SUBSET DOMAIN draft.rows
    BY DEF Unexpired
  <2> QED BY <1>1, <1>2, <1>3, <1>4, <2>1 DEF DeleteExpired
<1>5. CASE CountRows(p)
  <2>1. disk' = disk /\ draft' = draft /\ At(p, "count") /\ call[p] \in Calls
    BY <1>5, CallType DEF CountRows, At
  <2>2. /\ call'[p].id = call[p].id /\ call'[p].scope = call[p].scope
        /\ call'[p].time = call[p].time /\ call'[p].at \in {"evict", "size"}
    BY <1>5, <2>1 DEF CountRows, TypeOK, Calls
  <2> QED BY <2>1, <2>2 DEF At, Whole
<1>6. CASE EvictExcess(p)
  BY <1>1, <1>2, <1>3, <1>6 DEF EvictExcess
<1>7. CASE MeasureSize(p)
  <2>1. disk' = disk /\ draft' = draft
    BY <1>7 DEF MeasureSize
  <2>2. PICK to \in {"evictOne", "commit"} : At(p, "size") /\ Goto(p, to)
    BY <1>1, <1>7 DEF MeasureSize, Storing
  <2> QED BY <1>2, <2>1, <2>2 DEF Whole
<1>8. CASE EvictLeastRecent(p)
  BY <1>1, <1>2, <1>3, <1>8 DEF EvictLeastRecent
<1> QED
  BY <1>4, <1>5, <1>6, <1>7, <1>8 DEF Trims

LEMMA TransactionTrimStep ==
    ASSUME TypeOK, Locking, NEW p \in Procs, writer = p, Transaction(p), Trims(p)
    PROVE  Transaction(p)'
<1>1. call[p] # Idle /\ call[p] \in Calls
  BY CallType DEF Locking, Storing
<1>2. Whole(draft)
  BY DEF Transaction, Trims, DeleteExpired, CountRows, EvictExcess, MeasureSize,
         EvictLeastRecent, At
<1>3. /\ disk' = disk /\ Whole(draft')
      /\ call[p].at \notin {"insert", "documents"}
      /\ call'[p].at \notin {"insert", "documents"}
      /\ call'[p].id = call[p].id /\ call'[p].scope = call[p].scope
      /\ call'[p].time = call[p].time
  BY <1>2, TrimFrame
<1>4. PICK created \in 0..call[p].time : Trimming(p, Full(p, created))
  BY <1>3 DEF Transaction
<1>5. created \in Nat
  BY <1>1 DEF Calls
<1>6. PICK full : full = Full(p, created)
  OBVIOUS
<1>7. IsTable(full, Scopes) /\ Trimming(p, full)
  BY <1>1, <1>4, <1>5, <1>6, FullType
<1>8. Trimming(p, full)'
  BY <1>7, TrimExpires, TrimCounts, TrimEvicts, TrimMeasures, TrimEvictsOne DEF Trims
<1>9. Full(p, created)' = full
  BY <1>3, <1>6, SameFull
<1> QED
  BY <1>3, <1>4, <1>8, <1>9 DEF Transaction

LEMMA TransactionsStep ==
    ASSUME TypeOK, Locking, Fresh, WholeResponses, Transactions, [Next]_vars
    PROVE  Transactions'
<1>e. NoProc \notin Procs
  BY DatabaseAssumption DEF DatabaseAssumption
<1>a. ASSUME NEW q \in Procs, writer = q, draft' = draft, disk' = disk, call'[q] = call[q]
      PROVE  Transaction(q)'
  <2>1. Transaction(q)
    BY <1>a DEF Transactions
  <2>2. \A created : Full(q, created)' = Full(q, created)
    BY <1>a, SameFull
  <2>3. ASSUME NEW full, Trimming(q, full) PROVE Trimming(q, full)'
    BY <1>a, <2>3 DEF Trimming
  <2>4. call[q].at \notin {"insert", "documents"} =>
          \E created \in 0..call'[q].time : Trimming(q, Full(q, created))'
    <3>1. SUFFICES ASSUME call[q].at \notin {"insert", "documents"}
                   PROVE \E created \in 0..call'[q].time : Trimming(q, Full(q, created))'
      OBVIOUS
    <3>2. PICK created \in 0..call[q].time : Trimming(q, Full(q, created))
      BY <2>1, <3>1 DEF Transaction
    <3>3. PICK full : full = Full(q, created)
      OBVIOUS
    <3>4. Trimming(q, full)' /\ Full(q, created)' = full
      BY <2>2, <2>3, <3>2, <3>3
    <3> QED BY <1>a, <3>2, <3>4
  <2> QED BY <1>a, <2>1, <2>2, <2>4 DEF Transaction, Whole
<1>b. ASSUME NEW p \in Procs, writer' = p => Transaction(p)',
             \A q \in Procs \ {p} : writer' # q PROVE Transactions'
  BY <1>b DEF Transactions
<1>c. ASSUME NEW p \in Procs, writer' = writer, writer # p, draft' = draft,
             writer # NoProc => disk' = disk, \A q \in Procs \ {p} : call'[q] = call[q]
      PROVE  Transactions'
  BY <1>a, <1>c, <1>e DEF Transactions
<1>1. ASSUME NEW p \in Procs, Step(p) \/ Fail(p) PROVE Transactions'
  <2>1. CASE BeginImmediate(p)
    BY <1>b, <2>1, TransactionBegins DEF BeginImmediate
  <2>2. CASE ~ BeginImmediate(p) /\ writer # p
    BY <1>1, <1>c, <2>2, Bystander
  <2>3. CASE ~ BeginImmediate(p) /\ writer = p
    <3>a. Storing(p) /\ call[p].at # "begin" /\ Transaction(p)
      BY <2>3 DEF Locking, Transactions
    <3>1. CASE InsertResponse(p)
      BY <1>b, <2>3, <3>1, <3>a, TransactionInserts DEF InsertResponse
    <3>2. CASE InsertDocument(p)
      BY <1>b, <2>3, <3>2, <3>a, TransactionAddsDocument DEF InsertDocument
    <3>3. CASE AfterDocuments(p)
      BY <1>b, <2>3, <3>3, <3>a, TransactionTrims DEF AfterDocuments
    <3>4. CASE Trims(p)
      <4>1. writer' = p
        BY <2>3, <3>4 DEF Trims, DeleteExpired, CountRows, EvictExcess, MeasureSize,
                          EvictLeastRecent
      <4> QED BY <1>b, <2>3, <3>4, <3>a, <4>1, TransactionTrimStep
    <3>5. CASE Commit(p) \/ Fail(p)
      BY <1>b, <1>e, <2>3, <3>5 DEF Commit, Fail
    <3>6. ~ SelectRow(p) /\ ~ TouchRow(p) /\ ~ Busy(p)
      BY <2>3, <3>a DEF SelectRow, TouchRow, Busy, At, Locking
    <3> QED BY <1>1, <2>3, <3>1, <3>2, <3>3, <3>4, <3>5, <3>6 DEF Step, Trims
  <2> QED BY <2>1, <2>2, <2>3
<1>2. ASSUME NEW p \in Procs, NEW id \in Ids, NEW scope \in Scopes,
             StartStore(p, id, scope) \/ StartLoad(p, id, scope)
      PROVE  Transactions'
  <2>1. /\ writer' = writer /\ call[p] = Idle /\ draft' = draft /\ disk' = disk
        /\ \A q \in Procs \ {p} : call'[q] = call[q]
    BY <1>2 DEF StartStore, StartLoad, TypeOK
  <2>2. writer # p
    BY <2>1 DEF Locking, Storing
  <2> QED BY <1>c, <2>1, <2>2
<1>3. CASE Tick \/ UNCHANGED vars
  BY <1>3, <1>a DEF Tick, vars, Transactions
<1> QED
  BY <1>1, <1>2, <1>3 DEF Next

-----------------------------------------------------------------------------
(* What is committed.                                                       *)

Row(p, created) ==
    [scope |-> call[p].scope, expires |-> created + Ttl, accessed |-> created]

LEMMA CommitOutcome ==
    ASSUME TypeOK, Locking, Transactions, NEW p \in Procs, Commit(p)
    PROVE  /\ writer = p /\ Storing(p) /\ disk' = draft /\ Whole(draft)
           /\ DOMAIN draft.rows \subseteq DOMAIN disk.rows \cup {call[p].id}
           /\ WithinBounds(draft.rows)
           /\ \E created \in 0..call[p].time :
                draft.rows \in PersistStoredContent(disk.rows, call[p].id,
                                                   Row(p, created), call[p].time)
<1>1. At(p, "commit") /\ disk' = draft /\ call[p] \in Calls /\ call[p] # Idle
  BY CallType DEF Commit, At
<1>2. Storing(p) /\ writer = p
  BY <1>1 DEF At, Storing, Locking, Loading, Calls
<1>3. Whole(draft)
  BY <1>1, <1>2 DEF Transactions, Transaction, At
<1>4. PICK created \in 0..call[p].time : Trimming(p, Full(p, created))
  BY <1>1, <1>2 DEF Transactions, Transaction, At
<1>5. created \in Nat /\ call[p].time \in Nat
  BY <1>1 DEF Calls
<1>6. draft.rows \in TrimDatabase(Full(p, created), call[p].time)
  BY <1>1, <1>4 DEF Trimming, At
<1>7. IsTable(Full(p, created), Scopes)
      /\ DOMAIN Full(p, created) = DOMAIN disk.rows \cup {call[p].id}
  BY <1>1, <1>5, FullType
<1>8. /\ WithinBounds(draft.rows)
      /\ DOMAIN draft.rows \subseteq DOMAIN Full(p, created)
  <2> DEFINE full == Full(p, created)
             rows == draft.rows
             time == call[p].time
  <2> HIDE DEF full, rows, time
  <2>1. IsTable(full, Scopes) /\ time \in Nat /\ rows \in TrimDatabase(full, time)
    BY <1>5, <1>6, <1>7 DEF full, rows, time
  <2>2. WithinBounds(rows) /\ DOMAIN rows \subseteq Unexpired(full, time)
    BY <2>1, TrimOutcome
  <2>3. Unexpired(full, time) \subseteq DOMAIN full
    BY DEF Unexpired
  <2> QED BY <2>2, <2>3 DEF full, rows
<1>9. draft.rows \in PersistStoredContent(disk.rows, call[p].id, Row(p, created),
                                         call[p].time)
  BY <1>6 DEF PersistStoredContent, Full, Row
<1> QED
  BY <1>1, <1>2, <1>3, <1>7, <1>8, <1>9

LEMMA CommittedStep ==
    ASSUME TypeOK, Locking, Transactions, CommittedWithinBounds, WholeResponses, [Next]_vars
    PROVE  CommittedWithinBounds' /\ WholeResponses'
<1> DEFINE rows == disk.rows
<1>1. IsDatabase(disk) /\ IsTable(rows, Scopes)
  BY DEF TypeOK, IsDatabase
<1>2. CASE disk' = disk
  BY <1>2 DEF CommittedWithinBounds, WholeResponses
<1>3. ASSUME NEW p \in Procs, Commit(p) PROVE CommittedWithinBounds' /\ WholeResponses'
  BY <1>3, CommitOutcome DEF CommittedWithinBounds, WholeResponses, Whole
<1>4. ASSUME NEW S \in SUBSET DOMAIN rows, disk' = KeepRows(disk, S)
      PROVE  CommittedWithinBounds' /\ WholeResponses'
  <2>1. Whole(disk) /\ WithinBounds(rows)
    BY DEF WholeResponses, Whole, CommittedWithinBounds
  <2>2. disk'.rows = Keep(rows, S) /\ Whole(disk')
    BY <1>1, <1>4, <2>1, KeepRowsType
  <2>3. WithinBounds(Keep(rows, S))
    <3> HIDE DEF rows
    <3> QED BY <1>1, <2>1, KeepType
  <2> QED BY <2>2, <2>3 DEF CommittedWithinBounds, WholeResponses, Whole
<1>5. ASSUME NEW S, NEW t \in Nat, disk' = TouchRows(disk, S, t)
      PROVE  CommittedWithinBounds' /\ WholeResponses'
  <2>1. disk'.rows = Touch(rows, S, t) /\ disk'.docs = disk.docs
    BY <1>5 DEF TouchRows
  <2>2. DOMAIN Touch(rows, S, t) = DOMAIN rows
    BY DEF Touch
  <2> QED BY <2>1, <2>2 DEF CommittedWithinBounds, WholeResponses, WithinBounds
<1>6. ASSUME NEW p \in Procs, DiskChange(p)
      PROVE  CommittedWithinBounds' /\ WholeResponses'
  <2>1. Unexpired(rows, call[p].time) \in SUBSET DOMAIN rows
    BY DEF Unexpired
  <2>2. Loading(p) => call[p].time \in Nat
    BY CallType DEF Loading, Calls
  <2> QED BY <1>3, <1>4, <1>5, <1>6, <2>1, <2>2 DEF DiskChange
<1> QED
  BY <1>2, <1>6, DiskStep

-----------------------------------------------------------------------------
(* Handles are used once.                                                   *)

LEMMA DiskRows ==
    ASSUME TypeOK, Locking, Transactions, [Next]_vars
    PROVE  \/ DOMAIN disk'.rows \subseteq DOMAIN disk.rows
           \/ \E p \in Procs : /\ Storing(p) /\ Commit(p)
                              /\ DOMAIN disk'.rows \subseteq DOMAIN disk.rows \cup {call[p].id}
<1>1. ASSUME NEW p \in Procs, DiskChange(p), ~ Commit(p)
      PROVE  DOMAIN disk'.rows \subseteq DOMAIN disk.rows
  BY <1>1 DEF DiskChange, KeepRows, Keep, TouchRows, Touch, Unexpired
<1> QED
  BY <1>1, DiskStep, CommitOutcome

\* A call that goes on is for the same handle, and its time is no later than now.
Continues(q) ==
    /\ call[q] # Idle
    /\ call'[q].job = call[q].job /\ call'[q].id = call[q].id
    /\ call'[q].time \in {call[q].time, now}

Starts ==
    \E p \in Procs, id \in Ids, scope \in Scopes :
        StartStore(p, id, scope) \/ StartLoad(p, id, scope)

LEMMA CallStep ==
    ASSUME TypeOK, [Next]_vars, ~ Starts
    PROVE  used' = used /\ \A q \in Procs : call'[q] = Idle \/ Continues(q)
<1> DEFINE Goal == used' = used /\ \A q \in Procs : call'[q] = Idle \/ Continues(q)
<1>1. ASSUME UNCHANGED <<call, used>> PROVE Goal
  BY <1>1 DEF Continues
<1>2. ASSUME NEW p \in Procs, NEW from, At(p, from), NEW to, Goto(p, to), used' = used
      PROVE  Goal
  <2>1. ASSUME NEW q \in Procs \ {p} PROVE call'[q] = call[q]
    BY <1>2, GotoEffect
  <2>2. Continues(p)
    BY <1>2, GotoEffect DEF Continues, At
  <2> QED BY <1>2, <2>1, <2>2 DEF Continues
<1>3. ASSUME NEW p \in Procs, Return(p), used' = used PROVE Goal
  BY <1>3, ReturnEffect DEF Continues
<1>4. ASSUME NEW p \in Procs, Step(p) PROVE Goal
  <2>1. CASE AfterDocuments(p)
    <3>1. call[p] \in Calls /\ call[p] # Idle
      BY <2>1, CallType DEF AfterDocuments, At
    <3>2. /\ Continues(p) /\ \A q \in Procs \ {p} : call'[q] = call[q]
      BY <2>1, <3>1 DEF AfterDocuments, TypeOK, Calls, Continues
    <3> QED BY <2>1, <3>2 DEF AfterDocuments, Continues
  <2>2. CASE CountRows(p)
    <3>1. call[p] \in Calls /\ call[p] # Idle
      BY <2>2, CallType DEF CountRows, At
    <3>2. /\ Continues(p) /\ \A q \in Procs \ {p} : call'[q] = call[q]
      BY <2>2, <3>1 DEF CountRows, TypeOK, Calls, Continues
    <3> QED BY <2>2, <3>2 DEF CountRows, Continues
  <2>3. CASE SelectRow(p)
    BY <2>3, <1>2, <1>3 DEF SelectRow
  <2> QED
    BY <1>1, <1>2, <1>3, <1>4, <2>1, <2>2, <2>3
       DEF Step, BeginImmediate, InsertResponse, InsertDocument, Commit, DeleteExpired,
           EvictExcess, MeasureSize, EvictLeastRecent, TouchRow, Busy
<1> QED
  BY <1>1, <1>3, <1>4 DEF Next, Starts, Tick, Fail, vars

LEMMA NowStep == TypeOK /\ [Next]_vars => now' >= now /\ now \in Nat /\ now' \in Nat
<1> SUFFICES ASSUME TypeOK, [Next]_vars PROVE now' \in {now, now + 1} /\ now \in Nat
  OBVIOUS
<1>1. now \in Nat
  BY DatabaseAssumption DEF TypeOK, DatabaseAssumption
<1>2. ASSUME NEW p \in Procs, Step(p) PROVE now' = now
  BY <1>2 DEF Step, BeginImmediate, InsertResponse, InsertDocument, AfterDocuments, Commit,
              DeleteExpired, CountRows, EvictExcess, MeasureSize, EvictLeastRecent,
              SelectRow, TouchRow, Busy
<1> QED
  BY <1>1, <1>2 DEF Next, Tick, StartStore, StartLoad, Fail, vars

LEMMA FreshStep ==
    ASSUME TypeOK, Locking, Fresh, Transactions, [Next]_vars
    PROVE  Fresh'
<1>1. now' >= now /\ now \in Nat /\ now' \in Nat
  BY NowStep
<1>2. \A q \in Procs : call[q] # Idle => call[q].time \in Nat
  BY CallType DEF Calls
<1>3. CASE Starts
  <2>1. PICK p \in Procs, id \in Ids, scope \in Scopes :
          StartStore(p, id, scope) \/ StartLoad(p, id, scope)
    BY <1>3 DEF Starts
  <2>2. /\ disk' = disk /\ now' = now /\ call[p] = Idle
        /\ \A q \in Procs \ {p} : call'[q] = call[q]
        /\ call'[p].id = id /\ call'[p].time = now
        /\ \/ call'[p].job = "store" /\ id \notin used /\ used' = used \cup {id}
           \/ call'[p].job = "load" /\ id \in used /\ used' = used
    BY <2>1 DEF StartStore, StartLoad, TypeOK
  <2> QED BY <1>1, <2>2 DEF Fresh, Storing
<1>4. CASE ~ Starts
  <2>1. used' = used /\ \A q \in Procs : call'[q] = Idle \/ Continues(q)
    BY <1>4, CallStep
  <2>2. \A q \in Procs : call'[q] # Idle => call'[q].time <= now' /\ call'[q].id \in used'
    BY <1>1, <1>2, <2>1 DEF Continues, Fresh
  <2>3. \A q \in Procs : Storing(q)' => Storing(q) /\ call'[q].id = call[q].id
    BY <2>1 DEF Continues, Storing
  <2>4. \A p, q \in Procs : Storing(p)' /\ Storing(q)' /\ call'[q].id = call'[p].id => q = p
    BY <2>3 DEF Fresh
  <2>5. CASE DOMAIN disk'.rows \subseteq DOMAIN disk.rows
    BY <2>1, <2>2, <2>3, <2>4, <2>5 DEF Fresh
  <2>6. ASSUME NEW p \in Procs, Storing(p), Commit(p),
               DOMAIN disk'.rows \subseteq DOMAIN disk.rows \cup {call[p].id}
        PROVE  Fresh'
    <3>1. call'[p] = Idle
      BY <2>6, ReturnEffect DEF Commit
    <3>2. \A q \in Procs : Storing(q)' => q # p /\ call'[q].id # call[p].id
      BY <2>3, <2>6, <3>1 DEF Fresh, Storing
    <3>3. DOMAIN disk'.rows \subseteq used'
      BY <2>1, <2>6 DEF Fresh, Storing
    <3>4. \A q \in Procs : Storing(q)' => call'[q].id \notin DOMAIN disk'.rows
      BY <2>3, <2>6, <3>2 DEF Fresh
    <3> QED BY <2>2, <2>4, <3>3, <3>4 DEF Fresh
  <2> QED BY <2>5, <2>6, DiskRows
<1> QED BY <1>3, <1>4

-----------------------------------------------------------------------------
(* Theorems.                                                                *)

LEMMA IInvInit == Init => IInv
<1> SUFFICES ASSUME Init PROVE IInv
  OBVIOUS
<1>1. /\ writer = NoProc /\ disk = Empty /\ \A p \in Procs : call[p] = Idle
  BY DEF Init
<1>2. TypeOK
  BY TypeInit
<1>3. Locking /\ Transactions
  BY <1>1, DatabaseAssumption DEF DatabaseAssumption, Locking, Storing, Loading, Transactions
<1>4. Fresh
  BY <1>1, EmptyType DEF Fresh, Storing
<1>5. CommittedWithinBounds /\ WholeResponses
  BY <1>1, EmptyType DEF CommittedWithinBounds, WholeResponses
<1> QED BY <1>2, <1>3, <1>4, <1>5 DEF IInv

LEMMA IInvStep == IInv /\ [Next]_vars => IInv'
  BY TypeStep, LockingStep, FreshStep, TransactionsStep, CommittedStep DEF IInv

LEMMA DatabaseInvariance == Spec => []IInv
  BY IInvInit, IInvStep, PTL DEF Spec

\* CommittedWithinBounds: what others can see never exceeds the count or the
\* byte bound, at any point between two statements of any processes.
THEOREM CommittedBounded == Spec => []CommittedWithinBounds
<1>1. IInv => CommittedWithinBounds
  BY DEF IInv
<1> QED BY <1>1, DatabaseInvariance, PTL

\* WholeResponses: no committed response lacks a document, whichever statement
\* fails and whenever a process dies.
THEOREM CommittedWhole == Spec => []WholeResponses
<1>1. IInv => WholeResponses
  BY DEF IInv
<1> QED BY <1>1, DatabaseInvariance, PTL

-----------------------------------------------------------------------------
(* The refinement of AtomicTable.                                           *)

LEMMA AtomicInit == Init => Atomic!AInit
  BY DEF Init, Atomic!AInit, Empty

\* The operators on tables are those of ResponseTable on either level.
LEMMA SameOperators ==
    /\ \A table, S : Atomic!Keep(table, S) = Keep(table, S)
    /\ \A table, time : Atomic!Unexpired(table, time) = Unexpired(table, time)
    /\ \A table, S, time : Atomic!Touch(table, S, time) = Touch(table, S, time)
    /\ \A table, id, row, time :
         Atomic!PersistStoredContent(table, id, row, time)
           = PersistStoredContent(table, id, row, time)
<1>1. \A table, S : Atomic!Keep(table, S) = Keep(table, S)
  BY DEF Atomic!Keep, Keep
<1>2. \A table, time : Atomic!Unexpired(table, time) = Unexpired(table, time)
  BY DEF Atomic!Unexpired, Unexpired
<1>3. \A table, S, time : Atomic!Touch(table, S, time) = Touch(table, S, time)
  BY DEF Atomic!Touch, Touch
<1>4. \A table, R, S : Atomic!MostRecent(table, R, S) = MostRecent(table, R, S)
  BY DEF Atomic!MostRecent, MostRecent
<1>5. \A table, S : Atomic!WithinCount(table, S) = WithinCount(table, S)
  <2>1. \A S : Atomic!Cardinality(S) = Cardinality(S)
    BY DEF Atomic!Cardinality, Cardinality
  <2> QED BY <1>4, <2>1 DEF Atomic!WithinCount, WithinCount
<1>6. \A table, S : Atomic!WithinBytes(table, S) = WithinBytes(table, S)
  BY <1>4 DEF Atomic!WithinBytes, WithinBytes
<1>7. \A table, time : Atomic!TrimDatabase(table, time) = TrimDatabase(table, time)
  BY <1>1, <1>2, <1>5, <1>6 DEF Atomic!TrimDatabase, TrimDatabase
<1>8. \A table, id, row : Atomic!Insert(table, id, row) = Insert(table, id, row)
  BY DEF Atomic!Insert, Insert
<1> QED
  BY <1>1, <1>2, <1>3, <1>7, <1>8 DEF Atomic!PersistStoredContent, PersistStoredContent

\* A commit is a store, the DELETE of a load an expiry, its UPDATE a touch.
LEMMA AtomicStep == IInv /\ [Next]_vars => [Atomic!ANext]_Atomic!avars
<1> SUFFICES ASSUME IInv, [Next]_vars PROVE [Atomic!ANext]_Atomic!avars
  OBVIOUS
<1> USE DEF IInv
<1>a. \A p \in Procs : call[p] # Idle =>
        /\ call[p].time \in 0..MaxTime /\ call[p].time <= now
        /\ call[p].id \in Ids /\ call[p].scope \in Scopes
  BY CallType, DatabaseAssumption DEF TypeOK, Calls, Fresh, DatabaseAssumption
<1>1. CASE Tick
  BY <1>1 DEF Tick, Atomic!ANext, Atomic!ATick
<1>2. ASSUME ~ Tick PROVE now' = now
  BY <1>2 DEF Next, Step, BeginImmediate, InsertResponse, InsertDocument, AfterDocuments,
              Commit, DeleteExpired, CountRows, EvictExcess, MeasureSize,
              EvictLeastRecent, SelectRow, TouchRow, Busy, StartStore, StartLoad, Fail, vars
<1>3. ASSUME NEW p \in Procs, Commit(p) PROVE Atomic!ANext
  <2>1. PICK created \in 0..call[p].time :
          draft.rows \in PersistStoredContent(disk.rows, call[p].id, Row(p, created),
                                             call[p].time)
    BY <1>3, CommitOutcome
  <2>2. /\ disk' = draft /\ now' = now /\ call[p] # Idle
        /\ call[p].id \notin DOMAIN disk.rows
    BY <1>3, CommitOutcome DEF Commit, Fresh, Storing
  <2>3. created \in 0..MaxTime /\ created <= call[p].time
    BY <1>a, <2>2, DatabaseAssumption DEF DatabaseAssumption
  <2>4. Atomic!AStore(call[p].id, call[p].scope, created, call[p].time)
    BY <1>a, <2>1, <2>2, <2>3, SameOperators DEF Atomic!AStore, Row
  <2> QED BY <1>a, <2>2, <2>3, <2>4 DEF Atomic!ANext
<1>4. ASSUME NEW p \in Procs, DiskChange(p), ~ Commit(p), now' = now
      PROVE  [Atomic!ANext]_Atomic!avars
  <2>1. call[p] # Idle
    BY <1>4 DEF DiskChange, Loading
  <2>2. CASE disk' = KeepRows(disk, Unexpired(disk.rows, call[p].time))
    <3>1. disk'.rows = Keep(disk.rows, Unexpired(disk.rows, call[p].time))
      BY <2>2 DEF KeepRows
    <3>2. Atomic!AExpire(call[p].time)
      BY <1>a, <1>4, <2>1, <3>1, SameOperators DEF Atomic!AExpire
    <3> QED BY <1>a, <2>1, <3>2 DEF Atomic!ANext
  <2>3. CASE disk' = TouchRows(disk, RowsOf(disk.rows, {call[p].id}, call[p].scope),
                               call[p].time)
    <3> DEFINE found == RowsOf(disk.rows, {call[p].id}, call[p].scope)
    <3>1. disk'.rows = Touch(disk.rows, found, call[p].time)
      BY <2>3 DEF TouchRows
    <3>2. found \in {{}, {call[p].id}} /\ found \subseteq DOMAIN disk.rows
      BY DEF RowsOf
    <3>3. CASE found = {}
      <4>1. Touch(disk.rows, {}, call[p].time) = disk.rows
        BY DEF Touch, TypeOK, IsDatabase, IsTable
      <4> QED BY <1>4, <3>1, <3>3, <4>1 DEF Atomic!avars
    <3>4. CASE found = {call[p].id}
      <4>1. Atomic!ATouch(call[p].id, call[p].time)
        BY <1>a, <1>4, <2>1, <3>1, <3>2, <3>4, SameOperators DEF Atomic!ATouch
      <4> QED BY <1>a, <2>1, <4>1 DEF Atomic!ANext
    <3> QED BY <3>2, <3>3, <3>4
  <2> QED BY <1>4, <2>2, <2>3 DEF DiskChange
<1>5. CASE ~ Tick
  <2>1. CASE disk' = disk
    BY <1>2, <1>5, <2>1 DEF Atomic!avars
  <2> QED BY <1>2, <1>3, <1>4, <1>5, <2>1, DiskStep
<1> QED BY <1>1, <1>5

\* ImplementsAtomicTable: statement by statement, and with statements of other
\* processes in between, the committed rows change only by whole stores, by
\* expiry and by touches.
THEOREM DatabaseRefinement == Spec => ImplementsAtomicTable
  BY AtomicInit, AtomicStep, DatabaseInvariance, PTL
     DEF Spec, ImplementsAtomicTable, Atomic!ASpec

-----------------------------------------------------------------------------
(***************************************************************************)
(* db() and schema(), which have a model of their own: for any number of    *)
(* processes and failures.                                                  *)
(***************************************************************************)
OpeningSteps == {"closed", "open", "chmod", "version", "tables", "alter", "finish", "ready"}

\* A process is beyond a step of the code, which no other process undoes; and a
\* database of the release before has its tables.
Passed ==
    /\ at \in [Procs -> OpeningSteps]
    /\ version = 1 => tables
    /\ \A p \in Procs :
         /\ at[p] \in {"version", "tables", "alter", "finish", "ready"} => file = "private"
         /\ at[p] \in {"alter", "finish", "ready"} => tables
         /\ at[p] = "ready" => column /\ version = 2

LEMMA InitPassed == Opening!Init => Passed
  BY DEF Opening!Init, Passed, OpeningSteps

LEMMA StepPassed == Passed /\ [Opening!Next]_Opening!vars => Passed'
<1> SUFFICES ASSUME Passed, [Opening!Next]_Opening!vars PROVE Passed'
  OBVIOUS
<1> USE DEF Passed, OpeningSteps, Opening!Goto
<1>1. ASSUME NEW p \in Procs, Opening!Step(p) PROVE Passed'
  <2>1. CASE Opening!Validate(p)
    BY <2>1 DEF Opening!Validate
  <2>2. CASE Opening!OpenFile(p)
    BY <2>2 DEF Opening!OpenFile
  <2>3. CASE Opening!Chmod(p)
    BY <2>3 DEF Opening!Chmod
  <2>4. CASE Opening!ReadVersion(p)
    BY <2>4 DEF Opening!ReadVersion
  <2>5. CASE Opening!CreateTables(p)
    BY <2>5 DEF Opening!CreateTables
  <2>6. CASE Opening!AddColumn(p)
    BY <2>6 DEF Opening!AddColumn
  <2>7. CASE Opening!Finish(p)
    BY <2>7 DEF Opening!Finish
  <2> QED BY <1>1, <2>1, <2>2, <2>3, <2>4, <2>5, <2>6, <2>7 DEF Opening!Step
<1>2. ASSUME NEW p \in Procs, Opening!Fail(p) PROVE Passed'
  BY <1>2 DEF Opening!Fail
<1>3. CASE UNCHANGED Opening!vars
  BY <1>3 DEF Opening!vars
<1> QED BY <1>1, <1>2, <1>3 DEF Opening!Next

\* db() and schema() as run by any number of processes, and cut off anywhere: a
\* process that gets to their end has a private file with the whole schema.
THEOREM OpenedDatabase == Opening!Spec => []OpenedIsComplete
<1>1. Passed => OpenedIsComplete
  BY DEF Passed, OpenedIsComplete, Opening!OpenedIsComplete
<1> QED BY <1>1, InitPassed, StepPassed, PTL DEF Opening!Spec

\* Processes that create or migrate the file at the same time do not make it
\* unopenable: that takes a failure between two of the statements.
THEOREM OnlyFailuresClose == Opening!Spec => UnopenableByFailureOnly
<1>1. ASSUME Passed, [Opening!Next]_Opening!vars, ~ Opening!Unopenable, Opening!Unopenable'
      PROVE  \E p \in Procs : at[p] \in {"open", "chmod", "finish"} /\ Opening!Fail(p)
  <2>1. PICK q \in Procs : Opening!Step(q) \/ Opening!Fail(q)
    BY <1>1 DEF Opening!Next, Opening!vars, Opening!Unopenable
  <2> USE <1>1 DEF Passed, Opening!Unopenable, Opening!Goto
  <2>2. CASE Opening!Validate(q)
    BY <2>2 DEF Opening!Validate
  <2>3. CASE Opening!OpenFile(q)
    BY <2>3 DEF Opening!OpenFile
  <2>4. CASE Opening!Chmod(q)
    BY <2>4 DEF Opening!Chmod
  <2>5. CASE Opening!ReadVersion(q)
    BY <2>5 DEF Opening!ReadVersion
  <2>6. CASE Opening!CreateTables(q)
    BY <2>6 DEF Opening!CreateTables
  <2>7. CASE Opening!AddColumn(q)
    BY <2>7 DEF Opening!AddColumn
  <2>8. CASE Opening!Finish(q)
    BY <2>8 DEF Opening!Finish
  <2>9. CASE Opening!Fail(q)
    <3>1. at[q] \in {"open", "chmod", "finish"}
      BY <2>9 DEF Opening!Fail
    <3> QED BY <2>9, <3>1
  <2> QED BY <2>1, <2>2, <2>3, <2>4, <2>5, <2>6, <2>7, <2>8, <2>9 DEF Opening!Step
<1>2. Passed /\ [Opening!Next]_Opening!vars =>
        [~ Opening!Unopenable /\ Opening!Unopenable' =>
           \E p \in Procs : at[p] \in {"open", "chmod", "finish"} /\ Opening!Fail(p)]_Opening!vars
  BY <1>1
<1> QED
  BY <1>2, InitPassed, StepPassed, PTL DEF Opening!Spec, UnopenableByFailureOnly,
                             Opening!UnopenableByFailureOnly
=============================================================================
