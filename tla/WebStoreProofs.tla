--------------------------- MODULE WebStoreProofs ---------------------------
(***************************************************************************)
(* Proofs about WebStore for any agents, processes, sessions, handles and   *)
(* bounds.  The inductive invariant IInv is the conjunction of the named    *)
(* parts below.  What a step does to the table is summarised once: every    *)
(* load, restore and failed store only trims and touches (LoadEffect), and  *)
(* only Persist adds a row or evicts (PersistEffect).                       *)
(***************************************************************************)
EXTENDS WebStore, ResponseTableProofs

Created == {id \in Ids : content[id] # NoContent}

\* Handles are only known once their content exists.
Known ==
    /\ issued \subseteq Created
    /\ \A s \in Sessions : log[s] \subseteq Created
    /\ \A p \in Procs : results[p] \subseteq Created
    /\ DOMAIN table \subseteq Created

\* A handle's scope is that of the session its operation began in.
ScopeOfOwner ==
    \A id \in Created : content[id].scope = SessionScope(content[id].owner)

\* A row carries the scope and expiry of its response.
RowsMatch ==
    \A id \in DOMAIN table :
        /\ table[id].scope = content[id].scope
        /\ table[id].expires = content[id].expires

\* The generation of an agent that left its operation's session has moved on.
Generations ==
    \A a \in Agents : op[a] # NoOperation =>
        /\ op[a].generation <= gen[a]
        /\ a \in left => op[a].generation < gen[a]

-----------------------------------------------------------------------------
(* What steps do to the table.                                              *)

LoadEffect ==
    /\ IsTable(table', Scopes)
    /\ DOMAIN table' \subseteq DOMAIN table
    /\ \A id \in DOMAIN table' :
         /\ table'[id].scope = table[id].scope
         /\ table'[id].expires = table[id].expires
    /\ WithinBounds(table) =>
         /\ WithinBounds(table')
         /\ \A id \in DOMAIN table \ DOMAIN table' : table[id].expires <= now

\* A trim, with or without a touch after it, only takes expired rows from a
\* table within the bounds.
LEMMA TrimThenTouch ==
    ASSUME TypeOK, NEW t \in TrimDatabase(table, now), NEW S,
           table' = t \/ table' = Touch(t, S, now)
    PROVE  LoadEffect /\ DOMAIN table' = DOMAIN t
<1>1. IsTable(table, Scopes) /\ now \in Nat
  BY DEF TypeOK
<1>2. /\ IsTable(t, Scopes)
      /\ DOMAIN t \subseteq Unexpired(table, now)
      /\ \A id \in DOMAIN t : t[id] = table[id]
      /\ WithinBounds(t)
  BY <1>1, TrimOutcome
<1>3. WithinBounds(table) => DOMAIN t = Unexpired(table, now)
  BY <1>1, TrimOfBounded
<1>4. /\ IsTable(table', Scopes)
      /\ DOMAIN table' = DOMAIN t
      /\ \A id \in DOMAIN t : /\ table'[id].scope = t[id].scope
                             /\ table'[id].expires = t[id].expires
      /\ WithinBounds(table')
  <2>1. CASE table' = t
    BY <2>1, <1>2
  <2>2. CASE table' = Touch(t, S, now)
    BY <2>2, <1>1, <1>2, TouchOutcome
  <2> QED
    BY <2>1, <2>2
<1>5. \A id \in DOMAIN table : table[id].expires \in Nat
  BY <1>1 DEF IsTable
<1> QED
  BY <1>1, <1>2, <1>3, <1>4, <1>5 DEF LoadEffect, Unexpired

LEMMA SameTable ==
    ASSUME TypeOK, table' = table PROVE LoadEffect
  BY DEF LoadEffect, TypeOK

\* A restore, complete or not, takes nothing into results but rows of the table.
LEMMA RestoreEffect ==
    ASSUME TypeOK, NEW a \in Agents, RestoreSession(a) \/ RestoreSessionFails(a)
    PROVE  /\ LoadEffect
           /\ results' \in [Procs -> SUBSET Ids]
           /\ \A p \in Procs : results'[p] \subseteq results[p] \cup DOMAIN table'
<1> DEFINE p == ProcOf[a]
           scope == SessionScope(host[a])
           outside == OutsideScope(p, scope)
           FromTable == /\ LoadEffect
                        /\ results' \in [Procs -> SUBSET Ids]
                        /\ \A q \in Procs : results'[q] \subseteq results[q] \cup DOMAIN table'
<1>1. p \in Procs /\ results \in [Procs -> SUBSET Ids]
  BY StoreAssumption DEF StoreAssumption, TypeOK
<1>2. outside \subseteq results[p]
  BY DEF OutsideScope
<1>3. ASSUME results' = [results EXCEPT ![p] = outside], table' = table
      PROVE  FromTable
  BY <1>1, <1>2, <1>3, SameTable
<1>4. ASSUME NEW t \in TrimDatabase(table, now), NEW wanted,
             NEW S \in SUBSET RowsOf(t, wanted, scope),
             table' = Touch(t, S, now),
             results' = [results EXCEPT ![p] = outside \cup S]
      PROVE  FromTable
  <2>1. LoadEffect /\ DOMAIN table' = DOMAIN t
    BY <1>4, TrimThenTouch
  <2>2. S \subseteq DOMAIN table' /\ DOMAIN table' \subseteq Ids
    BY <2>1 DEF RowsOf, LoadEffect, IsTable
  <2> QED
    BY <1>1, <1>2, <1>4, <2>1, <2>2
<1>5. CASE RestoreSession(a)
  <2>1. PICK branch \in SUBSET log[host[a]] :
          IF Restorable(branch, scope) = {}
          THEN results' = [results EXCEPT ![p] = outside] /\ UNCHANGED table
          ELSE \E t \in TrimDatabase(table, now) :
                 LET found == RowsOf(t, Restorable(branch, scope), scope) IN
                 /\ table' = Touch(t, found, now)
                 /\ results' = [results EXCEPT ![p] = outside \cup found]
    BY <1>5 DEF RestoreSession
  <2> QED
    BY <2>1, <1>3, <1>4
<1>6. CASE RestoreSessionFails(a)
  <2>1. PICK branch \in SUBSET log[host[a]] :
          \/ results' = [results EXCEPT ![p] = outside] /\ UNCHANGED table
          \/ \E t \in TrimDatabase(table, now) :
             \E loaded \in SUBSET RowsOf(t, Restorable(branch, scope), scope) :
                /\ table' = Touch(t, loaded, now)
                /\ results' = [results EXCEPT ![p] = outside \cup loaded]
    BY <1>6 DEF RestoreSessionFails
  <2> QED
    BY <2>1, <1>3, <1>4
<1> QED
  BY <1>5, <1>6

\* What a store commits, and what it pushed out.
PersistEffect(a, id) ==
    /\ IsTable(table', Scopes)
    /\ WithinBounds(table')
    /\ DOMAIN table' \subseteq DOMAIN table \cup {id}
    /\ \A i \in DOMAIN table' \ {id} :
         /\ table'[i].scope = table[i].scope
         /\ table'[i].expires = table[i].expires
    /\ id \in DOMAIN table' =>
         /\ table'[id].scope = StoredDocuments(a).scope
         /\ table'[id].expires = StoredDocuments(a).expires
    /\ evicted \subseteq evicted'
    /\ evicted' \subseteq Ids
    /\ WithinBounds(table) =>
         \A i \in (DOMAIN table \cup {id}) \ DOMAIN table' :
            i \in evicted' \/ (i \in DOMAIN table /\ table[i].expires <= now)

LEMMA StoredType ==
    ASSUME TypeOK, NEW a \in Agents, op[a] # NoOperation
    PROVE  /\ StoredDocuments(a) \in StoredContent
           /\ StoredDocuments(a) # NoContent
           /\ StoredDocuments(a).scope = SessionScope(StoredDocuments(a).owner)
           /\ RowOf(StoredDocuments(a))
                \in [scope : Scopes, expires : Nat, accessed : Nat]
<1>1. op[a] \in [session : Sessions, generation : Nat] /\ now \in Nat
  BY DEF TypeOK
<1>2. SessionScope(op[a].session) \in Scopes
  BY <1>1 DEF Scopes
<1>3. now + Ttl \in Nat
  BY <1>1, StoreAssumption DEF StoreAssumption
<1> QED
  BY <1>1, <1>2, <1>3, StoreAssumption
     DEF StoreAssumption, StoredDocuments, StoredContent, RowOf

LEMMA PersistStep ==
    ASSUME TypeOK, NEW a \in Agents, NEW id \in Ids, op[a] # NoOperation,
           Persist(a, id)
    PROVE  PersistEffect(a, id)
<1> DEFINE row == RowOf(StoredDocuments(a))
<1>0. PICK t \in TrimDatabase(table, now) :
        \E u \in PersistStoredContent(t, id, row, now) :
           /\ table' = u
           /\ evicted' = evicted \cup ((DOMAIN t \cup {id}) \ DOMAIN u)
  BY DEF Persist
<1>1. PICK u \in PersistStoredContent(t, id, row, now) :
        /\ table' = u
        /\ evicted' = evicted \cup ((DOMAIN t \cup {id}) \ DOMAIN u)
  BY <1>0
<1>2. IsTable(table, Scopes) /\ now \in Nat /\ evicted \subseteq Ids
  BY DEF TypeOK
<1>3. /\ IsTable(t, Scopes)
      /\ DOMAIN t \subseteq Unexpired(table, now)
      /\ \A i \in DOMAIN t : t[i] = table[i]
  BY <1>2, TrimOutcome
<1>4. WithinBounds(table) => DOMAIN t = Unexpired(table, now)
  BY <1>2, TrimOfBounded
<1>5. row \in [scope : Scopes, expires : Nat, accessed : Nat]
  BY StoredType
<1>6. /\ row.scope = StoredDocuments(a).scope
      /\ row.expires = StoredDocuments(a).expires
  BY DEF RowOf
<1> HIDE DEF row
<1>7. /\ IsTable(u, Scopes)
      /\ DOMAIN u \subseteq DOMAIN t \cup {id}
      /\ id \in DOMAIN u => u[id] = row
      /\ \A i \in DOMAIN u \ {id} : u[i] = t[i]
      /\ WithinBounds(u)
  BY <1>2, <1>3, <1>5, PersistOutcome
<1>8. DOMAIN t \subseteq DOMAIN table
  BY <1>3 DEF Unexpired
<1>9. evicted' \subseteq Ids
  BY <1>1, <1>2, <1>3 DEF IsTable
<1>10. \A i \in DOMAIN table : table[i].expires \in Nat
  BY <1>2 DEF IsTable
<1>11. WithinBounds(table) =>
         \A i \in (DOMAIN table \cup {id}) \ DOMAIN u :
            i \in evicted' \/ (i \in DOMAIN table /\ table[i].expires <= now)
  BY <1>1, <1>2, <1>4, <1>10 DEF Unexpired
<1> QED
  BY <1>1, <1>3, <1>6, <1>7, <1>8, <1>9, <1>11 DEF PersistEffect

-----------------------------------------------------------------------------
(* Type correctness.                                                        *)

LEMMA TypeInit == Init => TypeOK
  BY DEF Init, TypeOK, IsTable

LEMMA TypeStep == TypeOK /\ [Next]_vars => TypeOK'
<1> SUFFICES ASSUME TypeOK, [Next]_vars PROVE TypeOK'
  OBVIOUS
<1>1. CASE UNCHANGED vars
  BY <1>1 DEF vars, TypeOK
<1>2. CASE Tick
  BY <1>2 DEF TypeOK, Tick, Silent, dbVars, sessionVars
<1>3. ASSUME NEW a \in Agents, NEW s \in Sessions, RenameHost(a, s)
      PROVE  TypeOK'
  BY <1>3 DEF TypeOK, RenameHost, Silent, dbVars
<1>4. ASSUME NEW a \in Agents, NEW s \in Sessions, ForkHost(a, s)
      PROVE  TypeOK'
  BY <1>4 DEF TypeOK, ForkHost, Silent, dbVars
<1>5. ASSUME NEW a \in Agents, NEW s \in Sessions, ReplaceInstance(a, s)
      PROVE  TypeOK'
  BY <1>5 DEF TypeOK, ReplaceInstance, Silent, dbVars
<1>6. ASSUME NEW a \in Agents, RestoreSession(a) \/ RestoreSessionFails(a)
      PROVE  TypeOK'
  <2>1. results' \in [Procs -> SUBSET Ids] /\ IsTable(table', Scopes)
    BY <1>6, RestoreEffect DEF LoadEffect
  <2>2. Select(a, host[a]) /\ Silent
        /\ UNCHANGED <<now, content, log, host, op, issued, evicted>>
    BY <1>6 DEF RestoreSession, RestoreSessionFails
  <2> QED
    BY <2>1, <2>2 DEF TypeOK, Select, Silent
<1>7. ASSUME NEW a \in Agents, Begin(a) PROVE TypeOK'
  BY <1>7 DEF TypeOK, Begin, Silent, dbVars, sessionVars
<1>8. ASSUME NEW a \in Agents, FinishWithoutStoring(a) PROVE TypeOK'
  BY <1>8 DEF TypeOK, FinishWithoutStoring, EndOperation, Silent, dbVars, sessionVars
<1>9. ASSUME NEW a \in Agents, NEW id \in Ids, FinishStored(a, id)
      PROVE  TypeOK'
  <2>1. PersistEffect(a, id) /\ StoredDocuments(a) \in StoredContent
    BY <1>9, PersistStep, StoredType DEF FinishStored, Storing
  <2> QED
    BY <1>9, <2>1 DEF TypeOK, FinishStored, Storing, EndOperation, Purged, Silent,
                      PersistEffect, sessionVars
<1>10. ASSUME NEW a \in Agents, NEW id \in Ids, FinishUnpersisted(a, id)
       PROVE  TypeOK'
  <2>1. StoredDocuments(a) \in StoredContent
    BY <1>10, StoredType DEF FinishUnpersisted, Storing
  <2>2. LoadEffect
    BY <1>10, TrimThenTouch, SameTable DEF FinishUnpersisted
  <2> QED
    BY <1>10, <2>1, <2>2 DEF TypeOK, FinishUnpersisted, Storing, EndOperation,
                             Purged, Silent, LoadEffect, sessionVars
<1>11. ASSUME NEW a \in Agents, NEW id \in Ids, CrashBeforeLogging(a, id)
       PROVE  TypeOK'
  <2>1. PersistEffect(a, id) /\ StoredDocuments(a) \in StoredContent
    BY <1>11, PersistStep, StoredType DEF CrashBeforeLogging, Storing
  <2> QED
    BY <1>11, <2>1 DEF TypeOK, CrashBeforeLogging, Storing, ProcessGone, Silent,
                       PersistEffect
<1>12. ASSUME NEW a \in Agents, NEW id \in Ids, ReadHeld(a, id)
       PROVE  TypeOK'
  BY <1>12 DEF TypeOK, ReadHeld, dbVars, sessionVars
<1>13. ASSUME NEW a \in Agents, NEW id \in Ids, ReadExpired(a, id)
       PROVE  TypeOK'
  BY <1>13 DEF TypeOK, ReadExpired, Silent, dbVars, sessionVars
<1>14. ASSUME NEW a \in Agents, NEW id \in Ids, ReadStored(a, id)
       PROVE  TypeOK'
  <2>1. LoadEffect
    BY <1>14, TrimThenTouch DEF ReadStored
  <2> QED
    BY <1>14, <2>1 DEF TypeOK, ReadStored, LoadEffect, sessionVars
<1>15. ASSUME NEW a \in Agents, NEW id \in Ids, ReadMissing(a, id)
       PROVE  TypeOK'
  <2>1. LoadEffect
    BY <1>15, TrimThenTouch DEF ReadMissing
  <2> QED
    BY <1>15, <2>1 DEF TypeOK, ReadMissing, Silent, LoadEffect, sessionVars
<1>16. ASSUME NEW p \in Procs, Crash(p) PROVE TypeOK'
  BY <1>16 DEF TypeOK, Crash, ProcessGone, Silent, dbVars
<1> QED
  BY <1>1, <1>2, <1>3, <1>4, <1>5, <1>6, <1>7, <1>8, <1>9, <1>10, <1>11, <1>12,
     <1>13, <1>14, <1>15, <1>16 DEF Next, AgentStep

\* In every reachable state of any instance, every variable has its type.
THEOREM TypeCorrect == Spec => []TypeOK
  BY TypeInit, TypeStep, PTL DEF Spec

-----------------------------------------------------------------------------
(* Handles, rows and scopes.                                                *)

Book == Known /\ ScopeOfOwner /\ RowsMatch

\* A step that creates no content, names and logs no new handle, and only
\* loads from the table.
LEMMA BookQuiet ==
    ASSUME TypeOK, Book, LoadEffect, content' = content, issued' \subseteq issued,
           \A s \in Sessions : \A id \in log'[s] : \E r \in Sessions : id \in log[r],
           \A p \in Procs : results'[p] \subseteq results[p] \cup DOMAIN table'
    PROVE  Book'
<1>1. Created' = Created
  BY DEF Created
<1>2. Known'
  BY <1>1 DEF Book, Known, LoadEffect
<1>3. ScopeOfOwner'
  BY <1>1 DEF Book, ScopeOfOwner
<1>4. RowsMatch'
  BY DEF Book, RowsMatch, LoadEffect
<1> QED
  BY <1>2, <1>3, <1>4 DEF Book

\* A step that creates the content of one new handle and may name and log it.
LEMMA BookStoring ==
    ASSUME TypeOK, Book, NEW a \in Agents, NEW id \in Ids, Storing(a, id),
           LoadEffect \/ PersistEffect(a, id),
           issued' \subseteq issued \cup {id},
           \A s \in Sessions : log'[s] \subseteq log[s] \cup {id},
           \A p \in Procs : results'[p] \subseteq results[p] \cup {id}
    PROVE  Book'
<1>1. /\ content' = [content EXCEPT ![id] = StoredDocuments(a)]
      /\ content[id] = NoContent
      /\ op[a] # NoOperation
      /\ content \in [Ids -> StoredContent \cup {NoContent}]
  BY DEF Storing, TypeOK
<1>2. Created' = Created \cup {id}
  BY <1>1, StoredType DEF Created
<1>3. DOMAIN table' \subseteq DOMAIN table \cup {id}
  BY DEF LoadEffect, PersistEffect
<1>4. Known'
  BY <1>2, <1>3 DEF Book, Known
<1>5. ScopeOfOwner'
  <2>1. content'[id] = StoredDocuments(a)
    BY <1>1
  <2>2. \A i \in Created : content'[i] = content[i]
    BY <1>1 DEF Created
  <2> QED
    BY <1>2, <2>1, <2>2, <1>1, StoredType DEF Book, ScopeOfOwner
<1>6. RowsMatch'
  <2>1. id \notin DOMAIN table
    BY <1>1 DEF Book, Known, Created
  <2>2. content'[id] = StoredDocuments(a)
    BY <1>1
  <2>3. \A i \in DOMAIN table : content'[i] = content[i]
    BY <1>1, <2>1 DEF Book, Known, Created
  <2> QED
    BY <1>3, <2>1, <2>2, <2>3 DEF Book, RowsMatch, LoadEffect, PersistEffect
<1> QED
  BY <1>4, <1>5, <1>6 DEF Book

LEMMA BookStep == TypeOK /\ Book /\ [Next]_vars => Book'
<1> SUFFICES ASSUME TypeOK, Book, [Next]_vars PROVE Book'
  OBVIOUS
<1>1. CASE UNCHANGED vars
  BY <1>1, SameTable, BookQuiet DEF vars
<1>2. CASE Tick
  BY <1>2, SameTable, BookQuiet DEF Tick, dbVars
<1>3. ASSUME NEW a \in Agents, NEW s \in Sessions, RenameHost(a, s)
      PROVE  Book'
  BY <1>3, SameTable, BookQuiet DEF RenameHost, dbVars
<1>4. ASSUME NEW a \in Agents, NEW s \in Sessions, ForkHost(a, s)
      PROVE  Book'
  <2>1. \A r \in Sessions : \A id \in log'[r] : \E q \in Sessions : id \in log[q]
    BY <1>4 DEF ForkHost, TypeOK
  <2> QED
    BY <1>4, <2>1, SameTable, BookQuiet DEF ForkHost, dbVars
<1>5. ASSUME NEW a \in Agents, NEW s \in Sessions, ReplaceInstance(a, s)
      PROVE  Book'
  BY <1>5, SameTable, BookQuiet DEF ReplaceInstance, dbVars
<1>6. ASSUME NEW a \in Agents, RestoreSession(a) \/ RestoreSessionFails(a)
      PROVE  Book'
  <2>1. UNCHANGED <<content, issued, log>>
    BY <1>6 DEF RestoreSession, RestoreSessionFails
  <2> QED
    BY <1>6, <2>1, RestoreEffect, BookQuiet
<1>7. ASSUME NEW a \in Agents, Begin(a) \/ FinishWithoutStoring(a) PROVE Book'
  BY <1>7, SameTable, BookQuiet DEF Begin, FinishWithoutStoring, dbVars
<1>8. ASSUME NEW a \in Agents, NEW id \in Ids, FinishStored(a, id) PROVE Book'
  <2>1. Storing(a, id) /\ PersistEffect(a, id)
    BY <1>8, PersistStep DEF FinishStored, Storing
  <2>2. \A p \in Procs : results'[p] \subseteq results[p] \cup {id}
    BY <1>8 DEF FinishStored, Purged, TypeOK
  <2>3. \A s \in Sessions : log'[s] \subseteq log[s] \cup {id}
    BY <1>8 DEF FinishStored, TypeOK
  <2>4. issued' \subseteq issued \cup {id}
    BY <1>8 DEF FinishStored
  <2> QED
    BY <2>1, <2>2, <2>3, <2>4, BookStoring
<1>9. ASSUME NEW a \in Agents, NEW id \in Ids, FinishUnpersisted(a, id)
      PROVE  Book'
  <2>1. LoadEffect
    BY <1>9, TrimThenTouch, SameTable DEF FinishUnpersisted
  <2>2. \A p \in Procs : results'[p] \subseteq results[p] \cup {id}
    BY <1>9 DEF FinishUnpersisted, Purged, TypeOK
  <2> QED
    BY <1>9, <2>1, <2>2, BookStoring DEF FinishUnpersisted
<1>10. ASSUME NEW a \in Agents, NEW id \in Ids, CrashBeforeLogging(a, id)
       PROVE  Book'
  <2>1. PersistEffect(a, id)
    BY <1>10, PersistStep DEF CrashBeforeLogging, Storing
  <2>2. \A p \in Procs : results'[p] \subseteq results[p] \cup {id}
    BY <1>10 DEF CrashBeforeLogging, ProcessGone, TypeOK
  <2> QED
    BY <1>10, <2>1, <2>2, BookStoring DEF CrashBeforeLogging
<1>11. ASSUME NEW a \in Agents, NEW id \in Ids,
              ReadHeld(a, id) \/ ReadExpired(a, id)
       PROVE  Book'
  <2>1. \A p \in Procs : results'[p] \subseteq results[p]
    BY <1>11 DEF ReadHeld, ReadExpired, TypeOK
  <2> QED
    BY <1>11, <2>1, SameTable, BookQuiet DEF ReadHeld, ReadExpired, dbVars
<1>12. ASSUME NEW a \in Agents, NEW id \in Ids, ReadStored(a, id) PROVE Book'
  <2>1. PICK t \in TrimDatabase(table, now) :
          /\ RowsOf(t, {id}, SessionScope(host[a])) # {}
          /\ table' = Touch(t, {id}, now)
    BY <1>12 DEF ReadStored
  <2>2. LoadEffect /\ DOMAIN table' = DOMAIN t
    BY <2>1, TrimThenTouch
  <2>3. id \in DOMAIN table'
    BY <2>1, <2>2 DEF RowsOf
  <2>4. \A p \in Procs : results'[p] \subseteq results[p] \cup DOMAIN table'
    BY <1>12, <2>3 DEF ReadStored, TypeOK
  <2> QED
    BY <1>12, <2>2, <2>4, BookQuiet DEF ReadStored
<1>13. ASSUME NEW a \in Agents, NEW id \in Ids, ReadMissing(a, id) PROVE Book'
  <2>1. LoadEffect
    BY <1>13, TrimThenTouch DEF ReadMissing
  <2> QED
    BY <1>13, <2>1, BookQuiet DEF ReadMissing
<1>14. ASSUME NEW p \in Procs, Crash(p) PROVE Book'
  <2>1. \A q \in Procs : results'[q] \subseteq results[q]
    BY <1>14 DEF Crash, ProcessGone, TypeOK
  <2> QED
    BY <1>14, <2>1, SameTable, BookQuiet DEF Crash, dbVars
<1> QED
  BY <1>1, <1>2, <1>3, <1>4, <1>5, <1>6, <1>7, <1>8, <1>9, <1>10, <1>11, <1>12,
     <1>13, <1>14 DEF Next, AgentStep

-----------------------------------------------------------------------------
(* Generations.                                                             *)

LEMMA GenerationsStep == TypeOK /\ Generations /\ [Next]_vars => Generations'
<1> SUFFICES ASSUME TypeOK, Generations, [Next]_vars PROVE Generations'
  OBVIOUS
<1>1. ASSUME UNCHANGED <<gen, op, left>> PROVE Generations'
  BY <1>1 DEF Generations
<1>2. ASSUME NEW a \in Agents, EndOperation(a), gen' = gen PROVE Generations'
  BY <1>2 DEF Generations, EndOperation, TypeOK
<1>3. ASSUME NEW p \in Procs, ProcessGone(p) PROVE Generations'
  BY <1>3 DEF Generations, ProcessGone, TypeOK
<1>4. CASE UNCHANGED vars
  BY <1>4, <1>1 DEF vars
<1>5. CASE Tick
  BY <1>5, <1>1 DEF Tick, sessionVars
<1>6. ASSUME NEW a \in Agents, NEW s \in Sessions,
             RenameHost(a, s) \/ ForkHost(a, s)
      PROVE  Generations'
  BY <1>6, <1>1 DEF RenameHost, ForkHost
<1>7. ASSUME NEW a \in Agents, NEW s \in Sessions, ReplaceInstance(a, s)
      PROVE  Generations'
  BY <1>7 DEF ReplaceInstance, Generations, TypeOK
<1>8. ASSUME NEW a \in Agents, RestoreSession(a) \/ RestoreSessionFails(a)
      PROVE  Generations'
  <2>1. Select(a, host[a]) /\ op' = op
    BY <1>8 DEF RestoreSession, RestoreSessionFails
  <2>2. \A b \in Agents : gen[b] \in Nat
    BY DEF TypeOK
  <2>3. \A b \in Agents : op[b] # NoOperation => op[b].generation \in Nat
    BY DEF TypeOK
  <2>4. CASE host[a] = sel[a]
    BY <2>1, <2>4 DEF Select, Generations, TypeOK
  <2>5. CASE host[a] # sel[a]
    <3>1. gen' = [gen EXCEPT ![a] = gen[a] + 1] /\ left' \subseteq left \cup {a}
      BY <2>1, <2>5 DEF Select
    <3> QED
      BY <2>1, <2>2, <2>3, <3>1 DEF Generations, TypeOK
  <2> QED
    BY <2>4, <2>5
<1>9. ASSUME NEW a \in Agents, Begin(a) PROVE Generations'
  BY <1>9 DEF Begin, Generations, sessionVars, TypeOK
<1>10. ASSUME NEW a \in Agents, FinishWithoutStoring(a) PROVE Generations'
  BY <1>10, <1>2 DEF FinishWithoutStoring, sessionVars
<1>11. ASSUME NEW a \in Agents, NEW id \in Ids,
              FinishStored(a, id) \/ FinishUnpersisted(a, id)
       PROVE  Generations'
  BY <1>11, <1>2 DEF FinishStored, FinishUnpersisted, sessionVars
<1>12. ASSUME NEW a \in Agents, NEW id \in Ids, CrashBeforeLogging(a, id)
       PROVE  Generations'
  BY <1>12, <1>3, StoreAssumption DEF StoreAssumption, CrashBeforeLogging
<1>13. ASSUME NEW a \in Agents, NEW id \in Ids,
              \/ ReadHeld(a, id) \/ ReadExpired(a, id)
              \/ ReadStored(a, id) \/ ReadMissing(a, id)
       PROVE  Generations'
  BY <1>13, <1>1 DEF ReadHeld, ReadExpired, ReadStored, ReadMissing, sessionVars
<1>14. ASSUME NEW p \in Procs, Crash(p) PROVE Generations'
  BY <1>14, <1>3 DEF Crash
<1> QED
  BY <1>4, <1>5, <1>6, <1>7, <1>8, <1>9, <1>10, <1>11, <1>12, <1>13, <1>14
     DEF Next, AgentStep

-----------------------------------------------------------------------------
(* What the table keeps.                                                    *)

Kept == TableBounded /\ NoSilentLoss

\* A load evicts nothing that has not expired.
LEMMA KeptQuiet ==
    ASSUME TypeOK, Book, Kept, LoadEffect, UNCHANGED evicted,
           \A id \in Created : content'[id] = content[id],
           now' = now \/ now' = now + 1,
           issued' \subseteq issued,
           \A s \in Sessions : \A id \in log'[s] : \E r \in Sessions : id \in log[r]
    PROVE  Kept'
<1>1. WithinBounds(table)
  BY DEF Kept, TableBounded
<1>2. WithinBounds(table')
  BY <1>1 DEF LoadEffect
<1>3. \A id \in Created : content[id].expires \in Nat
  BY DEF TypeOK, Created, StoredContent
<1>4. now \in Nat
  BY DEF TypeOK
<1>5. ASSUME NEW id \in Ids, id \in issued' \/ (\E s \in Sessions : id \in log'[s])
      PROVE  id \in DOMAIN table' \/ id \in evicted' \/ content'[id].expires <= now'
  <2>1. id \in issued \/ (\E s \in Sessions : id \in log[s])
    BY <1>5
  <2>2. id \in Created /\ content'[id] = content[id]
    BY <2>1 DEF Book, Known
  <2>3. id \in DOMAIN table \/ id \in evicted \/ content[id].expires <= now
    BY <2>1 DEF Kept, NoSilentLoss
  <2>4. CASE id \in DOMAIN table /\ id \notin DOMAIN table'
    <3>1. table[id].expires <= now
      BY <1>1, <2>4 DEF LoadEffect
    <3>2. content[id].expires <= now
      BY <3>1, <2>4 DEF Book, RowsMatch
    <3> QED
      BY <3>2, <2>2, <1>3, <1>4
  <2> QED
    BY <2>2, <2>3, <2>4, <1>3, <1>4
<1> QED
  BY <1>2, <1>5 DEF Kept, TableBounded, NoSilentLoss

\* A store trims within its transaction, and what it pushes out is in evicted.
LEMMA KeptStoring ==
    ASSUME TypeOK, Book, Kept, NEW a \in Agents, NEW id \in Ids,
           Storing(a, id), PersistEffect(a, id), now' = now,
           issued' \subseteq issued \cup {id},
           \A s \in Sessions : log'[s] \subseteq log[s] \cup {id}
    PROVE  Kept'
<1>1. WithinBounds(table) /\ WithinBounds(table')
  BY DEF Kept, TableBounded, PersistEffect
<1>2. /\ id \notin Created
      /\ \A i \in Created : content'[i] = content[i]
  BY DEF Storing, Created, TypeOK
<1>3. id \notin DOMAIN table
  BY <1>2 DEF Book, Known
<1>4. ASSUME NEW i \in Ids, i \in issued' \/ (\E s \in Sessions : i \in log'[s])
      PROVE  i \in DOMAIN table' \/ i \in evicted' \/ content'[i].expires <= now'
  <2>1. CASE i = id
    BY <2>1, <1>1, <1>3 DEF PersistEffect
  <2>2. CASE i # id
    <3>1. i \in issued \/ (\E s \in Sessions : i \in log[s])
      BY <1>4, <2>2
    <3>2. i \in Created /\ content'[i] = content[i]
      BY <3>1, <1>2 DEF Book, Known
    <3>3. i \in DOMAIN table \/ i \in evicted \/ content[i].expires <= now
      BY <3>1 DEF Kept, NoSilentLoss
    <3>4. CASE i \in DOMAIN table /\ i \notin DOMAIN table'
      <4>1. i \in evicted' \/ table[i].expires <= now
        BY <1>1, <3>4 DEF PersistEffect
      <4> QED
        BY <4>1, <3>2, <3>4 DEF Book, RowsMatch
    <3> QED
      BY <3>2, <3>3, <3>4 DEF PersistEffect
  <2> QED
    BY <2>1, <2>2
<1> QED
  BY <1>1, <1>4 DEF Kept, TableBounded, NoSilentLoss

LEMMA KeptStep == TypeOK /\ Book /\ Kept /\ [Next]_vars => Kept'
<1> SUFFICES ASSUME TypeOK, Book, Kept, [Next]_vars PROVE Kept'
  OBVIOUS
<1>1. CASE UNCHANGED vars
  BY <1>1, SameTable, KeptQuiet DEF vars
<1>2. CASE Tick
  BY <1>2, SameTable, KeptQuiet DEF Tick, dbVars
<1>3. ASSUME NEW a \in Agents, NEW s \in Sessions,
             RenameHost(a, s) \/ ReplaceInstance(a, s)
      PROVE  Kept'
  BY <1>3, SameTable, KeptQuiet DEF RenameHost, ReplaceInstance, dbVars
<1>4. ASSUME NEW a \in Agents, NEW s \in Sessions, ForkHost(a, s)
      PROVE  Kept'
  <2>1. \A r \in Sessions : \A id \in log'[r] : \E q \in Sessions : id \in log[q]
    BY <1>4 DEF ForkHost, TypeOK
  <2> QED
    BY <1>4, <2>1, SameTable, KeptQuiet DEF ForkHost, dbVars
<1>5. ASSUME NEW a \in Agents, RestoreSession(a) \/ RestoreSessionFails(a)
      PROVE  Kept'
  <2>1. UNCHANGED <<now, content, issued, log, evicted>>
    BY <1>5 DEF RestoreSession, RestoreSessionFails
  <2> QED
    BY <1>5, <2>1, RestoreEffect, KeptQuiet
<1>6. ASSUME NEW a \in Agents, Begin(a) \/ FinishWithoutStoring(a) PROVE Kept'
  BY <1>6, SameTable, KeptQuiet DEF Begin, FinishWithoutStoring, dbVars
<1>7. ASSUME NEW a \in Agents, NEW id \in Ids, FinishStored(a, id) PROVE Kept'
  <2>1. Storing(a, id) /\ PersistEffect(a, id)
    BY <1>7, PersistStep DEF FinishStored, Storing
  <2>2. \A s \in Sessions : log'[s] \subseteq log[s] \cup {id}
    BY <1>7 DEF FinishStored, TypeOK
  <2> QED
    BY <1>7, <2>1, <2>2, KeptStoring DEF FinishStored
<1>8. ASSUME NEW a \in Agents, NEW id \in Ids, FinishUnpersisted(a, id)
      PROVE  Kept'
  <2>1. LoadEffect
    BY <1>8, TrimThenTouch, SameTable DEF FinishUnpersisted
  <2>2. \A i \in Created : content'[i] = content[i]
    BY <1>8 DEF FinishUnpersisted, Storing, Created, TypeOK
  <2> QED
    BY <1>8, <2>1, <2>2, KeptQuiet DEF FinishUnpersisted
<1>9. ASSUME NEW a \in Agents, NEW id \in Ids, CrashBeforeLogging(a, id)
      PROVE  Kept'
  <2>1. Storing(a, id) /\ PersistEffect(a, id)
    BY <1>9, PersistStep DEF CrashBeforeLogging, Storing
  <2> QED
    BY <1>9, <2>1, KeptStoring DEF CrashBeforeLogging
<1>10. ASSUME NEW a \in Agents, NEW id \in Ids,
              ReadHeld(a, id) \/ ReadExpired(a, id)
       PROVE  Kept'
  BY <1>10, SameTable, KeptQuiet DEF ReadHeld, ReadExpired, dbVars
<1>11. ASSUME NEW a \in Agents, NEW id \in Ids,
              ReadStored(a, id) \/ ReadMissing(a, id)
       PROVE  Kept'
  <2>1. LoadEffect
    BY <1>11, TrimThenTouch DEF ReadStored, ReadMissing
  <2> QED
    BY <1>11, <2>1, KeptQuiet DEF ReadStored, ReadMissing
<1>12. ASSUME NEW p \in Procs, Crash(p) PROVE Kept'
  BY <1>12, SameTable, KeptQuiet DEF Crash, dbVars
<1> QED
  BY <1>1, <1>2, <1>3, <1>4, <1>5, <1>6, <1>7, <1>8, <1>9, <1>10, <1>11, <1>12
     DEF Next, AgentStep

-----------------------------------------------------------------------------
(* The inductive invariant and the safety theorems.                         *)

IInv == TypeOK /\ Book /\ Generations /\ Kept

LEMMA IInvInit == Init => IInv
<1> SUFFICES ASSUME Init PROVE IInv
  OBVIOUS
<1>1. TypeOK
  BY TypeInit
<1>2. DOMAIN table = {} /\ Created = {}
  BY DEF Init, Created
<1>3. Book
  BY <1>2 DEF Init, Book, Known, ScopeOfOwner, RowsMatch
<1>4. Generations
  BY DEF Init, Generations
<1>5. Cardinality(DOMAIN table) = 0
  BY <1>2, FS_EmptySet
<1>6. Kept
  BY <1>2, <1>5, TableAssumption
     DEF Init, Kept, TableBounded, WithinBounds, NoSilentLoss, TableAssumption
<1> QED
  BY <1>1, <1>3, <1>4, <1>6 DEF IInv

LEMMA IInvStep == IInv /\ [Next]_vars => IInv'
  BY TypeStep, BookStep, GenerationsStep, KeptStep DEF IInv

LEMMA Invariance == Spec => []IInv
  BY IInvInit, IInvStep, PTL DEF Spec

\* Whatever the processes do, the committed table never exceeds its bounds.
THEOREM AlwaysBounded == Spec => []TableBounded
<1>1. IInv => TableBounded
  BY DEF IInv, Kept
<1> QED
  BY <1>1, Invariance, PTL

\* A named or logged handle is in the table, evicted by a store, or expired.
THEOREM NothingLostSilently == Spec => []NoSilentLoss
<1>1. IInv => NoSilentLoss
  BY DEF IInv, Kept
<1> QED
  BY <1>1, Invariance, PTL

-----------------------------------------------------------------------------
(* Operations store only within the visit they began in.                    *)

OwnVisit ==
    \A id \in Ids :
        content[id] = NoContent /\ content'[id] # NoContent
            => content'[id].agent \notin left

LEMMA OwnVisitStep == IInv /\ [Next]_vars => OwnVisit
<1> SUFFICES ASSUME IInv, [Next]_vars PROVE OwnVisit
  OBVIOUS
<1>1. TypeOK /\ Generations
  BY DEF IInv
<1>2. ASSUME content' = content PROVE OwnVisit
  BY <1>2 DEF OwnVisit
<1>3. ASSUME NEW a \in Agents, NEW id \in Ids, Storing(a, id) PROVE OwnVisit
  <2>1. content' = [content EXCEPT ![id] = StoredDocuments(a)]
    BY <1>3 DEF Storing
  <2>2. op[a] # NoOperation /\ gen[a] = op[a].generation /\ gen[a] \in Nat
    BY <1>1, <1>3 DEF Storing, AssertCurrent, TypeOK
  <2>3. a \notin left
    BY <1>1, <2>2 DEF Generations
  <2>4. StoredDocuments(a).agent = a
    BY DEF StoredDocuments
  <2>5. ASSUME NEW i \in Ids, content[i] = NoContent, content'[i] # NoContent
        PROVE  content'[i] = StoredDocuments(a)
    BY <1>1, <2>1, <2>5 DEF TypeOK
  <2> QED
    BY <2>3, <2>4, <2>5 DEF OwnVisit
<1>4. CASE UNCHANGED vars \/ Tick \/ (\E p \in Procs : Crash(p))
  BY <1>2, <1>4 DEF vars, Tick, Crash
<1>5. ASSUME NEW a \in Agents, NEW s \in Sessions,
             RenameHost(a, s) \/ ForkHost(a, s) \/ ReplaceInstance(a, s)
      PROVE  OwnVisit
  BY <1>2, <1>5 DEF RenameHost, ForkHost, ReplaceInstance
<1>6. ASSUME NEW a \in Agents,
             \/ RestoreSession(a) \/ RestoreSessionFails(a)
             \/ Begin(a) \/ FinishWithoutStoring(a)
      PROVE  OwnVisit
  BY <1>2, <1>6 DEF RestoreSession, RestoreSessionFails, Begin, FinishWithoutStoring
<1>7. ASSUME NEW a \in Agents, NEW id \in Ids,
             \/ FinishStored(a, id) \/ FinishUnpersisted(a, id)
             \/ CrashBeforeLogging(a, id)
      PROVE  OwnVisit
  BY <1>3, <1>7 DEF FinishStored, FinishUnpersisted, CrashBeforeLogging
<1>8. ASSUME NEW a \in Agents, NEW id \in Ids,
             \/ ReadHeld(a, id) \/ ReadExpired(a, id)
             \/ ReadStored(a, id) \/ ReadMissing(a, id)
      PROVE  OwnVisit
  BY <1>2, <1>8 DEF ReadHeld, ReadExpired, ReadStored, ReadMissing
<1> QED
  BY <1>4, <1>5, <1>6, <1>7, <1>8 DEF Next, AgentStep

\* No operation stores after its agent selected another session, even if the
\* first session has been selected again.
THEOREM StoresInOneVisit == Spec => StoresOnlyInItsVisit
<1>1. IInv /\ [Next]_vars => [OwnVisit]_vars
  BY OwnVisitStep
<1> QED
  BY <1>1, Invariance, PTL DEF Spec, StoresOnlyInItsVisit, OwnVisit

-----------------------------------------------------------------------------
(* The detailed store implements the abstract one.                          *)

Handles == [id \in Ids |-> IF id \in issued
                           THEN [owner |-> content[id].owner,
                                 expires |-> content[id].expires]
                           ELSE NoContent]

LEMMA HandleInit == Init => Abstract!Init
  BY DEF Init, Abstract!Init

\* Steps that answer nothing, issue nothing and leave the clock.
LEMMA HandleQuiet ==
    ASSUME TypeOK, Book, Silent, UNCHANGED <<now, issued>>,
           \A id \in Created : content'[id] = content[id]
    PROVE  Abstract!Quiet
<1>1. \A id \in issued : content'[id] = content[id]
  BY DEF Book, Known
<1>2. Handles' = Handles
  BY <1>1 DEF Handles
<1> QED
  BY <1>2 DEF Abstract!Quiet, Silent, Handles

\* An answer from results or from the table goes to the handle's owner in time.
LEMMA HandleAnswer ==
    ASSUME TypeOK, Book, NEW a \in Agents, NEW id \in issued,
           content[id].scope = SessionScope(host[a]),
           content[id].expires > now,
           answer' = [id |-> id, to |-> host[a]],
           UNCHANGED <<now, issued, content>>
    PROVE  \E s \in Sessions, i \in Ids : Abstract!Answer(s, i)
<1>1. id \in Ids /\ id \in Created /\ host[a] \in Sessions
  BY DEF TypeOK, Book, Known
<1>2. content[id].owner = host[a]
  BY <1>1 DEF Book, ScopeOfOwner, SessionScope
<1>3. /\ Handles[id] = [owner |-> host[a], expires |-> content[id].expires]
      /\ Handles[id] # NoContent
  <2>1. content[id].expires \in Nat
    BY <1>1 DEF Created, TypeOK, StoredContent
  <2> QED
    BY <1>1, <1>2, <2>1, StoreAssumption DEF Handles, StoreAssumption
<1>4. now \in Nat /\ content[id].expires \in Nat
  BY <1>1 DEF Created, TypeOK, StoredContent
<1>5. Handles' = Handles
  BY DEF Handles
<1>6. Abstract!Answer(host[a], id)
  BY <1>1, <1>3, <1>4, <1>5 DEF Abstract!Answer, Handles
<1> QED
  BY <1>1, <1>6

\* A stored response is issued to the session its operation began in.
LEMMA HandleIssue ==
    ASSUME TypeOK, Book, NEW a \in Agents, NEW id \in Ids, Storing(a, id),
           Silent, issued' = issued \cup {id}, now' = now
    PROVE  \E s \in Sessions, i \in Ids : Abstract!Issue(s, i)
<1> DEFINE s == op[a].session
<1>1. s \in Sessions
  BY DEF Storing, TypeOK
<1>2. id \notin issued
  BY DEF Storing, Book, Known, Created
<1>3. /\ content'[id] = StoredDocuments(a)
      /\ \A i \in Ids \ {id} : content'[i] = content[i]
  BY DEF Storing, TypeOK
<1>4. Handles' = [Handles EXCEPT ![id] = [owner |-> s, expires |-> now + Ttl]]
  <2>1. /\ StoredDocuments(a).owner = s
        /\ StoredDocuments(a).expires = now + Ttl
    BY DEF StoredDocuments
  <2>2. \A i \in Ids \ {id} : Handles'[i] = Handles[i]
    BY <1>3 DEF Handles
  <2>3. Handles'[id] = [owner |-> s, expires |-> now + Ttl]
    BY <1>3, <2>1 DEF Handles
  <2> QED
    BY <2>2, <2>3 DEF Handles
<1>5. Handles[id] = NoContent
  BY <1>2 DEF Handles
<1>6. Abstract!Issue(s, id)
  BY <1>4, <1>5 DEF Abstract!Issue, Handles, Silent
<1> QED
  BY <1>1, <1>6

LEMMA HandleStep == IInv /\ [Next]_vars => [Abstract!Next]_Abstract!vars
<1> SUFFICES ASSUME IInv, [Next]_vars PROVE [Abstract!Next]_Abstract!vars
  OBVIOUS
<1>1. TypeOK /\ Book
  BY DEF IInv
<1>2. ASSUME Abstract!Quiet \/ (\E s \in Sessions, i \in Ids :
                                   Abstract!Issue(s, i) \/ Abstract!Answer(s, i))
      PROVE  [Abstract!Next]_Abstract!vars
  BY <1>2 DEF Abstract!Next
<1>3. CASE UNCHANGED vars
  BY <1>3 DEF vars, Abstract!vars
<1>4. CASE Tick
  BY <1>4 DEF Tick, Silent, Abstract!Next, Abstract!Tick
<1>5. ASSUME NEW a \in Agents, NEW s \in Sessions,
             RenameHost(a, s) \/ ForkHost(a, s) \/ ReplaceInstance(a, s)
      PROVE  Abstract!Quiet
  BY <1>1, <1>5, HandleQuiet DEF RenameHost, ForkHost, ReplaceInstance
<1>6. ASSUME NEW a \in Agents,
             \/ RestoreSession(a) \/ RestoreSessionFails(a)
             \/ Begin(a) \/ FinishWithoutStoring(a)
      PROVE  Abstract!Quiet
  BY <1>1, <1>6, HandleQuiet
     DEF RestoreSession, RestoreSessionFails, Begin, FinishWithoutStoring
<1>7. ASSUME NEW a \in Agents, NEW id \in Ids, FinishStored(a, id)
      PROVE  \E s \in Sessions, i \in Ids : Abstract!Issue(s, i)
  BY <1>1, <1>7, HandleIssue DEF FinishStored
<1>8. ASSUME NEW a \in Agents, NEW id \in Ids,
             FinishUnpersisted(a, id) \/ CrashBeforeLogging(a, id)
      PROVE  Abstract!Quiet
  <2>1. Storing(a, id) /\ Silent /\ UNCHANGED <<now, issued>>
    BY <1>8 DEF FinishUnpersisted, CrashBeforeLogging
  <2>2. \A i \in Created : content'[i] = content[i]
    BY <1>1, <2>1 DEF Storing, Created, TypeOK
  <2> QED
    BY <1>1, <2>1, <2>2, HandleQuiet
<1>9. ASSUME NEW a \in Agents, NEW id \in Ids, ReadHeld(a, id)
      PROVE  \E s \in Sessions, i \in Ids : Abstract!Answer(s, i)
  BY <1>1, <1>9, HandleAnswer DEF ReadHeld, Reading, Held
<1>10. ASSUME NEW a \in Agents, NEW id \in Ids, ReadStored(a, id)
       PROVE  \E s \in Sessions, i \in Ids : Abstract!Answer(s, i)
  <2>1. PICK t \in TrimDatabase(table, now) :
          RowsOf(t, {id}, SessionScope(host[a])) # {}
    BY <1>10 DEF ReadStored
  <2>2. /\ DOMAIN t \subseteq Unexpired(table, now)
        /\ \A i \in DOMAIN t : t[i] = table[i]
    BY <1>1, TrimOutcome DEF TypeOK
  <2>3. id \in DOMAIN t /\ t[id].scope = SessionScope(host[a])
    BY <2>1 DEF RowsOf
  <2>4. id \in DOMAIN table /\ table[id].expires > now
    BY <2>2, <2>3 DEF Unexpired
  <2>5. content[id].scope = SessionScope(host[a]) /\ content[id].expires > now
    BY <1>1, <2>2, <2>3, <2>4 DEF Book, RowsMatch
  <2> QED
    BY <1>1, <1>10, <2>5, HandleAnswer DEF ReadStored, Reading
<1>11. ASSUME NEW a \in Agents, NEW id \in Ids,
              ReadExpired(a, id) \/ ReadMissing(a, id)
       PROVE  Abstract!Quiet
  BY <1>1, <1>11, HandleQuiet DEF ReadExpired, ReadMissing
<1>12. ASSUME NEW p \in Procs, Crash(p) PROVE Abstract!Quiet
  BY <1>1, <1>12, HandleQuiet DEF Crash
<1> QED
  BY <1>2, <1>3, <1>4, <1>5, <1>6, <1>7, <1>8, <1>9, <1>10, <1>11, <1>12
     DEF Next, AgentStep

\* The detailed store implements the abstract one: every answer goes to the
\* session the handle was issued to, before the handle expires.
THEOREM Refinement == Spec => ImplementsHandleStore
  BY HandleInit, HandleStep, Invariance, PTL
     DEF Spec, ImplementsHandleStore, Abstract!Spec
=============================================================================
