---------------------------- MODULE ResponseTable ----------------------------
(***************************************************************************)
(* The responses table of the web-content database, as values: what        *)
(* database.ts does to the rows, with SQLite's ordering rules but without   *)
(* its connections (ContentDatabase adds those).                            *)
(*                                                                          *)
(* A table is a function from the response ids present to rows.  A row      *)
(* keeps the columns the code decides on: session_scope, expires_at and     *)
(* last_accessed.  The documents, passages and crawl_membership rows go     *)
(* with their response (ON DELETE CASCADE) and count only through the       *)
(* logical size, which depends on nothing but which responses are present.  *)
(***************************************************************************)
EXTENDS Naturals, FiniteSets

CONSTANTS
    Ids,            \* response handles (randomUUID)
    MaxResponses,   \* MAX_RESPONSES
    MaxBytes,       \* MAX_DATABASE_BYTES
    LogicalBytes    \* logicalSize() of the table holding a given set of ids

\* The size sums non-negative lengths over the rows present: it is 0 for an
\* empty table and never grows when rows go.
ASSUME TableAssumption ==
    /\ IsFiniteSet(Ids)
    /\ MaxResponses \in Nat
    /\ MaxBytes \in Nat
    /\ LogicalBytes \in [SUBSET Ids -> Nat]
    /\ LogicalBytes[{}] = 0
    /\ \A S \in SUBSET Ids : \A R \in SUBSET S :
           LogicalBytes[R] <= LogicalBytes[S]

IsTable(table, scopes) ==
    /\ DOMAIN table \subseteq Ids
    /\ table \in [DOMAIN table -> [scope : scopes, expires : Nat, accessed : Nat]]

Keep(table, S) == [id \in S |-> table[id]]

Unexpired(table, now) == {id \in DOMAIN table : table[id].expires > now}

\* R is what ORDER BY last_accessed ASC LIMIT n leaves of S.  SQL leaves the
\* order of equal keys open, so several R of one size may qualify.
MostRecent(table, R, S) ==
    \A gone \in S \ R, kept \in R : table[gone].accessed <= table[kept].accessed

\* DELETE ... ORDER BY last_accessed ASC LIMIT count - MAX_RESPONSES
WithinCount(table, live) ==
    {K \in SUBSET live :
        /\ MostRecent(table, K, live)
        /\ Cardinality(K) = IF Cardinality(live) > MaxResponses
                            THEN MaxResponses
                            ELSE Cardinality(live)}

\* while (logicalBytes > MAX_DATABASE_BYTES) delete the least recently
\* accessed row: the loop stops at the first size that fits.
WithinBytes(table, counted) ==
    {K \in SUBSET counted :
        /\ MostRecent(table, K, counted)
        /\ LogicalBytes[K] <= MaxBytes
        /\ K # counted =>
             \E last \in counted \ K :
                /\ MostRecent(table, K \cup {last}, counted)
                /\ LogicalBytes[K \cup {last}] > MaxBytes}

\* trimDatabase: expired rows go, then the count bound, then the byte bound.
\* The set of tables it may leave.
TrimDatabase(table, now) ==
    {Keep(table, K) :
        K \in UNION {WithinBytes(table, C) :
                        C \in WithinCount(table, Unexpired(table, now))}}

\* INSERT OR REPLACE INTO responses
Insert(table, id, row) ==
    [i \in DOMAIN table \cup {id} |-> IF i = id THEN row ELSE table[i]]

\* The body of persistStoredContent's transaction: insert, then trim, so that
\* what is committed is within the bounds.  The row just inserted can itself
\* be what the trim removes.
PersistTrimmedFirst(table, id, row, now) ==
    {Insert(t, id, row) : t \in TrimDatabase(table, now)}
PersistStoredContent(table, id, row, now) ==
    TrimDatabase(Insert(table, id, row), now)

\* UPDATE responses SET last_accessed = now, for the rows a load found.
Touch(table, S, now) ==
    [id \in DOMAIN table |->
        IF id \in S THEN [table[id] EXCEPT !.accessed = now] ELSE table[id]]

\* The rows SELECT ... WHERE id = ? AND session_scope = ? finds among S.
RowsOf(table, S, scope) == {id \in S \cap DOMAIN table : table[id].scope = scope}

WithinBounds(table) ==
    /\ Cardinality(DOMAIN table) <= MaxResponses
    /\ LogicalBytes[DOMAIN table] <= MaxBytes
=============================================================================
