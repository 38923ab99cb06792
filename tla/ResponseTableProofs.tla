------------------------- MODULE ResponseTableProofs -------------------------
(***************************************************************************)
(* What trimming, storing and touching do to a table, for every table and   *)
(* every bound: the facts the proofs about the stores rest on.              *)
(***************************************************************************)
EXTENDS ResponseTable, FiniteSetTheorems, TLAPS

\* trimDatabase leaves rows of the table as they were, none of them expired,
\* within both bounds.
LEMMA TrimOutcome ==
    ASSUME NEW scopes, NEW table, IsTable(table, scopes), NEW now \in Nat,
           NEW t \in TrimDatabase(table, now)
    PROVE  /\ IsTable(t, scopes)
           /\ DOMAIN t \subseteq Unexpired(table, now)
           /\ \A id \in DOMAIN t : t[id] = table[id]
           /\ WithinBounds(t)
<1> DEFINE live == Unexpired(table, now)
<1>1. PICK C \in WithinCount(table, live) :
        \E K \in WithinBytes(table, C) : t = Keep(table, K)
  BY DEF TrimDatabase
<1>2. PICK K \in WithinBytes(table, C) : t = Keep(table, K)
  BY <1>1
<1>3. C \subseteq live /\ K \subseteq C
  BY DEF WithinCount, WithinBytes
<1>4. live \subseteq DOMAIN table /\ DOMAIN table \subseteq Ids
  BY DEF Unexpired, IsTable
<1>5. DOMAIN t = K /\ \A id \in K : t[id] = table[id]
  BY <1>2 DEF Keep
<1>6. IsTable(t, scopes)
  <2>1. t = [id \in K |-> table[id]]
    BY <1>2 DEF Keep
  <2>2. \A id \in K : table[id] \in [scope : scopes, expires : Nat, accessed : Nat]
    BY <1>3, <1>4 DEF IsTable
  <2> QED
    BY <2>1, <2>2, <1>3, <1>4 DEF IsTable
<1>7. Cardinality(K) <= MaxResponses
  <2>1. IsFiniteSet(live)
    BY <1>4, FS_Subset, TableAssumption DEF TableAssumption
  <2>2. IsFiniteSet(C) /\ IsFiniteSet(K)
    BY <2>1, <1>3, FS_Subset
  <2>3. Cardinality(K) <= Cardinality(C)
    BY <2>2, <1>3, FS_Subset
  <2>4. Cardinality(C) <= MaxResponses
    <3>1. Cardinality(live) \in Nat
      BY <2>1, FS_CardinalityType
    <3>2. Cardinality(C) = IF Cardinality(live) > MaxResponses
                           THEN MaxResponses
                           ELSE Cardinality(live)
      BY <1>1 DEF WithinCount
    <3> QED
      BY <3>1, <3>2, TableAssumption DEF TableAssumption
  <2> QED
    BY <2>2, <2>3, <2>4, FS_CardinalityType, TableAssumption DEF TableAssumption
<1>8. LogicalBytes[K] <= MaxBytes
  BY DEF WithinBytes
<1> QED
  BY <1>3, <1>5, <1>6, <1>7, <1>8 DEF WithinBounds

\* A table already within the bounds loses its expired rows and nothing else,
\* so trimming outside a store evicts no live response.
LEMMA TrimOfBounded ==
    ASSUME NEW scopes, NEW table, IsTable(table, scopes), WithinBounds(table),
           NEW now \in Nat, NEW t \in TrimDatabase(table, now)
    PROVE  DOMAIN t = Unexpired(table, now)
<1> DEFINE live == Unexpired(table, now)
<1>1. PICK C \in WithinCount(table, live) :
        \E K \in WithinBytes(table, C) : t = Keep(table, K)
  BY DEF TrimDatabase
<1>2. PICK K \in WithinBytes(table, C) : t = Keep(table, K)
  BY <1>1
<1>3. C \subseteq live /\ K \subseteq C
  BY DEF WithinCount, WithinBytes
<1>4. live \subseteq DOMAIN table /\ DOMAIN table \subseteq Ids
  BY DEF Unexpired, IsTable
<1>5. IsFiniteSet(DOMAIN table) /\ IsFiniteSet(live) /\ IsFiniteSet(C)
  BY <1>3, <1>4, FS_Subset, TableAssumption DEF TableAssumption
<1>6. C = live
  <2>1. Cardinality(live) <= Cardinality(DOMAIN table)
    BY <1>4, <1>5, FS_Subset
  <2>2. /\ Cardinality(live) \in Nat
        /\ Cardinality(DOMAIN table) \in Nat
        /\ Cardinality(DOMAIN table) <= MaxResponses
    BY <1>5, FS_CardinalityType DEF WithinBounds
  <2>3. ~(Cardinality(live) > MaxResponses)
    BY <2>1, <2>2, TableAssumption DEF TableAssumption
  <2>4. Cardinality(C) = Cardinality(live)
    BY <1>1, <2>3 DEF WithinCount
  <2> QED
    BY <2>4, <1>3, <1>5, FS_Subset
<1>7. K = C
  <2>1. SUFFICES ASSUME K # C PROVE FALSE
    OBVIOUS
  <2>2. PICK last \in C \ K : LogicalBytes[K \cup {last}] > MaxBytes
    BY <1>2, <2>1 DEF WithinBytes
  <2>3. K \cup {last} \subseteq DOMAIN table
    BY <1>3, <1>4
  <2>4. LogicalBytes[K \cup {last}] <= LogicalBytes[DOMAIN table]
    BY <2>3, <1>4, TableAssumption DEF TableAssumption
  <2>5. /\ LogicalBytes[K \cup {last}] \in Nat
        /\ LogicalBytes[DOMAIN table] \in Nat
    BY <2>3, <1>4, TableAssumption DEF TableAssumption
  <2> QED
    BY <2>2, <2>4, <2>5, TableAssumption DEF TableAssumption, WithinBounds
<1> QED
  BY <1>2, <1>6, <1>7 DEF Keep

LEMMA InsertType ==
    ASSUME NEW scopes, NEW table, IsTable(table, scopes), NEW id \in Ids,
           NEW row \in [scope : scopes, expires : Nat, accessed : Nat]
    PROVE  /\ IsTable(Insert(table, id, row), scopes)
           /\ DOMAIN Insert(table, id, row) = DOMAIN table \cup {id}
           /\ Insert(table, id, row)[id] = row
           /\ \A i \in DOMAIN table \ {id} : Insert(table, id, row)[i] = table[i]
  BY DEF IsTable, Insert

\* What persistStoredContent commits: rows of the table and the one inserted,
\* within both bounds.
LEMMA PersistOutcome ==
    ASSUME NEW scopes, NEW table, IsTable(table, scopes), NEW id \in Ids,
           NEW row \in [scope : scopes, expires : Nat, accessed : Nat],
           NEW now \in Nat, NEW u \in PersistStoredContent(table, id, row, now)
    PROVE  /\ IsTable(u, scopes)
           /\ DOMAIN u \subseteq DOMAIN table \cup {id}
           /\ id \in DOMAIN u => u[id] = row
           /\ \A i \in DOMAIN u \ {id} : u[i] = table[i]
           /\ WithinBounds(u)
<1> DEFINE full == Insert(table, id, row)
<1>1. IsTable(full, scopes) /\ u \in TrimDatabase(full, now)
  BY InsertType DEF PersistStoredContent
<1>2. /\ IsTable(u, scopes)
      /\ DOMAIN u \subseteq Unexpired(full, now)
      /\ \A i \in DOMAIN u : u[i] = full[i]
      /\ WithinBounds(u)
  BY <1>1, TrimOutcome
<1>3. DOMAIN u \subseteq DOMAIN full
  BY <1>2 DEF Unexpired
<1>4. /\ DOMAIN full = DOMAIN table \cup {id}
      /\ full[id] = row
      /\ \A i \in DOMAIN table \ {id} : full[i] = table[i]
  BY DEF Insert
<1> HIDE DEF full
<1> QED
  BY <1>2, <1>3, <1>4

LEMMA TouchOutcome ==
    ASSUME NEW scopes, NEW table, IsTable(table, scopes), NEW S, NEW now \in Nat
    PROVE  /\ IsTable(Touch(table, S, now), scopes)
           /\ DOMAIN Touch(table, S, now) = DOMAIN table
           /\ \A id \in DOMAIN table :
                /\ Touch(table, S, now)[id].scope = table[id].scope
                /\ Touch(table, S, now)[id].expires = table[id].expires
           /\ WithinBounds(table) => WithinBounds(Touch(table, S, now))
<1>1. \A id \in DOMAIN table :
        table[id] \in [scope : scopes, expires : Nat, accessed : Nat]
  BY DEF IsTable
<1>2. DOMAIN Touch(table, S, now) = DOMAIN table
  BY DEF Touch
<1>3. \A id \in DOMAIN table :
        /\ Touch(table, S, now)[id]
             \in [scope : scopes, expires : Nat, accessed : Nat]
        /\ Touch(table, S, now)[id].scope = table[id].scope
        /\ Touch(table, S, now)[id].expires = table[id].expires
  BY <1>1 DEF Touch
<1>4. IsTable(Touch(table, S, now), scopes)
  BY <1>2, <1>3 DEF IsTable, Touch
<1> QED
  BY <1>2, <1>3, <1>4 DEF WithinBounds
=============================================================================
