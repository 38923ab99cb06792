---------------------------- MODULE CrawlProofs ----------------------------
(***************************************************************************)
(* Proofs about Crawl, for every site, every answer and every bound: type   *)
(* correctness, the reason of a stop, the budgets, the requests, the order  *)
(* of the documents and what a complete result leaves out (nothing).        *)
(***************************************************************************)
EXTENDS Crawl, FiniteSetTheorems, SequenceTheorems, WellFoundedInduction, NaturalsInduction, TLAPS

Before == {"robots", "sitemap"}
Working == {"collect", "eligible", "fetch", "outcomes"}
After == {"ending", "done"}

UrlsOf(items) == {items[i].url : i \in DOMAIN items}

\* Before the first level nothing is requested, queued for good, or known.
Early ==
    phase \in Before =>
      /\ documents = <<>> /\ level = <<>> /\ additions = <<>> /\ batch = <<>>
      /\ seen = {} /\ queued = {} /\ represented = {}
      /\ visited = 0 /\ requests = [u \in Urls |-> 0]
      /\ phase = "robots" => robots = [o \in Origins |-> "unknown"]
      /\ \A i \in DOMAIN queue : queue[i].depth = 0

\* Once a reason is given the crawl is on its way to its end.
Reasoned ==
    stopped # NoReason =>
      /\ partial
      /\ phase \notin {"collect", "fetch", "outcomes"}
      /\ phase \notin After => aborted # {}

\* How far the jobs of a round are in each phase.
Round ==
    /\ phase = "level" => batch = <<>> /\ level = <<>>
    /\ \A i \in DOMAIN batch :
         /\ phase = "collect" => batch[i].state = "candidate"
         /\ phase = "eligible" => batch[i].state \in {"candidate", "allowed", "refused"}
         /\ phase = "fetch" => batch[i].state \in {"waiting", "running", "fetched", "threw"}
         /\ phase = "outcomes" => batch[i].state \in {"fetched", "threw"}
         /\ batch[i].state = "threw" => aborted # {}
    /\ phase \in {"eligible", "outcomes"} => batch # <<>>

\* The limit also covers the candidates that are not counted yet.
Budgets ==
    /\ WithinBudgets
    /\ phase \in {"collect", "eligible"} => visited + Len(batch) <= Limit

\* A URL is seen before it is requested, and is in one round.
Requested ==
    /\ NothingTwice
    /\ \A u \in Urls : requests[u] > 0 => u \in seen
    /\ \A i \in DOMAIN batch :
         /\ batch[i].url \in seen \cap InScope
         /\ \A j \in DOMAIN batch : batch[i].url = batch[j].url => i = j
         /\ batch[i].state \in {"candidate", "allowed", "refused", "waiting"}
              => requests[batch[i].url] = 0
         /\ batch[i].state \in {"running", "fetched"} => requests[batch[i].url] > 0
    /\ \A i \in DOMAIN documents : documents[i].url \in InScope

Refused(u) ==
    /\ mode.robots = "respect"
    /\ \/ robots[OriginOf[u]] = "unavailable"
       \/ robots[OriginOf[u]] = "rules" /\ u \in Disallowed

\* A verdict is that of a policy that is known, and so does not change.
Verdicts ==
    /\ OnlyWelcomeRequests
    /\ \A i \in DOMAIN batch :
         /\ batch[i].state \notin {"candidate", "refused"} => Welcome(batch[i].url)
         /\ batch[i].state = "refused" => Refused(batch[i].url)

\* The crawl is at depth d, where every item and job of the level is.
Layered(d) ==
    /\ \A i \in DOMAIN documents : documents[i].depth <= d
    /\ \A i, j \in DOMAIN documents : i < j => documents[i].depth <= documents[j].depth
    /\ phase \in Before => d = 0
    /\ phase = "level" => \A i \in DOMAIN queue : queue[i].depth = d
    /\ phase \in Working =>
         /\ queue = <<>>
         /\ \A i \in DOMAIN level : level[i].depth = d
         /\ \A i \in DOMAIN batch : batch[i].depth = d
         /\ \A i \in DOMAIN additions : additions[i].depth = d + 1
    /\ phase \in After =>
         /\ \A i \in DOMAIN queue : queue[i].depth >= d
         /\ \A i \in DOMAIN level : level[i].depth >= d

NoDeeper(items, u, d) == \A i \in DOMAIN items : items[i].url = u => items[i].depth <= d

\* A URL that an expanded document links to is known, or found at this level,
\* and nowhere more than one level below the document.
Known(i, u, d) ==
    \/ u \in queued \cup seen
    \/ /\ phase \in Working \cup After
       /\ phase \in After => partial \/ aborted # {}
       /\ documents[i].depth = d /\ u \in UrlsOf(additions)

Linked(d) ==
    \A i \in DOMAIN documents : Expanded(documents[i]) =>
      \A u \in ToSet(Links[documents[i].final]) \cap InScope :
        /\ Known(i, u, d)
        /\ NoDeeper(documents, u, documents[i].depth + 1)
        /\ phase \notin After =>
             /\ NoDeeper(queue, u, documents[i].depth + 1)
             /\ NoDeeper(level, u, documents[i].depth + 1)
             /\ NoDeeper(batch, u, documents[i].depth + 1)

Frontier == \E d \in Nat : Layered(d) /\ Linked(d)

Settled(u) ==
    \/ requests[u] > 0
    \/ u \notin InScope
    \/ Refused(u)
    \/ u \in represented

\* What was queued is still to come or was seen; what was seen is in the round
\* or settled, unless the crawl was aborted.
QueuedOnceSeen == phase \notin Before => queued \subseteq seen \cup UrlsOf(queue) \cup UrlsOf(level)

SeenOnceSettled == aborted = {} => \A u \in seen : Settled(u) \/ u \in UrlsOf(batch)

Accounted ==
    /\ QueuedOnceSeen
    /\ SeenOnceSettled
    /\ phase = "ending" /\ aborted = {} /\ ~partial =>
         /\ batch = <<>> /\ level = <<>>
         /\ queue = <<>> \/ visited >= Limit
    /\ phase = "done" /\ ~partial =>
         aborted = {} /\ batch = <<>> /\ level = <<>> /\ queue = <<>>

IInv == /\ TypeOK /\ Early /\ Reasoned /\ Round /\ Budgets
        /\ Requested /\ Verdicts /\ Frontier /\ Accounted

-----------------------------------------------------------------------------
(* Filters and sums of sequences.                                           *)

\* The positions of a finite set are counted by how many come before.
LEMMA Ranks ==
    ASSUME NEW P \in SUBSET Nat, IsFiniteSet(P)
    PROVE  /\ \A i \in P : Cardinality({j \in P : j <= i}) \in 1..Cardinality(P)
           /\ \A i, k \in P :
                Cardinality({j \in P : j <= i}) = Cardinality({j \in P : j <= k}) => i = k
           /\ \A n \in 1..Cardinality(P) :
                \E i \in P : Cardinality({j \in P : j <= i}) = n
<1> DEFINE upTo(i) == {j \in P : j <= i}
           rank == [i \in P |-> Cardinality(upTo(i))]
           N == Cardinality(P)
<1>1. N \in Nat
  BY FS_CardinalityType
<1>2. ASSUME NEW i \in P
      PROVE  IsFiniteSet(upTo(i)) /\ Cardinality(upTo(i)) \in 1..N
  <2>1. upTo(i) \in SUBSET P /\ i \in upTo(i)
    OBVIOUS
  <2>2. IsFiniteSet(upTo(i)) /\ Cardinality(upTo(i)) <= N
    <3> HIDE DEF upTo
    <3> QED BY <2>1, FS_Subset
  <2>3. Cardinality(upTo(i)) \in Nat /\ Cardinality(upTo(i)) # 0
    <3> HIDE DEF upTo
    <3> QED BY <2>1, <2>2, FS_CardinalityType, FS_EmptySet
  <2> HIDE DEF upTo
  <2> QED BY <1>1, <2>2, <2>3
<1>3. ASSUME NEW i \in P, NEW k \in P, i < k
      PROVE  Cardinality(upTo(i)) # Cardinality(upTo(k))
  <2>1. upTo(i) \in SUBSET upTo(k) /\ upTo(i) # upTo(k)
    <3>1. i \in Nat /\ k \in Nat
      OBVIOUS
    <3>2. k \in upTo(k) /\ k \notin upTo(i)
      BY <1>3, <3>1
    <3>3. \A j \in P : j <= i => j <= k
      <4> SUFFICES ASSUME NEW j \in P, j <= i PROVE j <= k
        OBVIOUS
      <4>1. j \in Nat
        OBVIOUS
      <4> QED BY <1>3, <3>1, <4>1
    <3>4. upTo(i) \in SUBSET upTo(k)
      BY <3>3
    <3> HIDE DEF upTo
    <3> QED BY <3>2, <3>4
  <2> HIDE DEF upTo
  <2> QED BY <1>2, <2>1, FS_Subset
<1>4. \A i, k \in P : Cardinality(upTo(i)) = Cardinality(upTo(k)) => i = k
  <2> SUFFICES ASSUME NEW i \in P, NEW k \in P, Cardinality(upTo(i)) = Cardinality(upTo(k))
               PROVE  i = k
    OBVIOUS
  <2>1. i \in Nat /\ k \in Nat
    OBVIOUS
  <2>2. ~ (i < k) /\ ~ (k < i)
    <3> HIDE DEF upTo
    <3> QED BY <1>3
  <2> QED BY <2>1, <2>2
<1>5. rank \in Injection(P, 1..N)
  <2> HIDE DEF upTo, N
  <2>1. rank \in [P -> 1..N]
    BY <1>2
  <2> QED BY <1>4, <2>1 DEF Injection, IsInjective
<1>6. rank \in Surjection(P, 1..N)
  <2>1. IsFiniteSet(1..N) /\ Cardinality(1..N) = N
    BY <1>1, FS_Interval
  <2> HIDE DEF rank
  <2> QED BY <1>5, <2>1, FS_Injection
<1>7. ASSUME NEW n \in 1..N PROVE \E i \in P : Cardinality(upTo(i)) = n
  <2> HIDE DEF upTo, N
  <2> QED BY <1>6 DEF Surjection
<1> QED
  <2> HIDE DEF upTo
  <2>1. /\ \A i \in P : Cardinality(upTo(i)) \in 1..Cardinality(P)
        /\ \A n \in 1..Cardinality(P) : \E i \in P : Cardinality(upTo(i)) = n
    BY <1>2, <1>7
  <2> QED BY <1>4, <2>1 DEF upTo

\* A filter keeps exactly the elements at the positions, each once.
LEMMA PickedElements ==
    ASSUME NEW S, NEW s \in Seq(S), NEW P \in SUBSET DOMAIN s
    PROVE  /\ Picked(s, P) \in Seq(S)
           /\ Len(Picked(s, P)) <= Len(s)
           /\ DOMAIN Picked(s, P) = 1..Len(Picked(s, P))
           /\ \A k \in DOMAIN Picked(s, P) : Nth(P, k) \in P /\ Picked(s, P)[k] = s[Nth(P, k)]
           /\ \A k, l \in DOMAIN Picked(s, P) : Nth(P, k) = Nth(P, l) => k = l
           /\ \A i \in P : \E k \in DOMAIN Picked(s, P) : Nth(P, k) = i
<1> DEFINE rank(i) == Cardinality({j \in P : j <= i})
           N == Cardinality(P)
<1>1. DOMAIN s = 1..Len(s) /\ Len(s) \in Nat
  OBVIOUS
<1>2. IsFiniteSet(P) /\ N <= Len(s) /\ N \in Nat /\ P \in SUBSET Nat
  <2>1. IsFiniteSet(1..Len(s)) /\ Cardinality(1..Len(s)) = Len(s)
    <3> DEFINE n == Len(s)
    <3> HIDE DEF n
    <3>1. n \in Nat
      BY <1>1 DEF n
    <3>2. IsFiniteSet(1..n) /\ Cardinality(1..n) = n
      BY <3>1, FS_Interval
    <3> QED BY <3>2 DEF n
  <2>2. IsFiniteSet(P) /\ N <= Len(s)
    BY <1>1, <2>1, FS_Subset
  <2> QED BY <1>1, <2>2, FS_CardinalityType
<1>3. /\ \A i \in P : rank(i) \in 1..N
      /\ \A i, k \in P : rank(i) = rank(k) => i = k
      /\ \A n \in 1..N : \E i \in P : rank(i) = n
  BY <1>2, Ranks
<1>4. \A k : Nth(P, k) = CHOOSE i \in P : rank(i) = k
  BY DEF Nth
<1> HIDE DEF rank, N
<1>5. \A k \in 1..N : Nth(P, k) \in P /\ rank(Nth(P, k)) = k
  BY <1>3, <1>4
<1>6. Picked(s, P) = [k \in 1..N |-> s[Nth(P, k)]]
  BY DEF Picked, N
<1>7. \A k \in 1..N : s[Nth(P, k)] \in S
  BY <1>1, <1>5
<1>8. /\ Picked(s, P) \in Seq(S) /\ Len(Picked(s, P)) = N
      /\ DOMAIN Picked(s, P) = 1..N
  <2> DEFINE t == [k \in 1..N |-> s[Nth(P, k)]]
  <2>1. t \in [1..N -> S]
    BY <1>7
  <2> HIDE DEF t
  <2>2. t \in Seq(S) /\ Len(t) = N /\ DOMAIN t = 1..N
    BY <1>2, <2>1
  <2> QED BY <1>6, <2>2 DEF t
<1>9. \A i \in P : Nth(P, rank(i)) = i
  BY <1>3, <1>5
<1> QED
  BY <1>2, <1>3, <1>5, <1>6, <1>8, <1>9

\* Induction over numbers, as a smallest element.
LEMMA Smallest ==
    ASSUME NEW T \in SUBSET Nat, T # {}
    PROVE  \E n \in T : \A m \in T : n <= m
<1> DEFINE R == {ss \in Nat \X Nat : ss[1] < ss[2]}
<1>1. OpToRel(<, Nat) = R
  BY DEF OpToRel
<1>2. IsWellFoundedOn(R, Nat)
  BY <1>1, NatLessThanWellFounded
<1>3. PICK n \in T : \A m \in T : ~ (<<m, n>> \in R)
  <2> HIDE DEF R
  <2> QED BY <1>2, WFMin
<1>4. n \in Nat /\ \A m \in T : m \in Nat /\ (m < n => <<m, n>> \in R)
  OBVIOUS
<1> HIDE DEF R
<1>5. \A m \in T : ~ (m < n)
  BY <1>3, <1>4
<1>6. \A m \in T : n <= m
  BY <1>4, <1>5
<1> QED
  BY <1>6

\* Every URL of a list has a first item.
LEMMA FirstOfEach ==
    ASSUME NEW S, NEW items \in Seq(S)
    PROVE  /\ Firsts(items) \in SUBSET DOMAIN items
           /\ \A i \in DOMAIN items :
                \E j \in Firsts(items) : items[j].url = items[i].url
           /\ \A i, j \in Firsts(items) : items[i].url = items[j].url => i = j
<1>1. DOMAIN items = 1..Len(items) /\ Len(items) \in Nat
  OBVIOUS
<1>2. \A i : i \in Firsts(items) <=>
                /\ i \in DOMAIN items
                /\ \A j \in 1..(i - 1) : items[j].url # items[i].url
  BY DEF Firsts
<1>3. ASSUME NEW i \in DOMAIN items
      PROVE  \E j \in Firsts(items) : items[j].url = items[i].url
  <2> DEFINE T == {j \in DOMAIN items : items[j].url = items[i].url}
  <2>1. T \in SUBSET Nat /\ T # {}
    BY <1>1
  <2>2. PICK n \in T : \A m \in T : n <= m
    <3> HIDE DEF T
    <3> QED BY <2>1, Smallest
  <2>3. n \in 1..Len(items) /\ items[n].url = items[i].url
    BY <1>1
  <2>4. ASSUME NEW j \in 1..(n - 1) PROVE items[j].url # items[n].url
    <3>1. j \in DOMAIN items /\ ~ (n <= j)
      BY <1>1, <2>3
    <3> QED BY <2>2, <2>3, <3>1
  <2> QED BY <1>1, <1>2, <2>3, <2>4
<1>4. ASSUME NEW i \in Firsts(items), NEW j \in Firsts(items),
             items[i].url = items[j].url
      PROVE  i = j
  <2>1. i \in 1..Len(items) /\ j \in 1..Len(items)
    BY <1>1, <1>2
  <2>2. ~ (i \in 1..(j - 1)) /\ ~ (j \in 1..(i - 1))
    BY <1>2, <1>4
  <2> QED BY <1>1, <2>1, <2>2
<1> QED
  BY <1>2, <1>3, <1>4

\* The running sums of a sequence exist, and Total is the last.
LEMMA TotalIsSum ==
    ASSUME NEW s \in Seq(Nat)
    PROVE  \E f \in [0..Len(s) -> Nat] :
             /\ f[0] = 0
             /\ \A n \in 1..Len(s) : f[n] = f[n - 1] + s[n]
             /\ Total(s) = f[Len(s)]
<1> DEFINE N == Len(s)
           Sums(f, n) == /\ f \in [0..n -> Nat]
                         /\ f[0] = 0
                         /\ \A k \in 1..n : f[k] = f[k - 1] + s[k]
           step(f) == [n \in 0..N |-> IF n = 0 THEN 0 ELSE f[n - 1] + s[n]]
           T == {n \in 0..N : ~ \E f : Sums(f, n)}
<1>1. N \in Nat /\ \A n \in 1..N : s[n] \in Nat
  OBVIOUS
<1> HIDE DEF N
<1>2. T = {}
  <2> SUFFICES ASSUME T # {} PROVE FALSE
    OBVIOUS
  <2>1. T \in SUBSET Nat
    BY <1>1
  <2>2. PICK n \in T : \A m \in T : n <= m
    <3> HIDE DEF T
    <3> QED BY <2>1, Smallest
  <2>3. n \in 0..N /\ ~ \E f : Sums(f, n)
    OBVIOUS
  <2>4. CASE n = 0
    <3> DEFINE f == [k \in 0..0 |-> 0]
    <3>1. Sums(f, 0)
      OBVIOUS
    <3> QED BY <2>3, <2>4, <3>1
  <2>5. CASE n # 0
    <3>1. n - 1 \in 0..N /\ ~ (n <= n - 1) /\ n \in 1..N
      BY <1>1, <2>3, <2>5
    <3>2. PICK f : Sums(f, n - 1)
      <4> HIDE DEF Sums
      <4> QED BY <2>2, <3>1
    <3> DEFINE g == [k \in 0..n |-> IF k = n THEN f[n - 1] + s[n] ELSE f[k]]
    <3>3. f[n - 1] \in Nat /\ s[n] \in Nat
      BY <1>1, <3>1, <3>2
    <3>4. \A k \in 0..n : k # n => k \in 0..(n - 1)
      BY <3>1
    <3>5. g \in [0..n -> Nat]
      BY <3>2, <3>3, <3>4
    <3>6. g[0] = 0
      BY <2>5, <3>1, <3>2
    <3>7. ASSUME NEW k \in 1..n PROVE g[k] = g[k - 1] + s[k]
      <4>1. k \in 0..n /\ k - 1 \in 0..n /\ k - 1 # n
        BY <3>1
      <4>2. g[k - 1] = f[k - 1]
        BY <4>1
      <4>3. CASE k = n
        BY <4>1, <4>2, <4>3
      <4>4. CASE k # n
        <5>1. k \in 1..(n - 1)
          BY <3>1, <4>4
        <5>2. f[k] = f[k - 1] + s[k]
          BY <3>2, <5>1
        <5> QED BY <4>1, <4>2, <4>4, <5>2
      <4> QED BY <4>3, <4>4
    <3>8. Sums(g, n)
      <4> HIDE DEF g
      <4> QED BY <3>5, <3>6, <3>7
    <3> HIDE DEF g, Sums
    <3> QED BY <2>3, <3>8
  <2> QED BY <2>4, <2>5
<1>3. PICK f : Sums(f, N)
  <2>1. N \in 0..N
    BY <1>1
  <2> HIDE DEF Sums
  <2> QED BY <1>2, <2>1
<1>4. ASSUME NEW h, Sums(h, N) PROVE h = step(h)
  <2>1. h = [n \in 0..N |-> h[n]]
    BY <1>4
  <2>2. \A n \in 0..N : h[n] = IF n = 0 THEN 0 ELSE h[n - 1] + s[n]
    <3> SUFFICES ASSUME NEW n \in 0..N
                 PROVE  h[n] = IF n = 0 THEN 0 ELSE h[n - 1] + s[n]
      OBVIOUS
    <3>1. n # 0 => n \in 1..N
      BY <1>1
    <3> QED BY <1>4, <3>1
  <2> HIDE DEF Sums
  <2> QED BY <2>1, <2>2
<1>5. \E h : h = step(h)
  <2> HIDE DEF Sums, step
  <2> QED BY <1>3, <1>4
<1> DEFINE c == CHOOSE h : h = step(h)
<1>6. c = step(c)
  <2> HIDE DEF step
  <2> QED BY <1>5
<1>7. Total(s) = c[N]
  BY DEF Total, N
<1> HIDE DEF c
<1>8. Sums(c, N)
  <2> DEFINE U == {n \in 0..N : c[n] \notin Nat}
  <2>1. \A n \in 0..N : c[n] = IF n = 0 THEN 0 ELSE c[n - 1] + s[n]
    BY <1>6
  <2>2. U = {}
    <3> SUFFICES ASSUME U # {} PROVE FALSE
      OBVIOUS
    <3>1. U \in SUBSET Nat
      BY <1>1
    <3>2. PICK n \in U : \A m \in U : n <= m
      <4> HIDE DEF U
      <4> QED BY <3>1, Smallest
    <3>3. n \in 0..N /\ c[n] \notin Nat
      OBVIOUS
    <3>4. n # 0
      BY <2>1, <3>3
    <3>5. n - 1 \in 0..N /\ ~ (n <= n - 1) /\ n \in 1..N
      BY <1>1, <3>3, <3>4
    <3>6. c[n - 1] \in Nat
      BY <3>2, <3>5
    <3>7. c[n] = c[n - 1] + s[n]
      BY <2>1, <3>3, <3>4
    <3> QED BY <1>1, <3>3, <3>5, <3>6, <3>7
  <2>3. \A n \in 0..N : c[n] \in Nat
    BY <2>2
  <2>4. c \in [0..N -> Nat]
    <3>1. c = [n \in 0..N |-> IF n = 0 THEN 0 ELSE c[n - 1] + s[n]]
      BY <1>6
    <3> QED BY <2>1, <2>3, <3>1
  <2>5. 0 \in 0..N /\ \A k \in 1..N : k \in 0..N /\ k # 0
    BY <1>1
  <2> QED BY <2>1, <2>4, <2>5
<1> QED
  BY <1>7, <1>8 DEF N

LEMMA Division ==
    ASSUME NEW T \in Nat, NEW N \in Nat \ {0}
    PROVE  /\ T \div N \in Nat /\ T % N \in Nat /\ T % N < N
           /\ T = (T \div N) * N + (T % N)
<1> DEFINE q == T \div N
           r == T % N
<1>1. q \in Int /\ r \in 0..(N - 1) /\ T = N * q + r
  OBVIOUS
<1> HIDE DEF q, r
<1>2. q \in Nat
  <2> SUFFICES ASSUME ~ (q >= 0) PROVE FALSE
    BY <1>1
  <2>1. N * (q + 1) <= 0 /\ N * (q + 1) = N * q + N
    BY <1>1
  <2> DEFINE a == N * q
  <2>2. a \in Int /\ a + N <= 0 /\ T = a + r
    BY <1>1, <2>1
  <2> HIDE DEF a
  <2> QED BY <1>1, <2>2
<1>3. N * q = q * N
  BY <1>1
<1>4. q \in Nat /\ r \in Nat /\ r < N /\ T = q * N + r
  BY <1>1, <1>2, <1>3
<1> QED
  BY <1>4 DEF q, r

\* One share more: the sum of n - 1 shares, within its bound, stays within it.
LEMMA OneMoreShare ==
    ASSUME NEW n \in Nat, n # 0, NEW q \in Nat, NEW r \in Nat,
           NEW a \in Nat, NEW x \in Nat, NEW y \in Nat,
           y <= a + (IF n - 1 <= r THEN n - 1 ELSE r),
           x <= q + (IF n <= r THEN 1 ELSE 0)
    PROVE  y + x <= a + q + (IF n <= r THEN n ELSE r)
<1>1. CASE n <= r
  BY <1>1
<1>2. CASE ~ (n <= r)
  BY <1>2
<1> QED
  BY <1>1, <1>2

\* Equal shares of what is left, the remainder going to the first, fit into it.
LEMMA SharesFit ==
    ASSUME NEW T \in Nat, NEW s \in Seq(Nat),
           \A i \in 1..Len(s) : s[i] <= Share(T, Len(s), i)
    PROVE  Total(s) <= T
<1> DEFINE N == Len(s)
           q == T \div N
           r == T % N
           bound(k) == q * k + (IF k <= r THEN k ELSE r)
<1>1. N \in Nat /\ \A n \in 1..N : s[n] \in Nat
  OBVIOUS
<1>2. PICK f \in [0..N -> Nat] :
        /\ f[0] = 0
        /\ \A n \in 1..N : f[n] = f[n - 1] + s[n]
        /\ Total(s) = f[N]
  BY TotalIsSum
<1>3. CASE N = 0
  BY <1>2, <1>3
<1>4. CASE N # 0
  <2>1. \A k \in 1..N : s[k] <= q + (IF k <= r THEN 1 ELSE 0)
    BY DEF Share
  <2> HIDE DEF N
  <2>2. q \in Nat /\ r \in Nat /\ r < N /\ T = q * N + r
    BY <1>1, <1>4, Division
  <2> HIDE DEF q, r
  <2> DEFINE U == {n \in 0..N : ~ (f[n] <= bound(n))}
  <2>3. U = {}
    <3> SUFFICES ASSUME U # {} PROVE FALSE
      OBVIOUS
    <3>1. U \in SUBSET Nat
      BY <1>1
    <3>2. PICK n \in U : \A m \in U : n <= m
      <4> HIDE DEF U
      <4> QED BY <3>1, Smallest
    <3>3. n \in 0..N /\ ~ (f[n] <= bound(n))
      OBVIOUS
    <3>4. n # 0
      <4>1. bound(0) = 0
        BY <2>2
      <4> HIDE DEF bound
      <4> QED BY <1>2, <3>3, <4>1
    <3>5. n - 1 \in 0..N /\ ~ (n <= n - 1) /\ n \in 1..N /\ n \in Nat /\ n - 1 \in Nat
      BY <1>1, <3>3, <3>4
    <3>6. f[n - 1] <= bound(n - 1)
      <4> HIDE DEF bound
      <4> QED BY <3>2, <3>5
    <3>7. f[n] = f[n - 1] + s[n] /\ f[n - 1] \in Nat /\ s[n] \in Nat
      BY <1>1, <1>2, <3>5
    <3>8. q * n = q * (n - 1) + q /\ q * n \in Nat /\ q * (n - 1) \in Nat
      BY <2>2, <3>5
    <3>9. f[n] <= bound(n)
      <4> DEFINE a == q * (n - 1)
                 y == f[n - 1]
      <4>1. y <= a + (IF n - 1 <= r THEN n - 1 ELSE r)
        BY <3>6
      <4>2. s[n] <= q + (IF n <= r THEN 1 ELSE 0)
        BY <2>1, <3>5
      <4>3. y \in Nat /\ s[n] \in Nat /\ a \in Nat
        BY <3>7, <3>8
      <4>4. q \in Nat /\ r \in Nat /\ n \in Nat /\ n # 0
        BY <2>2, <3>4, <3>5
      <4> HIDE DEF a, y, bound, U
      <4>5. y + s[n] <= a + q + (IF n <= r THEN n ELSE r)
        BY <4>1, <4>2, <4>3, <4>4, OneMoreShare
      <4>6. f[n] = y + s[n] /\ q * n = a + q
        BY <3>7, <3>8 DEF a, y
      <4>7. f[n] <= q * n + (IF n <= r THEN n ELSE r)
        BY <4>5, <4>6
      <4> QED BY <4>7 DEF bound
    <3> QED BY <3>3, <3>9
  <2>4. f[N] <= bound(N)
    <3> HIDE DEF bound
    <3>1. N \in 0..N
      BY <1>1
    <3> QED BY <2>3, <3>1
  <2>5. bound(N) = T
    BY <2>2, <1>1
  <2> QED BY <1>2, <2>4, <2>5
<1> QED
  BY <1>3, <1>4

-----------------------------------------------------------------------------
(* Elements of sequences.                                                   *)

LEMMA TailElements ==
    ASSUME NEW S, NEW s \in Seq(S), s # <<>>
    PROVE  /\ Tail(s) \in Seq(S) /\ Head(s) \in S /\ Head(s) = s[1] /\ 1 \in DOMAIN s
           /\ Len(Tail(s)) = Len(s) - 1 /\ Len(s) \in Nat
           /\ \A i \in DOMAIN Tail(s) : i + 1 \in DOMAIN s /\ Tail(s)[i] = s[i + 1]
           /\ \A i \in DOMAIN s :
                i = 1 \/ (i - 1 \in DOMAIN Tail(s) /\ Tail(s)[i - 1] = s[i])
<1>1. /\ Len(s) \in Nat /\ Len(s) # 0 /\ DOMAIN s = 1..Len(s)
      /\ Tail(s) \in Seq(S) /\ Len(Tail(s)) = Len(s) - 1
      /\ DOMAIN Tail(s) = 1..(Len(s) - 1)
  OBVIOUS
<1>2. \A i \in 1..(Len(s) - 1) : Tail(s)[i] = s[i + 1]
  OBVIOUS
<1>3. \A i \in 1..Len(s) : i # 1 => i - 1 \in 1..(Len(s) - 1) /\ (i - 1) + 1 = i
  BY <1>1
<1>4. Head(s) = s[1] /\ 1 \in DOMAIN s /\ Head(s) \in S
  BY <1>1
<1>5. \A i \in 1..(Len(s) - 1) : i + 1 \in 1..Len(s)
  BY <1>1
<1> QED
  BY <1>1, <1>2, <1>3, <1>4, <1>5, Zenon

LEMMA AppendElements ==
    ASSUME NEW S, NEW s \in Seq(S), NEW e \in S
    PROVE  /\ Append(s, e) \in Seq(S) /\ Len(Append(s, e)) = Len(s) + 1 /\ Len(s) \in Nat
           /\ Len(s) + 1 \in DOMAIN Append(s, e) /\ Append(s, e)[Len(s) + 1] = e
           /\ \A i \in DOMAIN s : i \in DOMAIN Append(s, e) /\ Append(s, e)[i] = s[i]
           /\ \A i \in DOMAIN Append(s, e) : i \in DOMAIN s \/ i = Len(s) + 1
           /\ \A i \in DOMAIN s : i \in 1..Len(s)
  OBVIOUS

LEMMA ConcatElements ==
    ASSUME NEW S, NEW s \in Seq(S), NEW t \in Seq(S)
    PROVE  /\ s \o t \in Seq(S)
           /\ \A i \in DOMAIN s : i \in DOMAIN (s \o t) /\ (s \o t)[i] = s[i]
           /\ \A i \in DOMAIN t : Len(s) + i \in DOMAIN (s \o t) /\ (s \o t)[Len(s) + i] = t[i]
           /\ \A i \in DOMAIN (s \o t) :
                \/ i \in DOMAIN s
                \/ i - Len(s) \in DOMAIN t /\ (s \o t)[i] = t[i - Len(s)]
<1>1. /\ Len(s) \in Nat /\ DOMAIN s = 1..Len(s) /\ Len(t) \in Nat /\ DOMAIN t = 1..Len(t)
      /\ s \o t \in Seq(S) /\ Len(s \o t) = Len(s) + Len(t)
      /\ DOMAIN (s \o t) = 1..(Len(s) + Len(t))
  OBVIOUS
<1>2. \A i \in 1..(Len(s) + Len(t)) :
        (s \o t)[i] = IF i <= Len(s) THEN s[i] ELSE t[i - Len(s)]
  BY ConcatProperties
<1> QED
  BY <1>1, <1>2

\* A level is the start of the queue, and the rest stays.
LEMMA SplitElements ==
    ASSUME NEW S, NEW s \in Seq(S), NEW n \in 0..Len(s)
    PROVE  /\ SubSeq(s, 1, n) \in Seq(S) /\ SubSeq(s, n + 1, Len(s)) \in Seq(S)
           /\ \A i \in DOMAIN SubSeq(s, 1, n) : i \in DOMAIN s /\ SubSeq(s, 1, n)[i] = s[i]
           /\ n = Len(s) => SubSeq(s, 1, n) = s /\ SubSeq(s, n + 1, Len(s)) = <<>>
  OBVIOUS

LEMMA ItemsElements ==
    ASSUME NEW urls \in Seq(Urls), NEW D, NEW depth \in D
    PROVE  /\ ItemsOf(urls, depth) \in Seq([url : Urls, depth : D])
           /\ DOMAIN ItemsOf(urls, depth) = DOMAIN urls
           /\ Len(ItemsOf(urls, depth)) = Len(urls)
           /\ \A i \in DOMAIN urls : /\ ItemsOf(urls, depth)[i].url = urls[i]
                                     /\ ItemsOf(urls, depth)[i].depth = depth
<1>1. DOMAIN urls = 1..Len(urls) /\ Len(urls) \in Nat /\ \A i \in 1..Len(urls) : urls[i] \in Urls
  OBVIOUS
<1> DEFINE t == [i \in 1..Len(urls) |-> [url |-> urls[i], depth |-> depth]]
<1>2. ItemsOf(urls, depth) = t
  BY <1>1 DEF ItemsOf
<1>3. t \in [1..Len(urls) -> [url : Urls, depth : D]]
  BY <1>1
<1>4. \A i \in 1..Len(urls) : t[i].url = urls[i] /\ t[i].depth = depth
  OBVIOUS
<1> HIDE DEF t
<1>5. t \in Seq([url : Urls, depth : D]) /\ Len(t) = Len(urls) /\ DOMAIN t = 1..Len(urls)
  <2> DEFINE R == [url : Urls, depth : D]
             n == Len(urls)
  <2>1. n \in Nat /\ t \in [1..n -> R]
    BY <1>1, <1>3
  <2> HIDE DEF R, n
  <2>2. t \in Seq(R) /\ Len(t) = n /\ DOMAIN t = 1..n
    BY <2>1
  <2> QED BY <2>2 DEF R, n
<1> QED
  BY <1>1, <1>2, <1>4, <1>5

-----------------------------------------------------------------------------
(* What the helpers of the actions do.                                      *)

LEMMA ItemsType ==
    ASSUME NEW urls \in Seq(Urls), NEW depth \in 0..MaxDepth
    PROVE  /\ ItemsOf(urls, depth) \in Seq(Items)
           /\ DOMAIN ItemsOf(urls, depth) = DOMAIN urls
           /\ \A i \in DOMAIN urls : /\ ItemsOf(urls, depth)[i].url = urls[i]
                                     /\ ItemsOf(urls, depth)[i].depth = depth
<1>1. ItemsOf(urls, depth) \in Seq([url : Urls, depth : 0..MaxDepth])
  BY ItemsElements
<1>2. /\ DOMAIN ItemsOf(urls, depth) = DOMAIN urls
      /\ \A i \in DOMAIN urls : /\ ItemsOf(urls, depth)[i].url = urls[i]
                                /\ ItemsOf(urls, depth)[i].depth = depth
  BY ItemsElements
<1> QED
  BY <1>1, <1>2 DEF Items

LEMMA Bounds ==
    /\ MaxDepth \in Nat /\ MaxRedirects \in Nat /\ RenderRedirects \in Nat
    /\ SitemapDepth \in Nat /\ SitemapLocations \in Nat
    /\ Limit \in Nat \ {0} /\ MaxBytes \in Nat /\ RenderBytes \in Nat
  BY CrawlAssumption DEF CrawlAssumption

LEMMA Site ==
    /\ OriginOf \in [Urls -> Origins] /\ Root \in Urls /\ DefaultSitemap \in Urls
    /\ InScope \subseteq Urls
    /\ Links \in [Urls -> Seq(Urls)] /\ Canonical \in [Urls -> Urls]
    /\ Redirects \in [Urls -> SUBSET Urls]
    /\ DeclaredSitemaps \in Seq(Urls)
    /\ SitemapOf \in [Urls -> [kind : {"index", "urlset"}, locations : Seq(Urls)]]
    /\ Sizes \subseteq Nat /\ Expansions \subseteq Nat
    /\ \A m \in Modes : m.robots \in {"respect", "ignore"}
                          /\ m.sitemap \in {"include", "skip", "only"}
  BY CrawlAssumption DEF CrawlAssumption

\* A budget that is spent stops the crawl, unless it is stopped already.
Stopping == UNCHANGED signals \/ \E reason \in {"maxBytes", "maxRedirects"} : Stop(reason)

LEMMA StoppingEffect ==
    ASSUME TypeOK, Stopping
    PROVE  /\ aborted' \subseteq {"budget", "cancelled", "timeout"}
           /\ stopped' \in Reasons \cup {NoReason} /\ partial' \in BOOLEAN
           /\ stopped # NoReason => UNCHANGED signals
           /\ UNCHANGED signals \/ (stopped = NoReason /\ partial' /\ aborted' # {})
           /\ aborted \subseteq aborted'
<1>1. CASE UNCHANGED signals
  BY <1>1 DEF signals, TypeOK
<1>2. CASE ~ UNCHANGED signals
  <2>1. /\ stopped = NoReason /\ stopped' \in {"maxBytes", "maxRedirects"}
        /\ partial' = TRUE /\ aborted' = aborted \cup {"budget"}
    BY <1>2 DEF Stopping, Stop
  <2> QED BY <2>1 DEF TypeOK, Reasons
<1> QED BY <1>1, <1>2

\* What is spent fits.
Spending ==
    UNCHANGED spent \/ \E b, r \in Nat : Fits(b, r) /\ Spend(b, r)

LEMMA SpendingEffect ==
    ASSUME TypeOK, Spending, spent.bytes <= MaxBytes, spent.redirects <= MaxRedirects
    PROVE  /\ spent' \in [bytes : Nat, redirects : Nat]
           /\ spent'.bytes <= MaxBytes /\ spent'.redirects <= MaxRedirects
<1>1. CASE UNCHANGED spent
  BY <1>1 DEF TypeOK
<1>2. CASE \E b, r \in Nat : Fits(b, r) /\ Spend(b, r)
  <2>1. PICK b \in Nat, r \in Nat : Fits(b, r) /\ Spend(b, r)
    BY <1>2
  <2>2. spent.bytes \in Nat /\ spent.redirects \in Nat
    BY DEF TypeOK
  <2>3. spent' = [bytes |-> spent.bytes + b, redirects |-> spent.redirects + r]
    BY <2>1 DEF Spend
  <2> QED BY <2>1, <2>2, <2>3 DEF Fits
<1> QED BY <1>1, <1>2 DEF Spending

LEMMA ExceededReason == ASSUME NEW r PROVE Exceeded(r) \in {"maxBytes", "maxRedirects"}
  BY DEF Exceeded

LEMMA FetchRobotsEffect ==
    ASSUME TypeOK, NEW o \in Origins, FetchRobots(o)
    PROVE  /\ \E policy \in {"unavailable", "open", "rules"} :
                robots' = [robots EXCEPT ![o] = policy]
           /\ Stopping /\ Spending
           /\ aborted # {} => UNCHANGED spent
<1>1. CASE /\ spent.bytes = MaxBytes
           /\ robots' = [robots EXCEPT ![o] = "unavailable"]
           /\ Stop("maxBytes")
           /\ UNCHANGED spent
  BY <1>1 DEF Stopping, Spending
<1>2. CASE /\ aborted # {}
           /\ spent.bytes < MaxBytes
           /\ robots' = [robots EXCEPT ![o] = "unavailable"]
           /\ UNCHANGED <<signals, spent>>
  BY <1>2 DEF Stopping, Spending
<1>3. ASSUME aborted = {}, NEW bytes \in Sizes, NEW redirects \in 0..1,
             IF Fits(bytes, redirects)
             THEN /\ Spend(bytes, redirects)
                  /\ \E policy \in Policies(o) : robots' = [robots EXCEPT ![o] = policy]
                  /\ UNCHANGED signals
             ELSE /\ robots' = [robots EXCEPT ![o] = "unavailable"]
                  /\ Stop(Exceeded(redirects))
                  /\ UNCHANGED spent
      PROVE  /\ \E policy \in {"unavailable", "open", "rules"} :
                  robots' = [robots EXCEPT ![o] = policy]
             /\ Stopping /\ Spending
  <2>1. bytes \in Nat /\ redirects \in Nat
    BY Site
  <2>2. CASE Fits(bytes, redirects)
    BY <1>3, <2>1, <2>2 DEF Stopping, Spending, Policies
  <2>3. CASE ~ Fits(bytes, redirects)
    BY <1>3, <2>3, ExceededReason DEF Stopping, Spending
  <2> QED BY <2>2, <2>3
<1> QED
  BY <1>1, <1>2, <1>3 DEF FetchRobots

LEMMA DistinctElements ==
    ASSUME NEW S, NEW items \in Seq(S)
    PROVE  /\ Distinct(items) \in Seq(S)
           /\ \A k \in DOMAIN Distinct(items) :
                \E i \in DOMAIN items : Distinct(items)[k] = items[i]
           /\ \A i \in DOMAIN items :
                \E k \in DOMAIN Distinct(items) : Distinct(items)[k].url = items[i].url
<1> DEFINE P == Firsts(items)
<1>1. P \in SUBSET DOMAIN items
  BY FirstOfEach
<1>2. \A i \in DOMAIN items : \E j \in P : items[j].url = items[i].url
  BY FirstOfEach
<1>3. Distinct(items) = Picked(items, P)
  BY DEF Distinct
<1> HIDE DEF P
<1>4. /\ Picked(items, P) \in Seq(S)
      /\ \A k \in DOMAIN Picked(items, P) : Nth(P, k) \in P /\ Picked(items, P)[k] = items[Nth(P, k)]
      /\ \A i \in P : \E k \in DOMAIN Picked(items, P) : Nth(P, k) = i
  BY <1>1, PickedElements
<1>5. \A k \in DOMAIN Distinct(items) :
        \E i \in DOMAIN items : Distinct(items)[k] = items[i]
  BY <1>1, <1>3, <1>4
<1>6. ASSUME NEW i \in DOMAIN items
      PROVE  \E k \in DOMAIN Distinct(items) : Distinct(items)[k].url = items[i].url
  <2>1. PICK j \in P : items[j].url = items[i].url
    BY <1>2
  <2>2. PICK k \in DOMAIN Picked(items, P) : Nth(P, k) = j
    BY <1>4
  <2> QED BY <1>3, <1>4, <2>1, <2>2
<1> QED
  BY <1>3, <1>4, <1>5, <1>6

LEMMA NewElements ==
    ASSUME TypeOK
    PROVE  /\ New \in Seq(Items)
           /\ \A k \in DOMAIN New : /\ New[k].url \notin queued \cup seen
                                    /\ \E i \in DOMAIN additions : New[k] = additions[i]
           /\ UrlsOf(additions) \subseteq queued \cup seen \cup UrlsOf(New)
<1> DEFINE P == {i \in Firsts(additions) : additions[i].url \notin queued \cup seen}
<1>1. additions \in Seq(Items)
  BY DEF TypeOK
<1>2. /\ Firsts(additions) \in SUBSET DOMAIN additions
      /\ \A i \in DOMAIN additions :
           \E j \in Firsts(additions) : additions[j].url = additions[i].url
  BY <1>1, FirstOfEach
<1>3. P \in SUBSET DOMAIN additions
  BY <1>2
<1>4. New = Picked(additions, P)
  BY DEF New
<1>5. /\ \A i \in P : additions[i].url \notin queued \cup seen
      /\ \A i \in Firsts(additions) : additions[i].url \notin queued \cup seen => i \in P
  OBVIOUS
<1> HIDE DEF P
<1>6. /\ Picked(additions, P) \in Seq(Items)
      /\ \A k \in DOMAIN Picked(additions, P) :
           Nth(P, k) \in P /\ Picked(additions, P)[k] = additions[Nth(P, k)]
      /\ \A i \in P : \E k \in DOMAIN Picked(additions, P) : Nth(P, k) = i
  BY <1>1, <1>3, PickedElements
<1>7. \A k \in DOMAIN New : /\ New[k].url \notin queued \cup seen
                            /\ \E i \in DOMAIN additions : New[k] = additions[i]
  BY <1>3, <1>4, <1>5, <1>6
<1>8. ASSUME NEW i \in DOMAIN additions, additions[i].url \notin queued \cup seen
      PROVE  additions[i].url \in UrlsOf(New)
  <2>1. PICK j \in Firsts(additions) : additions[j].url = additions[i].url
    BY <1>2
  <2>2. j \in P
    BY <1>5, <1>8, <2>1
  <2>3. PICK k \in DOMAIN New : New[k] = additions[j]
    BY <1>4, <1>6, <2>2
  <2> QED BY <2>1, <2>3 DEF UrlsOf
<1> QED
  BY <1>4, <1>6, <1>7, <1>8 DEF UrlsOf

LEMMA FetchesElements ==
    ASSUME TypeOK
    PROVE  /\ Fetches \in Seq(Jobs) /\ Len(Fetches) <= Len(batch) /\ Len(Fetches) \in Nat
           /\ \E f \in [1..Len(Fetches) -> DOMAIN batch] :
                /\ \A k \in 1..Len(Fetches) :
                     Fetches[k] = batch[f[k]] /\ batch[f[k]].state = "allowed"
                /\ \A k, l \in 1..Len(Fetches) : f[k] = f[l] => k = l
                /\ \A i \in DOMAIN batch :
                     batch[i].state = "allowed" => \E k \in 1..Len(Fetches) : f[k] = i
<1> DEFINE P == {i \in DOMAIN batch : batch[i].state = "allowed"}
           f == [k \in 1..Len(Fetches) |-> Nth(P, k)]
<1>1. batch \in Seq(Jobs)
  BY DEF TypeOK
<1>2. P \in SUBSET DOMAIN batch /\ Fetches = Picked(batch, P)
  BY DEF Fetches
<1>3. \A i \in DOMAIN batch : batch[i].state = "allowed" <=> i \in P
  OBVIOUS
<1> HIDE DEF P
<1>4. /\ Picked(batch, P) \in Seq(Jobs)
      /\ Len(Picked(batch, P)) <= Len(batch)
      /\ DOMAIN Picked(batch, P) = 1..Len(Picked(batch, P))
      /\ \A k \in DOMAIN Picked(batch, P) : Nth(P, k) \in P /\ Picked(batch, P)[k] = batch[Nth(P, k)]
      /\ \A k, l \in DOMAIN Picked(batch, P) : Nth(P, k) = Nth(P, l) => k = l
      /\ \A i \in P : \E k \in DOMAIN Picked(batch, P) : Nth(P, k) = i
  BY <1>1, <1>2, PickedElements
<1>5. f \in [1..Len(Fetches) -> DOMAIN batch]
  BY <1>2, <1>4
<1>6. \A k \in 1..Len(Fetches) : Fetches[k] = batch[f[k]] /\ batch[f[k]].state = "allowed"
  BY <1>2, <1>3, <1>4
<1>7. \A k, l \in 1..Len(Fetches) : f[k] = f[l] => k = l
  BY <1>2, <1>4
<1>8. ASSUME NEW i \in DOMAIN batch, batch[i].state = "allowed"
      PROVE  \E k \in 1..Len(Fetches) : f[k] = i
  BY <1>2, <1>3, <1>4, <1>8
<1>9. Fetches \in Seq(Jobs) /\ Len(Fetches) <= Len(batch) /\ Len(Fetches) \in Nat
  <2>1. Fetches \in Seq(Jobs) /\ Len(Fetches) <= Len(batch)
    BY <1>2, <1>4
  <2> QED BY <2>1, LenProperties
<1> HIDE DEF f
<1> QED
  BY <1>5, <1>6, <1>7, <1>8, <1>9

LEMMA DeclaredType == ASSUME NEW o PROVE DeclaredBy(o) \in Seq(Urls)
<1> DEFINE P == {i \in DOMAIN DeclaredSitemaps : OriginOf[DeclaredSitemaps[i]] = o}
<1>1. P \in SUBSET DOMAIN DeclaredSitemaps /\ DeclaredBy(o) = Picked(DeclaredSitemaps, P)
  BY DEF DeclaredBy
<1> HIDE DEF P
<1>2. DeclaredSitemaps \in Seq(Urls)
  BY Site
<1> QED BY <1>1, <1>2, PickedElements

LEMMA DiscoveredElements ==
    ASSUME Outcome.final \in Urls, NEW depth \in 0..MaxDepth
    PROVE  /\ Discovered(depth) \in Seq(Items)
           /\ \A i \in DOMAIN Discovered(depth) : Discovered(depth)[i].depth = depth
           /\ \A u \in ToSet(Links[Outcome.final]) :
                u \in InScope \ Recognized => u \in UrlsOf(Discovered(depth))
<1> DEFINE links == Links[Outcome.final]
           P == {i \in DOMAIN links : links[i] \in InScope \ Recognized}
           found == Picked(links, P)
<1>1. links \in Seq(Urls)
  BY Site
<1>2. P \in SUBSET DOMAIN links
  OBVIOUS
<1>3. Discovered(depth) = ItemsOf(found, depth)
  BY DEF Discovered
<1>4. ToSet(links) = {links[i] : i \in DOMAIN links}
  BY DEF ToSet
<1>5. \A i \in DOMAIN links : links[i] \in InScope \ Recognized => i \in P
  OBVIOUS
<1>6. found = Picked(links, P)
  OBVIOUS
<1> HIDE DEF links, P, found
<1>7. /\ found \in Seq(Urls)
      /\ \A k \in DOMAIN found : Nth(P, k) \in P /\ found[k] = links[Nth(P, k)]
      /\ \A i \in P : \E k \in DOMAIN found : Nth(P, k) = i
  BY <1>1, <1>2, <1>6, PickedElements
<1>8. /\ ItemsOf(found, depth) \in Seq(Items)
      /\ DOMAIN ItemsOf(found, depth) = DOMAIN found
      /\ \A i \in DOMAIN found : /\ ItemsOf(found, depth)[i].url = found[i]
                                 /\ ItemsOf(found, depth)[i].depth = depth
  <2>1. found \in Seq(Urls)
    BY <1>7
  <2> QED BY <2>1, ItemsType
<1>9. ASSUME NEW u \in ToSet(links), u \in InScope \ Recognized
      PROVE  u \in UrlsOf(Discovered(depth))
  <2>1. PICK i \in P : links[i] = u
    <3>1. PICK i \in DOMAIN links : links[i] = u
      BY <1>4, <1>9
    <3> QED BY <1>5, <1>9, <3>1
  <2>2. PICK k \in DOMAIN found : found[k] = u
    BY <1>7, <2>1
  <2> QED BY <1>3, <1>8, <2>2 DEF UrlsOf
<1> QED
  BY <1>3, <1>8, <1>9 DEF links

LEMMA OutcomeType ==
    ASSUME TypeOK, Round, phase = "outcomes"
    PROVE  /\ batch # <<>> /\ 1 \in DOMAIN batch /\ Head(batch) = batch[1] /\ batch[1] \in Jobs
           /\ Outcome = batch[1].result
           /\ Outcome.ok \in BOOLEAN /\ Outcome.final \in Urls /\ Outcome.bytes \in Nat
           /\ Outcome.redirects \in Nat /\ Outcome.extra \in Nat
           /\ Tail(batch) \in Seq(Jobs)
<1>1. batch # <<>> /\ batch \in Seq(Jobs)
  BY DEF TypeOK, Round
<1>2. 1 \in DOMAIN batch /\ Head(batch) = batch[1] /\ Tail(batch) \in Seq(Jobs) /\ Head(batch) \in Jobs
  BY <1>1, TailElements
<1>3. batch[1].result \in Results
  BY <1>2 DEF Jobs
<1>4. Outcome = batch[1].result
  BY <1>2 DEF Outcome
<1> QED
  BY <1>1, <1>2, <1>3, <1>4 DEF Results

LEMMA KeyType == ASSUME NEW u \in Urls PROVE OutputKey(u) \in Urls
  BY Site DEF OutputKey

\* A job of the round changes in its state and in what it was answered.
LEMMA BatchUpdate ==
    ASSUME TypeOK, NEW i \in DOMAIN batch, NEW new \in Jobs,
           batch' = [batch EXCEPT ![i] = new]
    PROVE  /\ batch' \in Seq(Jobs) /\ Len(batch') = Len(batch)
           /\ DOMAIN batch' = DOMAIN batch
           /\ batch'[i] = new
           /\ \A j \in DOMAIN batch : j # i => batch'[j] = batch[j]
<1>1. batch \in Seq(Jobs) /\ i \in 1..Len(batch)
  BY DEF TypeOK
<1> DEFINE b == [batch EXCEPT ![i] = new]
<1>2. /\ b \in Seq(Jobs) /\ Len(b) = Len(batch)
      /\ \A j \in 1..Len(batch) : b[j] = IF j = i THEN new ELSE batch[j]
      /\ DOMAIN b = 1..Len(batch) /\ DOMAIN batch = 1..Len(batch)
  BY <1>1
<1> HIDE DEF b
<1>3. batch' = b
  BY DEF b
<1> QED
  BY <1>1, <1>2, <1>3

\* The job a step leaves at position i, by the action that took it.
LEMMA JobSteps ==
    ASSUME TypeOK, NEW i \in DOMAIN batch
    PROVE  /\ batch[i] \in Jobs
           /\ \A s \in {"candidate", "allowed", "refused", "waiting", "running", "fetched", "threw"} :
                /\ [batch[i] EXCEPT !.state = s] \in Jobs
                /\ [batch[i] EXCEPT !.state = s].state = s
                /\ [batch[i] EXCEPT !.state = s].url = batch[i].url
                /\ [batch[i] EXCEPT !.state = s].depth = batch[i].depth
                /\ [batch[i] EXCEPT !.state = s].bytes = batch[i].bytes
                /\ [batch[i] EXCEPT !.state = s].redirects = batch[i].redirects
                /\ [batch EXCEPT ![i].state = s] =
                     [batch EXCEPT ![i] = [batch[i] EXCEPT !.state = s]]
<1>1. batch \in Seq(Jobs)
  BY DEF TypeOK
<1>2. batch[i] \in Jobs
  BY <1>1
<1> QED
  BY <1>2 DEF Jobs

\* The job at position i reaches state s; its page and its share stay.
Reaches(i, s) ==
    /\ i \in DOMAIN batch
    /\ batch' \in Seq(Jobs) /\ Len(batch') = Len(batch) /\ DOMAIN batch' = DOMAIN batch
    /\ batch'[i].state = s
    /\ \A j \in DOMAIN batch :
         /\ batch'[j].url = batch[j].url /\ batch'[j].depth = batch[j].depth
         /\ batch'[j].bytes = batch[j].bytes /\ batch'[j].redirects = batch[j].redirects
         /\ j # i => batch'[j].state = batch[j].state

LEMMA StateReached ==
    ASSUME TypeOK, NEW i \in DOMAIN batch,
           NEW s \in {"candidate", "allowed", "refused", "waiting", "running", "fetched", "threw"},
           batch' = [batch EXCEPT ![i].state = s]
    PROVE  Reaches(i, s)
<1> DEFINE new == [batch[i] EXCEPT !.state = s]
<1>1. /\ new \in Jobs /\ new.state = s /\ new.url = batch[i].url /\ new.depth = batch[i].depth
      /\ new.bytes = batch[i].bytes /\ new.redirects = batch[i].redirects
      /\ batch' = [batch EXCEPT ![i] = new]
  <2> DEFINE states == {"candidate", "allowed", "refused", "waiting", "running", "fetched", "threw"}
  <2>1. s \in states
    OBVIOUS
  <2> HIDE DEF states
  <2>2. \A t \in states :
          /\ [batch[i] EXCEPT !.state = t] \in Jobs
          /\ [batch[i] EXCEPT !.state = t].state = t
          /\ [batch[i] EXCEPT !.state = t].url = batch[i].url
          /\ [batch[i] EXCEPT !.state = t].depth = batch[i].depth
          /\ [batch[i] EXCEPT !.state = t].bytes = batch[i].bytes
          /\ [batch[i] EXCEPT !.state = t].redirects = batch[i].redirects
          /\ [batch EXCEPT ![i].state = t] =
               [batch EXCEPT ![i] = [batch[i] EXCEPT !.state = t]]
    BY JobSteps, Zenon DEF states
  <2> QED BY <2>1, <2>2
<1> HIDE DEF new
<1>2. /\ batch' \in Seq(Jobs) /\ Len(batch') = Len(batch) /\ DOMAIN batch' = DOMAIN batch
      /\ batch'[i] = new
      /\ \A j \in DOMAIN batch : j # i => batch'[j] = batch[j]
  <2>1. new \in Jobs /\ batch' = [batch EXCEPT ![i] = new]
    BY <1>1
  <2> QED BY <2>1, BatchUpdate
<1> QED
  BY <1>1, <1>2 DEF Reaches

LEMMA Finished ==
    ASSUME TypeOK, NEW i \in DOMAIN batch, NEW r \in Results,
           batch' = [batch EXCEPT ![i].state = "fetched", ![i].result = r]
    PROVE  Reaches(i, "fetched")
<1> DEFINE new == [batch[i] EXCEPT !.state = "fetched", !.result = r]
<1>0. batch[i] \in Jobs
  BY DEF TypeOK
<1>1. /\ new \in Jobs /\ new.state = "fetched" /\ new.url = batch[i].url
      /\ new.depth = batch[i].depth
      /\ new.bytes = batch[i].bytes /\ new.redirects = batch[i].redirects
  BY <1>0 DEF Jobs
<1>2. batch' = [batch EXCEPT ![i] = new]
  BY <1>0 DEF Jobs
<1> HIDE DEF new
<1>3. /\ batch' \in Seq(Jobs) /\ Len(batch') = Len(batch) /\ DOMAIN batch' = DOMAIN batch
      /\ batch'[i] = new
      /\ \A j \in DOMAIN batch : j # i => batch'[j] = batch[j]
  BY <1>1, <1>2, BatchUpdate
<1> QED
  BY <1>1, <1>3 DEF Reaches

\* A verdict: the policy that gave it is the one cached afterwards.
LEMMA CheckRobotsEffect ==
    ASSUME TypeOK, NEW i, CheckRobots(i)
    PROVE  LET o == OriginOf[batch[i].url] IN
           /\ i \in DOMAIN batch /\ batch[i].state = "candidate" /\ phase = "eligible"
           /\ o \in Origins
           /\ \/ /\ UNCHANGED <<robots, signals, spent>>
                 /\ mode.robots = "ignore" \/ robots[o] # "unknown"
              \/ /\ mode.robots # "ignore" /\ robots[o] = "unknown"
                 /\ \E policy \in {"unavailable", "open", "rules"} :
                      robots' = [robots EXCEPT ![o] = policy]
                 /\ Stopping /\ Spending
           /\ \E policy : /\ Judge(i, policy)
                          /\ policy = IF mode.robots = "ignore" THEN "open" ELSE robots'[o]
           /\ \/ Allows(IF mode.robots = "ignore" THEN "open" ELSE robots'[o], batch[i].url)
                   /\ Reaches(i, "allowed")
              \/ ~ Allows(IF mode.robots = "ignore" THEN "open" ELSE robots'[o], batch[i].url)
                   /\ Reaches(i, "refused")
<1> DEFINE o == OriginOf[batch[i].url]
           policy == IF mode.robots = "ignore" THEN "open" ELSE robots'[o]
<1>1. i \in DOMAIN batch /\ batch[i].state = "candidate" /\ phase = "eligible"
  BY DEF CheckRobots
<1>2. batch[i] \in Jobs
  BY <1>1 DEF TypeOK
<1>3. o \in Origins
  BY <1>2, Site DEF Jobs
<1>4. \/ /\ UNCHANGED <<robots, signals, spent>>
         /\ mode.robots = "ignore" \/ robots[o] # "unknown"
      \/ /\ mode.robots # "ignore" /\ robots[o] = "unknown"
         /\ FetchRobots(o)
  BY DEF CheckRobots
<1>5. Judge(i, policy)
  BY DEF CheckRobots
<1>6. FetchRobots(o) => /\ \E p \in {"unavailable", "open", "rules"} :
                              robots' = [robots EXCEPT ![o] = p]
                        /\ Stopping /\ Spending
  BY <1>3, FetchRobotsEffect
<1> HIDE DEF policy
<1>7. batch' = [batch EXCEPT ![i].state = IF Allows(policy, batch[i].url)
                                          THEN "allowed" ELSE "refused"]
  BY <1>5 DEF Judge
<1>8. CASE Allows(policy, batch[i].url)
  <2>1. batch' = [batch EXCEPT ![i].state = "allowed"]
    BY <1>7, <1>8
  <2>2. Reaches(i, "allowed")
    BY <1>1, <2>1, StateReached
  <2> QED BY <1>1, <1>3, <1>4, <1>5, <1>6, <1>8, <2>2 DEF policy
<1>9. CASE ~ Allows(policy, batch[i].url)
  <2>1. batch' = [batch EXCEPT ![i].state = "refused"]
    BY <1>7, <1>9
  <2>2. Reaches(i, "refused")
    BY <1>1, <2>1, StateReached
  <2> QED BY <1>1, <1>3, <1>4, <1>5, <1>6, <1>9, <2>2 DEF policy
<1> QED BY <1>8, <1>9

LEMMA FetchSteps ==
    ASSUME TypeOK, NEW i
    PROVE  /\ StartFetch(i) => Reaches(i, "running")
           /\ FinishFetch(i) => Reaches(i, "fetched")
           /\ ThrowFetch(i) => Reaches(i, "threw")
<1>1. ASSUME StartFetch(i) PROVE Reaches(i, "running")
  <2>1. i \in DOMAIN batch /\ batch' = [batch EXCEPT ![i].state = "running"]
    BY <1>1 DEF StartFetch
  <2> QED BY <2>1, StateReached
<1>2. ASSUME FinishFetch(i) PROVE Reaches(i, "fetched")
  <2>1. i \in DOMAIN batch
    BY <1>2 DEF FinishFetch
  <2>2. PICK ok \in BOOLEAN, bytes \in Sizes, extra \in Expansions,
             final \in {batch[i].url} \cup Redirects[batch[i].url] :
        /\ ~ok => final = batch[i].url /\ extra = 0
        /\ batch' = [batch EXCEPT
              ![i].state = "fetched",
              ![i].result = [ok |-> ok, final |-> final, bytes |-> bytes, extra |-> extra,
                             redirects |-> IF final = batch[i].url THEN 0 ELSE 1]]
    BY <1>2, Zenon DEF FinishFetch
  <2> DEFINE r == [ok |-> ok, final |-> final, bytes |-> bytes, extra |-> extra,
                   redirects |-> IF final = batch[i].url THEN 0 ELSE 1]
  <2>3. batch[i].url \in Urls
    BY <2>1, JobSteps DEF Jobs
  <2>4. final \in Urls /\ bytes \in Nat /\ extra \in Nat
    BY <2>3, Site
  <2>5. r \in Results
    BY <2>4 DEF Results
  <2>6. batch' = [batch EXCEPT ![i].state = "fetched", ![i].result = r]
    BY <2>2
  <2> HIDE DEF r
  <2> QED
    BY <2>1, <2>5, <2>6, Finished
<1>3. ASSUME ThrowFetch(i) PROVE Reaches(i, "threw")
  <2>1. i \in DOMAIN batch /\ batch' = [batch EXCEPT ![i].state = "threw"]
    BY <1>3 DEF ThrowFetch
  <2> QED BY <2>1, StateReached
<1> QED BY <1>1, <1>2, <1>3

-----------------------------------------------------------------------------
(* Types.                                                                   *)

LEMMA InitType == Init => TypeOK
<1> SUFFICES ASSUME Init PROVE TypeOK
  OBVIOUS
<1>1. mode \in Modes /\ mode.robots \in {"respect", "ignore"}
       /\ mode.sitemap \in {"include", "skip", "only"}
  BY Site DEF Init
<1>2. phase \in {"level", "robots", "sitemap"}
  BY Zenon DEF Init
<1>3. [url |-> Root, depth |-> 0] \in Items
  BY Site, Bounds DEF Items
<1>4. [url |-> DefaultSitemap, depth |-> 0] \in SitemapItems
  BY Site, Bounds DEF SitemapItems
<1>5. queue \in Seq(Items)
  BY <1>3 DEF Init
<1>6. sitemaps \in Seq(SitemapItems)
  BY <1>4 DEF Init
<1>7. /\ queued \subseteq Urls /\ level \in Seq(Items) /\ additions \in Seq(Items)
      /\ batch \in Seq(Jobs)
      /\ documents \in Seq([url : Urls, key : Urls, final : Urls, depth : 0..MaxDepth])
  <2>1. \A S : <<>> \in Seq(S)
    OBVIOUS
  <2> QED BY <2>1, Site, Zenon DEF Init
<1>8. spent \in [bytes : Nat, redirects : Nat] /\ visited \in Nat
       /\ requests \in [Urls -> Nat]
       /\ robots \in [Origins -> {"unknown", "unavailable", "open", "rules"}]
  BY DEF Init
<1>9. /\ sitemapSeen \subseteq Urls /\ seen \subseteq Urls /\ represented \subseteq Urls
      /\ aborted \subseteq {"budget", "cancelled", "timeout"}
      /\ stopped \in Reasons \cup {NoReason} /\ partial \in BOOLEAN
  BY DEF Init
<1> QED
  BY <1>1, <1>2, <1>5, <1>6, <1>7, <1>8, <1>9 DEF TypeOK, Phases, Awaiting

LEMMA RobotsType ==
    ASSUME TypeOK, NEW o \in Origins, NEW policy \in {"unavailable", "open", "rules"},
           robots' = [robots EXCEPT ![o] = policy]
    PROVE  /\ robots' \in [Origins -> {"unknown", "unavailable", "open", "rules"}]
           /\ robots'[o] = policy
           /\ \A k \in Origins : k # o => robots'[k] = robots[k]
  BY DEF TypeOK

LEMMA SpentType == ASSUME TypeOK, Spending PROVE spent' \in [bytes : Nat, redirects : Nat]
<1>1. CASE UNCHANGED spent
  BY <1>1 DEF TypeOK
<1>2. CASE \E b, r \in Nat : Fits(b, r) /\ Spend(b, r)
  BY <1>2 DEF Spend, TypeOK
<1> QED BY <1>1, <1>2 DEF Spending

LEMMA ReadRootRobotsType == ASSUME TypeOK, ReadRootRobots, UNCHANGED mode PROVE TypeOK'
<1> DEFINE o == OriginOf[Root]
           urls == CASE robots'[o] = "unavailable" -> <<>>
                     [] robots'[o] = "open" -> <<DefaultSitemap>>
                     [] robots'[o] = "rules" -> <<DefaultSitemap>> \o DeclaredBy(o)
<1>1. o \in Origins
  BY Site
<1>2. PICK policy \in {"unavailable", "open", "rules"} : robots' = [robots EXCEPT ![o] = policy]
  BY <1>1, FetchRobotsEffect DEF ReadRootRobots
<1>3. Stopping /\ Spending
  BY <1>1, FetchRobotsEffect DEF ReadRootRobots
<1>4. /\ robots' \in [Origins -> {"unknown", "unavailable", "open", "rules"}]
      /\ robots'[o] = policy
  BY <1>1, <1>2, RobotsType
<1>5. urls \in Seq(Urls)
  <2>1. <<>> \in Seq(Urls) /\ <<DefaultSitemap>> \in Seq(Urls)
    BY Site
  <2>2. <<DefaultSitemap>> \o DeclaredBy(o) \in Seq(Urls)
    BY <2>1, DeclaredType, ConcatElements
  <2>3. CASE policy = "unavailable"
    <3>1. urls = <<>>
      BY <1>4, <2>3
    <3> QED BY <2>1, <3>1
  <2>4. CASE policy = "open"
    <3>1. urls = <<DefaultSitemap>>
      BY <1>4, <2>4
    <3> QED BY <2>1, <3>1
  <2>5. CASE policy = "rules"
    <3>1. urls = <<DefaultSitemap>> \o DeclaredBy(o)
      BY <1>4, <2>5
    <3> QED BY <2>2, <3>1
  <2> QED BY <2>3, <2>4, <2>5
<1>6. sitemaps' = Distinct(ItemsOf(urls, 0))
  BY DEF ReadRootRobots
<1> HIDE DEF urls
<1>7. 0 \in 0..(SitemapDepth + 1)
  BY Bounds
<1>8. sitemaps' \in Seq(SitemapItems)
  <2>1. PICK us : us = urls
    OBVIOUS
  <2>2. us \in Seq(Urls)
    BY <1>5, <2>1
  <2>3. ItemsOf(us, 0) \in Seq(SitemapItems)
    BY <1>7, <2>2, ItemsElements DEF SitemapItems
  <2>4. Distinct(ItemsOf(us, 0)) \in Seq(SitemapItems)
    BY <2>3, DistinctElements
  <2> QED BY <1>6, <2>1, <2>4
<1>9. /\ phase' = "sitemap" /\ sitemapSeen' = sitemapSeen /\ UNCHANGED batch
      /\ UNCHANGED <<queue, level, additions, queued, seen, represented>>
      /\ UNCHANGED <<visited, documents, requests>>
  BY DEF ReadRootRobots, frontier, output
<1>10. spent' \in [bytes : Nat, redirects : Nat]
  BY <1>3, SpentType
<1>11. /\ aborted' \subseteq {"budget", "cancelled", "timeout"}
       /\ stopped' \in Reasons \cup {NoReason} /\ partial' \in BOOLEAN
  BY <1>3, StoppingEffect
<1> QED
  BY <1>4, <1>8, <1>9, <1>10, <1>11 DEF TypeOK, Phases, Awaiting

LEMMA TakeSitemapType ==
    ASSUME TypeOK, NEW item \in SitemapItems, item.depth <= SitemapDepth, sitemaps # <<>>,
           TakeSitemap(item)
    PROVE  /\ queue' \in Seq(Items) /\ sitemaps' \in Seq(SitemapItems)
           /\ (\A i \in DOMAIN queue : queue[i].depth = 0) =>
                \A i \in DOMAIN queue' : queue'[i].depth = 0
<1> DEFINE found == SitemapOf[item.url]
           P == {i \in DOMAIN found.locations : found.locations[i] \in InScope}
           kept == Picked(found.locations, P)
           pages == ItemsOf(kept, 0)
           n == IF Len(pages) < SitemapLocations - Len(queue)
                THEN Len(pages) ELSE SitemapLocations - Len(queue)
<1>1. found \in [kind : {"index", "urlset"}, locations : Seq(Urls)]
  BY Site DEF SitemapItems
<1>2. found.locations \in Seq(Urls)
  BY <1>1
<1>3. /\ Tail(sitemaps) \in Seq(SitemapItems) /\ queue \in Seq(Items)
      /\ Len(queue) \in Nat
  <2>1. sitemaps \in Seq(SitemapItems) /\ queue \in Seq(Items)
    BY DEF TypeOK
  <2> QED BY <2>1, TailElements
<1>4. CASE found.kind = "index"
  <2>1. item.depth + 1 \in 0..(SitemapDepth + 1)
    BY Bounds DEF SitemapItems
  <2>2. ItemsOf(found.locations, item.depth + 1) \in Seq(SitemapItems)
    <3> HIDE DEF found
    <3> QED BY <1>2, <2>1, ItemsElements DEF SitemapItems
  <2>3. /\ sitemaps' = ItemsOf(found.locations, item.depth + 1) \o Tail(sitemaps)
        /\ UNCHANGED queue
    BY <1>4 DEF TakeSitemap
  <2> HIDE DEF found
  <2>4. ItemsOf(found.locations, item.depth + 1) \o Tail(sitemaps) \in Seq(SitemapItems)
    BY <1>3, <2>2, ConcatElements
  <2> QED BY <1>3, <2>3, <2>4
<1>5. CASE found.kind # "index"
  <2>1. queue' = queue \o SubSeq(pages, 1, n) /\ sitemaps' = Tail(sitemaps)
    BY <1>5 DEF TakeSitemap
  <2>2. P \in SUBSET DOMAIN found.locations
    OBVIOUS
  <2> HIDE DEF found, P
  <2>3. kept \in Seq(Urls)
    BY <1>2, <2>2, PickedElements
  <2> HIDE DEF kept
  <2>4. 0 \in 0..MaxDepth
    BY Bounds
  <2>5. /\ pages \in Seq(Items) /\ DOMAIN pages = DOMAIN kept
        /\ \A i \in DOMAIN kept : pages[i].depth = 0
    <3>1. /\ ItemsOf(kept, 0) \in Seq(Items)
          /\ DOMAIN ItemsOf(kept, 0) = DOMAIN kept
          /\ \A i \in DOMAIN kept : ItemsOf(kept, 0)[i].depth = 0
      BY <2>3, <2>4, ItemsType
    <3> QED BY <3>1
  <2> HIDE DEF pages
  <2>6. n \in Int /\ n <= Len(pages)
    BY <1>3, <2>5, Bounds
  <2> HIDE DEF n
  <2>7. SubSeq(pages, 1, n) \in Seq(Items)
    BY <2>5, <2>6
  <2>8. \A i \in DOMAIN SubSeq(pages, 1, n) :
          i \in DOMAIN pages /\ SubSeq(pages, 1, n)[i] = pages[i]
    BY <2>5, <2>6
  <2> DEFINE more == SubSeq(pages, 1, n)
  <2>9. \A i \in DOMAIN more : more[i].depth = 0
    BY <2>5, <2>8
  <2>10. more \in Seq(Items)
    BY <2>7
  <2> HIDE DEF more
  <2>11. /\ queue \o more \in Seq(Items)
         /\ \A i \in DOMAIN (queue \o more) :
              \/ i \in DOMAIN queue /\ (queue \o more)[i] = queue[i]
              \/ i - Len(queue) \in DOMAIN more /\ (queue \o more)[i] = more[i - Len(queue)]
    BY <1>3, <2>10, ConcatElements
  <2>12. queue' = queue \o more
    BY <2>1 DEF more
  <2> QED BY <1>3, <2>1, <2>9, <2>11, <2>12
<1> QED BY <1>4, <1>5

LEMMA FetchSitemapEffect ==
    ASSUME TypeOK, FetchSitemap
    PROVE  /\ phase = "sitemap" /\ sitemaps # <<>> /\ Head(sitemaps) \in SitemapItems
           /\ Head(sitemaps).depth <= SitemapDepth
           /\ sitemapSeen' = sitemapSeen \cup {Head(sitemaps).url}
           /\ Stopping /\ Spending
           /\ \/ sitemaps' = Tail(sitemaps) /\ UNCHANGED queue
              \/ TakeSitemap(Head(sitemaps))
           /\ UNCHANGED <<phase, robots, level, additions, queued, seen, represented,
                          batch, visited, documents, requests>>
<1> DEFINE item == Head(sitemaps)
<1>1. phase = "sitemap" /\ sitemaps # <<>> /\ ~ Uncollected(item)
  BY DEF FetchSitemap
<1>2. sitemaps \in Seq(SitemapItems)
  BY DEF TypeOK
<1>3. item \in SitemapItems
  BY <1>1, <1>2, TailElements
<1>4. item.depth <= SitemapDepth
  <2>1. ~ (item.depth > SitemapDepth) /\ item.depth \in Nat /\ SitemapDepth \in Nat
    BY <1>1, <1>3, Bounds DEF Uncollected, SitemapItems
  <2> QED BY <2>1
<1>5. \A b \in Sizes, r \in 0..1, x \in Expansions : b \in Nat /\ b + x \in Nat /\ r \in Nat
  BY Site
<1>6. /\ Stopping /\ Spending
      /\ (sitemaps' = Tail(sitemaps) /\ UNCHANGED queue) \/ TakeSitemap(item)
  <2>1. CASE /\ Stop("maxBytes")
             /\ sitemaps' = Tail(sitemaps)
             /\ UNCHANGED <<spent, queue>>
    BY <2>1 DEF Stopping, Spending
  <2>2. CASE \E bytes \in Sizes, redirects \in 0..1 :
               /\ Stop(Exceeded(redirects))
               /\ sitemaps' = Tail(sitemaps)
               /\ UNCHANGED <<spent, queue>>
    BY <2>2, ExceededReason DEF Stopping, Spending
  <2>3. CASE \E bytes \in Sizes, redirects \in 0..1 :
               /\ Fits(bytes, redirects) /\ Spend(bytes, redirects)
               /\ UNCHANGED signals \/ Stop("maxBytes")
               /\ sitemaps' = Tail(sitemaps)
               /\ UNCHANGED queue
    <3>1. PICK bytes \in Sizes, redirects \in 0..1 :
               /\ Fits(bytes, redirects) /\ Spend(bytes, redirects)
               /\ UNCHANGED signals \/ Stop("maxBytes")
               /\ sitemaps' = Tail(sitemaps)
               /\ UNCHANGED queue
      BY <2>3
    <3>2. bytes \in Nat /\ redirects \in Nat
      BY Site
    <3> QED BY <3>1, <3>2 DEF Stopping, Spending
  <2>4. CASE \E bytes \in Sizes, redirects \in 0..1, extra \in Expansions :
               /\ Fits(bytes + extra, redirects) /\ Spend(bytes + extra, redirects)
               /\ TakeSitemap(item)
               /\ UNCHANGED signals
    <3>1. PICK bytes \in Sizes, redirects \in 0..1, extra \in Expansions :
               /\ Fits(bytes + extra, redirects) /\ Spend(bytes + extra, redirects)
               /\ TakeSitemap(item)
               /\ UNCHANGED signals
      BY <2>4
    <3>2. bytes + extra \in Nat /\ redirects \in Nat
      BY <1>5
    <3> QED BY <3>1, <3>2 DEF Stopping, Spending
  <2> HIDE DEF item
  <2>5. \/ /\ Stop("maxBytes")
           /\ sitemaps' = Tail(sitemaps)
           /\ UNCHANGED <<spent, queue>>
        \/ \E bytes \in Sizes, redirects \in 0..1 :
             /\ Stop(Exceeded(redirects))
             /\ sitemaps' = Tail(sitemaps)
             /\ UNCHANGED <<spent, queue>>
        \/ \E bytes \in Sizes, redirects \in 0..1 :
             /\ Fits(bytes, redirects) /\ Spend(bytes, redirects)
             /\ UNCHANGED signals \/ Stop("maxBytes")
             /\ sitemaps' = Tail(sitemaps)
             /\ UNCHANGED queue
        \/ \E bytes \in Sizes, redirects \in 0..1, extra \in Expansions :
             /\ Fits(bytes + extra, redirects) /\ Spend(bytes + extra, redirects)
             /\ TakeSitemap(item)
             /\ UNCHANGED signals
    BY Zenon DEF FetchSitemap, item
  <2> QED BY <2>1, <2>2, <2>3, <2>4, <2>5
<1>7. UNCHANGED <<phase, robots, level, additions, queued, seen, represented,
                  batch, visited, documents, requests>>
  BY DEF FetchSitemap, output
<1>8. sitemapSeen' = sitemapSeen \cup {item.url}
  BY DEF FetchSitemap
<1> QED
  BY <1>1, <1>3, <1>4, <1>6, <1>7, <1>8

\* The queue gives up its first items, all of them if they have one depth.
LEMMA NextLevelEffect ==
    ASSUME TypeOK, NextLevel
    PROVE  /\ phase = "level" /\ aborted = {} /\ visited < Limit
           /\ level' \in Seq(Items) /\ queue' \in Seq(Items) /\ additions' = <<>>
           /\ phase' = "collect"
           /\ (\A i, j \in DOMAIN queue : queue[i].depth = queue[j].depth) =>
                level' = queue /\ queue' = <<>>
           /\ UNCHANGED <<aborted, stopped, partial, spent, robots, sitemaps, sitemapSeen,
                          queued, seen, represented, batch, visited, documents, requests>>
<1> DEFINE same == {i \in DOMAIN queue : \A j \in 1..i : queue[j].depth = queue[1].depth}
           n == Cardinality(same)
<1>1. queue \in Seq(Items) /\ queue # <<>>
  BY DEF TypeOK, NextLevel
<1>2. DOMAIN queue = 1..Len(queue) /\ Len(queue) \in Nat /\ 1 \in DOMAIN queue
  BY <1>1
<1>3. IsFiniteSet(DOMAIN queue) /\ Cardinality(DOMAIN queue) = Len(queue)
  <2> DEFINE m == Len(queue)
  <2>1. m \in Nat /\ DOMAIN queue = 1..m
    BY <1>2
  <2> HIDE DEF m
  <2>2. IsFiniteSet(1..m) /\ Cardinality(1..m) = m
    BY <2>1, FS_Interval
  <2> QED BY <2>1, <2>2 DEF m
<1>4. same \in SUBSET DOMAIN queue
  OBVIOUS
<1>5. (\A i, j \in DOMAIN queue : queue[i].depth = queue[j].depth) => same = DOMAIN queue
  <2> SUFFICES ASSUME \A i, j \in DOMAIN queue : queue[i].depth = queue[j].depth,
                      NEW i \in DOMAIN queue
               PROVE  i \in same
    OBVIOUS
  <2>1. \A j \in 1..i : j \in DOMAIN queue
    BY <1>2
  <2> QED BY <1>2, <2>1
<1>6. /\ level' = SubSeq(queue, 1, n) /\ queue' = SubSeq(queue, n + 1, Len(queue))
      /\ additions' = <<>> /\ phase' = "collect"
      /\ phase = "level" /\ aborted = {} /\ visited < Limit
  BY DEF NextLevel
<1> HIDE DEF same
<1>7. n \in 0..Len(queue)
  <2>1. IsFiniteSet(same) /\ n <= Len(queue)
    BY <1>3, <1>4, FS_Subset
  <2> QED BY <1>2, <2>1, FS_CardinalityType
<1>8. (\A i, j \in DOMAIN queue : queue[i].depth = queue[j].depth) => n = Len(queue)
  BY <1>3, <1>5
<1> HIDE DEF n
<1>9. /\ SubSeq(queue, 1, n) \in Seq(Items) /\ SubSeq(queue, n + 1, Len(queue)) \in Seq(Items)
      /\ n = Len(queue) => /\ SubSeq(queue, 1, n) = queue
                           /\ SubSeq(queue, n + 1, Len(queue)) = <<>>
  BY <1>1, <1>7, SplitElements
<1>10. UNCHANGED <<aborted, stopped, partial, spent, robots, sitemaps, sitemapSeen,
                   queued, seen, represented, batch, visited, documents, requests>>
  BY DEF NextLevel, signals, sitemapVars, output
<1> QED
  BY <1>6, <1>8, <1>9, <1>10

LEMMA TakeCandidateEffect ==
    ASSUME TypeOK, TakeCandidate
    PROVE  /\ phase = "collect" /\ level # <<>> /\ Head(level) \in Items /\ 1 \in DOMAIN level
           /\ level[1] = Head(level) /\ level' = Tail(level) /\ level' \in Seq(Items)
           /\ Len(batch) < MaxConcurrency /\ visited + Len(batch) < Limit
           /\ seen' = seen \cup {Head(level).url}
           /\ \/ UNCHANGED batch /\ Head(level).url \in seen \cup (Urls \ InScope)
              \/ /\ Head(level).url \in InScope \ seen
                 /\ \E job \in Jobs :
                      /\ batch' = Append(batch, job)
                      /\ job.url = Head(level).url /\ job.depth = Head(level).depth
                      /\ job.state = "candidate"
           /\ UNCHANGED <<phase, aborted, stopped, partial, spent, robots, sitemaps,
                          sitemapSeen, queue, additions, queued, represented, visited,
                          documents, requests>>
<1> DEFINE item == Head(level)
           job == [url |-> item.url, depth |-> item.depth, bytes |-> 0, redirects |-> 0,
                   result |-> Pending, state |-> "candidate"]
<1>1. level # <<>> /\ level \in Seq(Items) /\ phase = "collect"
  BY DEF TypeOK, TakeCandidate
<1>2. item \in Items /\ 1 \in DOMAIN level /\ level[1] = item /\ Tail(level) \in Seq(Items)
  BY <1>1, TailElements
<1>3. Len(batch) < MaxConcurrency /\ visited + Len(batch) < Limit
  <2>1. batch \in Seq(Jobs) /\ visited \in Nat
    BY DEF TypeOK
  <2>2. Len(batch) \in Nat
    BY <2>1
  <2>3. Limit \in Nat /\ MaxConcurrency \in Nat
    BY CrawlAssumption DEF CrawlAssumption
  <2> QED BY <2>1, <2>2, <2>3 DEF TakeCandidate, RoundFull
<1>4. level' = Tail(level) /\ seen' = seen \cup {item.url}
  BY DEF TakeCandidate
<1>5. job \in Jobs
  <2>1. Pending \in Results
    BY Site DEF Pending, Results
  <2> QED BY <1>2, <2>1 DEF Jobs, Items
<1>6. batch' = IF item.url \notin seen /\ item.url \in InScope THEN Append(batch, job) ELSE batch
  BY DEF TakeCandidate
<1>7. UNCHANGED <<phase, aborted, stopped, partial, spent, robots, sitemaps,
                  sitemapSeen, queue, additions, queued, represented, visited,
                  documents, requests>>
  BY DEF TakeCandidate, signals, sitemapVars, output
<1>8. item.url \in Urls
  BY <1>2 DEF Items
<1>9. job.url = item.url /\ job.depth = item.depth /\ job.state = "candidate"
  OBVIOUS
<1> HIDE DEF job
<1> QED
  BY <1>1, <1>2, <1>3, <1>4, <1>5, <1>6, <1>7, <1>8, <1>9

\* The jobs of a round are those that may be fetched, each once and with its
\* share of the budgets.
TakenFrom(f, n) ==
    /\ f \in [1..n -> DOMAIN batch]
    /\ \A k \in 1..n : /\ batch'[k].url = batch[f[k]].url
                       /\ batch'[k].depth = batch[f[k]].depth
                       /\ batch[f[k]].state = "allowed"
    /\ \A k, l \in 1..n : f[k] = f[l] => k = l
    /\ \A i \in DOMAIN batch : batch[i].state = "allowed" => \E k \in 1..n : f[k] = i

Shared(n) ==
    \A k \in 1..n : /\ batch'[k].state = "waiting"
                    /\ batch'[k].bytes <= Share(MaxBytes - spent.bytes, n, k)
                    /\ batch'[k].redirects <= Share(MaxRedirects - spent.redirects, n, k)

LEMMA StartRoundEffect ==
    ASSUME TypeOK, StartRound, spent.bytes <= MaxBytes, spent.redirects <= MaxRedirects
    PROVE  /\ phase = "eligible" /\ aborted = {}
           /\ \A i \in DOMAIN batch : batch[i].state # "candidate"
           /\ UNCHANGED <<spent, robots, sitemaps, sitemapSeen, queue, level, additions,
                          queued, seen, represented, documents, requests>>
           /\ \/ /\ Stop("maxBytes") /\ phase' = "ending"
                 /\ UNCHANGED <<batch, visited>>
              \/ /\ UNCHANGED signals /\ phase' = "fetch"
                 /\ visited' = visited + Len(batch') /\ Len(batch') <= Len(batch)
                 /\ batch' \in Seq(Jobs) /\ Len(batch') \in Nat
                 /\ Shared(Len(batch'))
                 /\ \E f : TakenFrom(f, Len(batch'))
<1> DEFINE n == Len(Fetches)
           bytes == MaxBytes - spent.bytes
           redirects == MaxRedirects - spent.redirects
           job(i) == [Fetches[i] EXCEPT
                        !.state = "waiting",
                        !.bytes = Least(RenderBytes, Share(bytes, n, i)),
                        !.redirects = Least(RenderRedirects, Share(redirects, n, i))]
           jobs == [i \in 1..n |-> job(i)]
<1>1. /\ phase = "eligible" /\ aborted = {}
      /\ \A i \in DOMAIN batch : batch[i].state # "candidate"
      /\ UNCHANGED <<spent, robots, sitemaps, sitemapSeen, queue, level, additions,
                     queued, seen, represented, documents, requests>>
  BY DEF StartRound, sitemapVars, frontier
<1>2. \/ /\ Stop("maxBytes") /\ phase' = "ending"
         /\ UNCHANGED <<batch, visited>>
      \/ /\ UNCHANGED signals /\ phase' = "fetch"
         /\ batch' = jobs
         /\ visited' = visited + n
  BY Zenon DEF StartRound
<1>3. /\ Fetches \in Seq(Jobs) /\ n <= Len(batch) /\ n \in Nat
      /\ \E f \in [1..n -> DOMAIN batch] :
           /\ \A k \in 1..n : Fetches[k] = batch[f[k]] /\ batch[f[k]].state = "allowed"
           /\ \A k, l \in 1..n : f[k] = f[l] => k = l
           /\ \A i \in DOMAIN batch :
                batch[i].state = "allowed" => \E k \in 1..n : f[k] = i
  BY FetchesElements
<1>4. bytes \in Nat /\ redirects \in Nat
  <2>1. spent.bytes \in Nat /\ spent.redirects \in Nat
    BY DEF TypeOK
  <2> QED BY <2>1, Bounds
<1> HIDE DEF n, bytes, redirects
<1>5. ASSUME NEW k \in 1..n
      PROVE  /\ Fetches[k] \in Jobs
             /\ Share(bytes, n, k) \in Nat /\ Share(redirects, n, k) \in Nat
  <2>1. Fetches[k] \in Jobs
    BY <1>3 DEF n
  <2>2. n \in Nat \ {0}
    BY <1>3
  <2>3. bytes \div n \in Nat /\ redirects \div n \in Nat
    BY <1>4, <2>2, Division
  <2>4. Share(bytes, n, k) \in Nat
    BY <2>3 DEF Share
  <2>5. Share(redirects, n, k) \in Nat
    BY <2>3 DEF Share
  <2> QED BY <2>1, <2>4, <2>5
<1>6. ASSUME NEW k \in 1..n
      PROVE  /\ job(k) \in Jobs /\ job(k).state = "waiting"
             /\ job(k).url = Fetches[k].url /\ job(k).depth = Fetches[k].depth
             /\ job(k).bytes <= Share(bytes, n, k)
             /\ job(k).redirects <= Share(redirects, n, k)
  <2> DEFINE b == Least(RenderBytes, Share(bytes, n, k))
             r == Least(RenderRedirects, Share(redirects, n, k))
  <2>1. /\ b \in Nat /\ b <= Share(bytes, n, k)
        /\ r \in Nat /\ r <= Share(redirects, n, k)
    BY <1>5, Bounds DEF Least
  <2> HIDE DEF b, r
  <2>2. Fetches[k] \in Jobs
    BY <1>5
  <2>3. job(k) = [Fetches[k] EXCEPT !.state = "waiting", !.bytes = b, !.redirects = r]
    BY DEF b, r
  <2>4. PICK j \in Jobs : j = Fetches[k]
    BY <2>2
  <2> DEFINE new == [j EXCEPT !.state = "waiting", !.bytes = b, !.redirects = r]
  <2>5. /\ new \in Jobs /\ new.state = "waiting" /\ new.url = j.url /\ new.depth = j.depth
        /\ new.bytes = b /\ new.redirects = r
    BY <2>1 DEF Jobs
  <2>6. job(k) = new
    BY <2>3, <2>4
  <2> HIDE DEF new, job
  <2> QED BY <2>1, <2>4, <2>5, <2>6
<1> HIDE DEF job
<1>7. jobs \in Seq(Jobs) /\ Len(jobs) = n /\ \A k \in 1..n : jobs[k] = job(k)
  <2>1. jobs \in [1..n -> Jobs] /\ \A k \in 1..n : jobs[k] = job(k)
    BY <1>6
  <2> HIDE DEF jobs
  <2>2. n \in Nat
    BY <1>3
  <2> HIDE DEF n
  <2> QED BY <2>1, <2>2
<1> HIDE DEF jobs
<1>8. CASE /\ UNCHANGED signals /\ phase' = "fetch"
           /\ batch' = jobs
           /\ visited' = visited + n
  <2>1. /\ batch' \in Seq(Jobs) /\ Len(batch') = n
        /\ \A k \in 1..n : batch'[k] = job(k)
    BY <1>7, <1>8
  <2>2. PICK f \in [1..n -> DOMAIN batch] :
           /\ \A k \in 1..n : Fetches[k] = batch[f[k]] /\ batch[f[k]].state = "allowed"
           /\ \A k, l \in 1..n : f[k] = f[l] => k = l
           /\ \A i \in DOMAIN batch :
                batch[i].state = "allowed" => \E k \in 1..n : f[k] = i
    BY <1>3
  <2>3. \A k \in 1..n : /\ batch'[k].url = batch[f[k]].url
                        /\ batch'[k].depth = batch[f[k]].depth
                        /\ batch[f[k]].state = "allowed"
    BY <1>6, <2>1, <2>2
  <2>4. TakenFrom(f, n)
    BY <2>2, <2>3 DEF TakenFrom
  <2>5. Shared(n)
    BY <1>6, <2>1 DEF Shared, bytes, redirects
  <2>6. n = Len(batch')
    BY <2>1
  <2> QED BY <1>1, <1>3, <1>8, <2>1, <2>4, <2>5, <2>6
<1> QED
  BY <1>1, <1>2, <1>8

Docs == [url : Urls, key : Urls, final : Urls, depth : 0..MaxDepth]

\* What the first job of the round, a page of the current level, adds.
PageOf(job) == [url |-> job.url, key |-> OutputKey(Outcome.final),
                final |-> Outcome.final, depth |-> job.depth]

LEMMA TakePageEffect ==
    ASSUME TypeOK, Round, TakePage
    PROVE  /\ phase = "outcomes" /\ aborted = {} /\ Spending
           /\ seen' = Recognized /\ represented' = represented \cup (Recognized \ seen)
           /\ \/ UNCHANGED documents
              \/ /\ documents' = Append(documents, PageOf(batch[1]))
                 /\ PageOf(batch[1]) \in Docs
                 /\ OutputKey(Outcome.final) \notin Emitted
           /\ \E found \in Seq(Items) :
                /\ additions' = additions \o found
                /\ \A i \in DOMAIN found : found[i].depth = batch[1].depth + 1
                /\ MayExpand(batch[1].depth) =>
                     \A u \in ToSet(Links[Outcome.final]) :
                       u \in InScope \ Recognized => u \in UrlsOf(found)
           /\ batch' = Tail(batch)
           /\ phase' = IF Len(batch) = 1 THEN "collect" ELSE phase
           /\ UNCHANGED <<aborted, stopped, partial, robots, sitemaps, sitemapSeen, queue,
                          level, queued, visited, requests>>
<1> DEFINE key == OutputKey(Outcome.final)
           extra == IF key \notin Emitted THEN Outcome.extra ELSE 0
           more == IF MayExpand(batch[1].depth) THEN Discovered(batch[1].depth + 1) ELSE <<>>
<1>1. phase = "outcomes" /\ aborted = {}
  BY DEF TakePage
<1>2. /\ 1 \in DOMAIN batch /\ Head(batch) = batch[1] /\ batch[1] \in Jobs
      /\ Outcome.final \in Urls /\ Outcome.bytes \in Nat
      /\ Outcome.redirects \in Nat /\ Outcome.extra \in Nat
  BY <1>1, OutcomeType
<1>3. key \in Urls
  BY <1>2, KeyType
<1>4. Fits(Outcome.bytes + extra, Outcome.redirects) /\ Spend(Outcome.bytes + extra, Outcome.redirects)
  BY DEF TakePage
<1>5. Spending
  <2>1. Outcome.bytes + extra \in Nat
    BY <1>2
  <2> HIDE DEF extra
  <2> QED BY <1>2, <1>4, <2>1 DEF Spending
<1>6. \/ UNCHANGED documents
      \/ documents' = Append(documents, PageOf(batch[1])) /\ key \notin Emitted
  BY <1>2 DEF TakePage, PageOf
<1>7. PageOf(batch[1]) \in Docs
  BY <1>2, <1>3 DEF PageOf, Docs, Jobs
<1>8. additions' = additions \o more /\ UNCHANGED level
  BY <1>2 DEF TakePage, Enqueue
<1>9. /\ more \in Seq(Items)
      /\ \A i \in DOMAIN more : more[i].depth = batch[1].depth + 1
      /\ MayExpand(batch[1].depth) =>
           \A u \in ToSet(Links[Outcome.final]) :
             u \in InScope \ Recognized => u \in UrlsOf(more)
  <2>1. CASE MayExpand(batch[1].depth)
    <3> DEFINE d == batch[1].depth + 1
    <3>1. d \in 0..MaxDepth
      BY <1>2, <2>1, Bounds DEF MayExpand, Jobs
    <3> HIDE DEF d
    <3>2. /\ Discovered(d) \in Seq(Items)
          /\ \A i \in DOMAIN Discovered(d) : Discovered(d)[i].depth = d
          /\ \A u \in ToSet(Links[Outcome.final]) :
               u \in InScope \ Recognized => u \in UrlsOf(Discovered(d))
      BY <1>2, <3>1, DiscoveredElements
    <3>3. more = Discovered(d)
      BY <2>1 DEF d
    <3> QED BY <3>2, <3>3 DEF d
  <2>2. CASE ~ MayExpand(batch[1].depth)
    <3>1. more = <<>>
      BY <2>2
    <3> HIDE DEF more
    <3> QED BY <2>2, <3>1
  <2> QED BY <2>1, <2>2
<1>10. /\ seen' = Recognized /\ represented' = represented \cup (Recognized \ seen)
       /\ batch' = Tail(batch)
       /\ phase' = IF Len(batch) = 1 THEN "collect" ELSE phase
       /\ UNCHANGED <<aborted, stopped, partial, robots, sitemaps, sitemapSeen, queue,
                      queued, visited, requests>>
  BY DEF TakePage, signals, sitemapVars
<1> HIDE DEF more
<1> QED
  BY <1>1, <1>5, <1>6, <1>7, <1>8, <1>9, <1>10

LEMMA RecognizedType ==
    ASSUME TypeOK, Round, phase = "outcomes"
    PROVE  Recognized \subseteq Urls /\ seen \subseteq Recognized
<1>1. Outcome.final \in Urls
  BY OutcomeType
<1>2. OutputKey(Outcome.final) \in Urls
  BY <1>1, KeyType
<1> QED BY <1>1, <1>2 DEF Recognized, TypeOK

\* The queue takes what the level discovered.
LEMMA LevelDoneEffect ==
    ASSUME TypeOK, LevelDone
    PROVE  /\ phase = "collect" /\ batch = <<>> /\ (level = <<>> \/ visited >= Limit)
           /\ queue' = queue \o New /\ queue' \in Seq(Items)
           /\ queued' = queued \cup UrlsOf(New)
           /\ \/ /\ visited >= Limit
                 /\ partial' = TRUE /\ stopped' = "limit" /\ phase' = "ending"
              \/ /\ ~ (visited >= Limit /\ (level # <<>> \/ queue' # <<>>))
                 /\ phase' = "level" /\ UNCHANGED <<partial, stopped>>
           /\ UNCHANGED <<aborted, spent, robots, sitemaps, sitemapSeen, level, additions, seen,
                          represented, batch, visited, documents, requests>>
<1>1. New \in Seq(Items) /\ queue \in Seq(Items)
  BY NewElements DEF TypeOK
<1>2. queue \o New \in Seq(Items)
  BY <1>1, ConcatElements
<1> QED
  BY <1>2 DEF LevelDone, sitemapVars, output, UrlsOf

LEMMA RequestsType ==
    ASSUME TypeOK, NEW u \in Urls, requests' = [requests EXCEPT ![u] = @ + 1]
    PROVE  /\ requests' \in [Urls -> Nat]
           /\ requests'[u] = requests[u] + 1 /\ requests[u] \in Nat
           /\ \A v \in Urls : v # u => requests'[v] = requests[v]
  BY DEF TypeOK

LEMMA TypeStep == ASSUME TypeOK, Round, Budgets, Next PROVE TypeOK'
<1> USE DEF Phases, Awaiting
<1>0. UNCHANGED mode
  BY DEF Next
<1>1. ASSUME NEW source \in {"cancelled", "timeout"}, Abort(source) PROVE TypeOK'
  BY <1>0, <1>1 DEF Abort, TypeOK, sitemapVars, frontier, output
<1>2. CASE ReadRootRobots
  BY <1>0, <1>2, ReadRootRobotsType
<1>3. CASE SkipSitemap
  <2>1. Tail(sitemaps) \in Seq(SitemapItems)
    BY <1>3, TailElements DEF TypeOK, SkipSitemap
  <2> QED BY <1>0, <1>3, <2>1 DEF SkipSitemap, TypeOK, signals, frontier, output
<1>4. CASE FetchSitemap
  <2>1. /\ phase = "sitemap" /\ sitemaps # <<>> /\ Head(sitemaps) \in SitemapItems
        /\ Head(sitemaps).depth <= SitemapDepth
        /\ sitemapSeen' = sitemapSeen \cup {Head(sitemaps).url}
        /\ Stopping /\ Spending
        /\ \/ sitemaps' = Tail(sitemaps) /\ UNCHANGED queue
           \/ TakeSitemap(Head(sitemaps))
        /\ UNCHANGED <<phase, robots, level, additions, queued, seen, represented,
                       batch, visited, documents, requests>>
    BY <1>4, FetchSitemapEffect
  <2>2. Tail(sitemaps) \in Seq(SitemapItems)
    BY <2>1, TailElements DEF TypeOK
  <2>3. queue' \in Seq(Items) /\ sitemaps' \in Seq(SitemapItems)
    <3>1. CASE sitemaps' = Tail(sitemaps) /\ UNCHANGED queue
      BY <2>2, <3>1 DEF TypeOK
    <3>2. CASE TakeSitemap(Head(sitemaps))
      BY <2>1, <3>2, TakeSitemapType
    <3> QED BY <2>1, <3>1, <3>2
  <2>4. /\ aborted' \subseteq {"budget", "cancelled", "timeout"}
        /\ stopped' \in Reasons \cup {NoReason} /\ partial' \in BOOLEAN
        /\ spent' \in [bytes : Nat, redirects : Nat]
    BY <2>1, StoppingEffect, SpentType
  <2>5. sitemapSeen' \subseteq Urls
    BY <2>1 DEF TypeOK, SitemapItems
  <2> QED BY <1>0, <2>1, <2>3, <2>4, <2>5 DEF TypeOK
<1>5. CASE SitemapsDone
  <2>1. Distinct(queue) \in Seq(Items)
    BY DistinctElements DEF TypeOK
  <2>2. {queue[i].url : i \in DOMAIN queue} \subseteq Urls
    <3>1. queue \in Seq(Items)
      BY DEF TypeOK
    <3>2. \A i \in DOMAIN queue : queue[i] \in Items
      BY <3>1
    <3> QED BY <3>2 DEF Items
  <2> QED BY <1>0, <1>5, <2>1, <2>2 DEF SitemapsDone, TypeOK, signals, sitemapVars, output
<1>6. CASE NextLevel
  <2>1. /\ level' \in Seq(Items) /\ queue' \in Seq(Items) /\ additions' = <<>>
        /\ phase' = "collect"
        /\ UNCHANGED <<aborted, stopped, partial, spent, robots, sitemaps, sitemapSeen,
                       queued, seen, represented, batch, visited, documents, requests>>
    BY <1>6, NextLevelEffect
  <2>2. additions' \in Seq(Items)
    BY <2>1
  <2> QED BY <1>0, <2>1, <2>2 DEF TypeOK
<1>7. CASE LeaveLevels \/ CandidatesTaken \/ AbortEligible \/ RoundDone \/ DropRound
  BY <1>0, <1>7 DEF LeaveLevels, CandidatesTaken, AbortEligible, RoundDone, DropRound,
                    TypeOK, signals, sitemapVars, frontier, output
<1>8. CASE TakeCandidate
  <2>1. /\ Head(level) \in Items
        /\ level' \in Seq(Items)
        /\ seen' = seen \cup {Head(level).url}
        /\ UNCHANGED batch \/ \E job \in Jobs : batch' = Append(batch, job)
        /\ UNCHANGED <<phase, aborted, stopped, partial, spent, robots, sitemaps,
                       sitemapSeen, queue, additions, queued, represented, visited,
                       documents, requests>>
    BY <1>8, TakeCandidateEffect
  <2>2. batch' \in Seq(Jobs)
    <3>1. batch \in Seq(Jobs)
      BY DEF TypeOK
    <3>2. \A job \in Jobs : Append(batch, job) \in Seq(Jobs)
      BY <3>1, AppendElements
    <3> QED BY <2>1, <3>1, <3>2
  <2>3. seen' \subseteq Urls
    BY <2>1 DEF TypeOK, Items
  <2> QED BY <1>0, <2>1, <2>2, <2>3 DEF TypeOK
<1>9. CASE StartRound
  <2>1. /\ UNCHANGED <<spent, robots, sitemaps, sitemapSeen, queue, level, additions,
                       queued, seen, represented, documents, requests>>
        /\ \/ /\ Stop("maxBytes") /\ phase' = "ending"
              /\ UNCHANGED <<batch, visited>>
           \/ /\ UNCHANGED signals /\ phase' = "fetch"
              /\ visited' = visited + Len(batch')
              /\ batch' \in Seq(Jobs) /\ Len(batch') \in Nat
    BY <1>9, StartRoundEffect DEF Budgets, WithinBudgets
  <2>2. batch' \in Seq(Jobs) /\ visited' \in Nat
    BY <2>1 DEF TypeOK
  <2>3. Stopping
    BY <2>1 DEF Stopping
  <2>4. /\ aborted' \subseteq {"budget", "cancelled", "timeout"}
        /\ stopped' \in Reasons \cup {NoReason} /\ partial' \in BOOLEAN
    BY <2>3, StoppingEffect
  <2> QED BY <1>0, <2>1, <2>2, <2>4 DEF TypeOK
<1>10. ASSUME NEW i, CheckRobots(i) PROVE TypeOK'
  <2>1. Reaches(i, "allowed") \/ Reaches(i, "refused")
    BY <1>10, CheckRobotsEffect
  <2>2. batch' \in Seq(Jobs)
    BY <2>1 DEF Reaches
  <2>3. \/ UNCHANGED <<robots, signals, spent>>
        \/ /\ \E o \in Origins, policy \in {"unavailable", "open", "rules"} :
                robots' = [robots EXCEPT ![o] = policy]
           /\ Stopping /\ Spending
    BY <1>10, CheckRobotsEffect
  <2>4. robots' \in [Origins -> {"unknown", "unavailable", "open", "rules"}]
    BY <2>3, RobotsType DEF TypeOK
  <2>5. Stopping /\ Spending
    BY <2>3 DEF Stopping, Spending
  <2>6. /\ aborted' \subseteq {"budget", "cancelled", "timeout"}
        /\ stopped' \in Reasons \cup {NoReason} /\ partial' \in BOOLEAN
        /\ spent' \in [bytes : Nat, redirects : Nat]
    BY <2>5, StoppingEffect, SpentType
  <2>7. UNCHANGED <<phase, sitemaps, sitemapSeen, queue, level, additions, queued, seen,
                    represented, visited, documents, requests>>
    BY <1>10 DEF CheckRobots, sitemapVars, frontier, output
  <2> QED BY <1>0, <2>2, <2>4, <2>6, <2>7 DEF TypeOK
<1>11. ASSUME NEW i, StartFetch(i) PROVE TypeOK'
  <2>1. Reaches(i, "running")
    BY <1>11, FetchSteps
  <2>2. batch' \in Seq(Jobs) /\ batch[i].url \in Urls
    BY <2>1, JobSteps DEF Reaches, Jobs
  <2>3. requests' = [requests EXCEPT ![batch[i].url] = @ + 1]
    BY <1>11 DEF StartFetch
  <2>4. requests' \in [Urls -> Nat]
    BY <2>2, <2>3, RequestsType
  <2>5. UNCHANGED <<phase, aborted, stopped, partial, spent, robots, sitemaps, sitemapSeen,
                    queue, level, additions, queued, seen, represented, visited, documents>>
    BY <1>11 DEF StartFetch, signals, sitemapVars, frontier
  <2> QED BY <1>0, <2>2, <2>4, <2>5 DEF TypeOK
<1>12. ASSUME NEW i, FinishFetch(i) \/ ThrowFetch(i) PROVE TypeOK'
  <2>1. batch' \in Seq(Jobs)
    BY <1>12, FetchSteps DEF Reaches
  <2>2. UNCHANGED <<phase, aborted, stopped, partial, spent, robots, sitemaps, sitemapSeen,
                    queue, level, additions, queued, seen, represented, visited, documents,
                    requests>>
    BY <1>12 DEF FinishFetch, ThrowFetch, signals, sitemapVars, frontier, output
  <2> QED BY <1>0, <2>1, <2>2 DEF TypeOK
<1>13. CASE PageExceedsBudget
  <2>1. Stopping
    BY <1>13, ExceededReason DEF PageExceedsBudget, Stopping
  <2>2. /\ aborted' \subseteq {"budget", "cancelled", "timeout"}
        /\ stopped' \in Reasons \cup {NoReason} /\ partial' \in BOOLEAN
    BY <2>1, StoppingEffect
  <2> QED BY <1>0, <1>13, <2>2 DEF PageExceedsBudget, TypeOK, sitemapVars, frontier, output
<1>14. CASE PageFailed
  <2>1. phase = "outcomes"
    BY <1>14 DEF PageFailed
  <2>2. Tail(batch) \in Seq(Jobs) /\ Outcome.bytes \in Nat /\ Outcome.redirects \in Nat
    BY <2>1, OutcomeType
  <2>3. Spending
    BY <1>14, <2>2 DEF PageFailed, Spending
  <2>4. spent' \in [bytes : Nat, redirects : Nat]
    BY <2>3, SpentType
  <2> QED BY <1>0, <1>14, <2>2, <2>4
          DEF PageFailed, TypeOK, signals, sitemapVars, frontier, output
<1>15. CASE ReadableExceedsBudget
  <2>1. phase = "outcomes"
    BY <1>15 DEF ReadableExceedsBudget
  <2>2. Outcome.bytes \in Nat /\ Outcome.redirects \in Nat /\ Recognized \subseteq Urls
    BY <2>1, OutcomeType, RecognizedType
  <2>3. Spending /\ Stopping
    BY <1>15, <2>2 DEF ReadableExceedsBudget, Spending, Stopping
  <2>4. /\ spent' \in [bytes : Nat, redirects : Nat]
        /\ aborted' \subseteq {"budget", "cancelled", "timeout"}
        /\ stopped' \in Reasons \cup {NoReason} /\ partial' \in BOOLEAN
    BY <2>3, SpentType, StoppingEffect
  <2> QED BY <1>0, <1>15, <2>2, <2>4
          DEF ReadableExceedsBudget, TypeOK, sitemapVars, output
<1>16. CASE TakePage
  <2>1. /\ phase = "outcomes" /\ Spending
        /\ seen' = Recognized /\ represented' = represented \cup (Recognized \ seen)
        /\ \/ UNCHANGED documents
           \/ /\ documents' = Append(documents, PageOf(batch[1]))
              /\ PageOf(batch[1]) \in Docs
        /\ \E found \in Seq(Items) : additions' = additions \o found
        /\ batch' = Tail(batch)
        /\ phase' = IF Len(batch) = 1 THEN "collect" ELSE phase
        /\ UNCHANGED <<aborted, stopped, partial, robots, sitemaps, sitemapSeen, queue,
                       level, queued, visited, requests>>
    BY <1>16, TakePageEffect
  <2>2. /\ batch' \in Seq(Jobs) /\ Recognized \subseteq Urls
        /\ spent' \in [bytes : Nat, redirects : Nat]
    BY <2>1, OutcomeType, RecognizedType, SpentType
  <2>3. additions' \in Seq(Items)
    <3>1. additions \in Seq(Items)
      BY DEF TypeOK
    <3> QED BY <2>1, <3>1, ConcatElements
  <2>4. documents' \in Seq(Docs)
    <3>1. documents \in Seq(Docs)
      BY DEF TypeOK, Docs
    <3>2. PageOf(batch[1]) \in Docs => Append(documents, PageOf(batch[1])) \in Seq(Docs)
      BY <3>1, AppendElements
    <3> QED BY <2>1, <3>1, <3>2
  <2> QED BY <1>0, <2>1, <2>2, <2>3, <2>4 DEF TypeOK, Docs
<1>17. CASE LevelDone
  <2>1. /\ queue' \in Seq(Items)
        /\ queued' = queued \cup UrlsOf(New)
        /\ \/ partial' = TRUE /\ stopped' = "limit" /\ phase' = "ending"
           \/ phase' = "level" /\ UNCHANGED <<partial, stopped>>
        /\ UNCHANGED <<aborted, spent, robots, sitemaps, sitemapSeen, level, additions, seen,
                       represented, batch, visited, documents, requests>>
    BY <1>17, LevelDoneEffect
  <2>2. UrlsOf(New) \subseteq Urls
    <3>1. New \in Seq(Items)
      BY NewElements
    <3>2. \A i \in DOMAIN New : New[i] \in Items
      BY <3>1
    <3> QED BY <3>2 DEF UrlsOf, Items
  <2> QED BY <1>0, <2>1, <2>2 DEF TypeOK, Reasons
<1>18. CASE End
  <2>1. /\ phase' = "done" /\ partial' \in BOOLEAN
        /\ stopped' \in {stopped, "cancelled", "timeout", "limit"}
    BY <1>18 DEF End, TypeOK
  <2>2. UNCHANGED <<aborted, spent, robots, sitemapVars, frontier, batch, output>>
    BY <1>18 DEF End
  <2> QED BY <1>0, <2>1, <2>2 DEF TypeOK, Reasons, sitemapVars, frontier, output
<1> QED
  BY <1>1, <1>2, <1>3, <1>4, <1>5, <1>6, <1>7, <1>8, <1>9, <1>10, <1>11, <1>12, <1>13,
     <1>14, <1>15, <1>16, <1>17, <1>18 DEF Next

-----------------------------------------------------------------------------
(* Before the first level, the reasons, and the rounds.                     *)

\* Which actions there are, as the proofs below group them.
Fetching(i) == CheckRobots(i) \/ StartFetch(i) \/ FinishFetch(i) \/ ThrowFetch(i)

LEMMA EarlyStep == ASSUME TypeOK, Early, Next PROVE Early'
<1> SUFFICES ASSUME phase' \in Before PROVE Early'
  BY DEF Early
<1>1. ASSUME NEW source, Abort(source) PROVE Early'
  <2>1. UNCHANGED <<phase, robots, queue, level, additions, queued, seen, represented, batch,
                    visited, documents, requests>>
    BY <1>1 DEF Abort, frontier, output
  <2> QED BY <2>1 DEF Early
<1>2. CASE ReadRootRobots
  <2>1. /\ phase = "robots" /\ phase' = "sitemap"
        /\ UNCHANGED <<queue, level, additions, queued, seen, represented, batch,
                       visited, documents, requests>>
    BY <1>2 DEF ReadRootRobots, frontier, output
  <2> QED BY <2>1 DEF Early, Before
<1>3. CASE SkipSitemap
  <2>1. /\ phase = "sitemap"
        /\ UNCHANGED <<phase, queue, level, additions, queued, seen, represented, batch,
                       visited, documents, requests>>
    BY <1>3 DEF SkipSitemap, frontier, output
  <2> QED BY <2>1 DEF Early, Before
<1>4. CASE FetchSitemap
  <2>1. /\ phase = "sitemap" /\ sitemaps # <<>> /\ Head(sitemaps) \in SitemapItems
        /\ Head(sitemaps).depth <= SitemapDepth
        /\ UNCHANGED queue \/ TakeSitemap(Head(sitemaps))
        /\ UNCHANGED <<phase, robots, level, additions, queued, seen, represented,
                       batch, visited, documents, requests>>
    BY <1>4, FetchSitemapEffect
  <2>2. \A i \in DOMAIN queue : queue[i].depth = 0
    BY <2>1 DEF Early, Before
  <2>3. \A i \in DOMAIN queue' : queue'[i].depth = 0
    <3>1. CASE UNCHANGED queue
      BY <2>2, <3>1
    <3>2. CASE TakeSitemap(Head(sitemaps))
      BY <2>1, <2>2, <3>2, TakeSitemapType
    <3> QED BY <2>1, <3>1, <3>2
  <2> QED BY <2>1, <2>3 DEF Early, Before
<1>5. ~ SitemapsDone /\ ~ NextLevel /\ ~ LeaveLevels /\ ~ TakeCandidate /\ ~ CandidatesTaken
      /\ ~ AbortEligible /\ ~ StartRound
  BY DEF Before, SitemapsDone, NextLevel, LeaveLevels, TakeCandidate, CandidatesTaken,
         AbortEligible, StartRound
<1>6. \A i : ~ Fetching(i)
  BY DEF Before, Fetching, CheckRobots, StartFetch, FinishFetch, ThrowFetch
<1>7. ~ RoundDone /\ ~ DropRound /\ ~ PageExceedsBudget /\ ~ PageFailed
      /\ ~ ReadableExceedsBudget /\ ~ TakePage /\ ~ LevelDone /\ ~ End
  BY DEF Before, RoundDone, DropRound, PageExceedsBudget, PageFailed, ReadableExceedsBudget,
         TakePage, LevelDone, End
<1> QED
  BY <1>1, <1>2, <1>3, <1>4, <1>5, <1>6, <1>7 DEF Next, Fetching

LEMMA AbortedGrows == ASSUME TypeOK, Next PROVE aborted \subseteq aborted'
<1> SUFFICES ASSUME ~ UNCHANGED aborted PROVE aborted \subseteq aborted'
  OBVIOUS
<1>1. ASSUME NEW reason, Stop(reason) PROVE aborted \subseteq aborted'
  BY <1>1 DEF Stop, signals
<1>2. ASSUME NEW source, Abort(source) PROVE aborted \subseteq aborted'
  BY <1>2 DEF Abort
<1>3. CASE ReadRootRobots
  <2>1. OriginOf[Root] \in Origins
    BY Site
  <2>2. Stopping
    BY <1>3, <2>1, FetchRobotsEffect DEF ReadRootRobots
  <2> QED BY <2>2, StoppingEffect
<1>4. CASE FetchSitemap
  BY <1>4, FetchSitemapEffect, StoppingEffect
<1>5. ASSUME NEW i, Fetching(i) PROVE aborted \subseteq aborted'
  <2>1. CASE CheckRobots(i)
    <3>1. UNCHANGED signals \/ Stopping
      BY <2>1, CheckRobotsEffect
    <3> QED BY <3>1, StoppingEffect DEF Stopping
  <2>2. ~ StartFetch(i) /\ ~ FinishFetch(i) /\ ~ ThrowFetch(i)
    BY DEF StartFetch, FinishFetch, ThrowFetch, signals
  <2> QED BY <1>5, <2>1, <2>2 DEF Fetching
<1>6. StartRound \/ PageExceedsBudget \/ ReadableExceedsBudget => aborted \subseteq aborted'
  BY <1>1 DEF StartRound, PageExceedsBudget, ReadableExceedsBudget, signals
<1>7. ~ SkipSitemap /\ ~ SitemapsDone /\ ~ NextLevel /\ ~ LeaveLevels /\ ~ TakeCandidate
      /\ ~ CandidatesTaken /\ ~ AbortEligible
  BY DEF SkipSitemap, SitemapsDone, NextLevel, LeaveLevels, TakeCandidate, CandidatesTaken,
         AbortEligible, signals
<1>8. ~ RoundDone /\ ~ DropRound /\ ~ PageFailed /\ ~ TakePage /\ ~ LevelDone /\ ~ End
  BY DEF RoundDone, DropRound, PageFailed, TakePage, LevelDone, End, signals
<1> QED
  BY <1>2, <1>3, <1>4, <1>5, <1>6, <1>7, <1>8 DEF Next, Fetching

\* The first reason stands, and sends the crawl to its end.
Stands == stopped # NoReason => stopped' = stopped /\ partial'

LEMMA ReasonedStep == ASSUME TypeOK, Round, Reasoned, Next PROVE Reasoned' /\ Stands
<1> USE DEF Before, After
<1>0. aborted \subseteq aborted'
  BY AbortedGrows
\* A step that leaves the reason as it is, or gives it while the crawl goes on.
<1>1. ASSUME Stopping, phase' \in {"sitemap", "eligible", "ending"},
             phase \in {"robots", "sitemap", "eligible", "outcomes"}
      PROVE  Reasoned' /\ Stands
  <2>1. /\ stopped # NoReason => UNCHANGED signals
        /\ UNCHANGED signals \/ (stopped = NoReason /\ partial' /\ aborted' # {})
    BY <1>1, StoppingEffect
  <2>2. UNCHANGED signals => UNCHANGED <<aborted, stopped, partial>>
    BY DEF signals
  <2>3. CASE UNCHANGED signals
    BY <1>1, <2>2, <2>3 DEF Reasoned, Stands
  <2>4. CASE stopped = NoReason /\ partial' /\ aborted' # {}
    BY <1>1, <2>4 DEF Reasoned, Stands
  <2> QED BY <2>1, <2>3, <2>4
<1>2. ASSUME UNCHANGED <<stopped, partial>>,
             stopped = NoReason \/ phase' \in After
               \/ (phase' \notin {"collect", "fetch", "outcomes"} /\ aborted' # {})
      PROVE  Reasoned' /\ Stands
  BY <1>0, <1>2 DEF Reasoned, Stands
<1>3. /\ phase \in {"collect", "fetch", "outcomes"} => stopped = NoReason
      /\ phase \notin After /\ aborted = {} => stopped = NoReason
  BY DEF Reasoned
<1>4. ASSUME NEW source, Abort(source) PROVE Reasoned' /\ Stands
  <2>1. aborted' # {} /\ UNCHANGED <<stopped, partial, phase>>
    BY <1>4 DEF Abort
  <2> QED BY <1>2, <1>3, <2>1
<1>5. CASE ReadRootRobots
  <2>1. OriginOf[Root] \in Origins
    BY Site
  <2>2. Stopping /\ phase = "robots" /\ phase' = "sitemap"
    BY <1>5, <2>1, FetchRobotsEffect DEF ReadRootRobots
  <2> QED BY <1>1, <2>2
<1>6. CASE FetchSitemap
  <2>1. Stopping /\ phase = "sitemap" /\ phase' = "sitemap"
    BY <1>6, FetchSitemapEffect
  <2> QED BY <1>1, <2>1
<1>7. CASE SkipSitemap \/ SitemapsDone \/ NextLevel \/ LeaveLevels \/ TakeCandidate
             \/ CandidatesTaken \/ AbortEligible
  <2>1. UNCHANGED signals
    BY <1>7 DEF SkipSitemap, SitemapsDone, NextLevel, LeaveLevels, TakeCandidate,
                CandidatesTaken, AbortEligible
  <2>2. \/ phase = "sitemap" /\ phase' \in {"sitemap", "level"}
        \/ phase = "level" /\ aborted = {} /\ phase' = "collect"
        \/ phase' = "ending"
        \/ phase = "collect"
    BY <1>7 DEF SkipSitemap, SitemapsDone, NextLevel, LeaveLevels, TakeCandidate,
                CandidatesTaken, AbortEligible
  <2>3. UNCHANGED <<aborted, stopped, partial>>
    BY <2>1 DEF signals
  <2> QED BY <1>2, <1>3, <2>2, <2>3
<1>8. CASE StartRound
  <2>1. /\ phase = "eligible" /\ aborted = {}
        /\ \/ Stop("maxBytes") /\ phase' = "ending"
           \/ UNCHANGED signals
    BY <1>8 DEF StartRound
  <2>2. CASE Stop("maxBytes") /\ phase' = "ending"
    BY <1>1, <2>1, <2>2 DEF Stopping
  <2>3. CASE UNCHANGED signals
    <3>1. UNCHANGED <<stopped, partial>>
      BY <2>3 DEF signals
    <3> QED BY <1>2, <1>3, <2>1, <3>1
  <2> QED BY <2>1, <2>2, <2>3
<1>9. ASSUME NEW i, Fetching(i) PROVE Reasoned' /\ Stands
  <2>1. CASE CheckRobots(i)
    <3>1. phase = "eligible" /\ phase' = "eligible"
      BY <2>1 DEF CheckRobots
    <3>2. UNCHANGED signals \/ Stopping
      BY <2>1, CheckRobotsEffect
    <3>3. Stopping
      BY <3>2 DEF Stopping
    <3> QED BY <1>1, <3>1, <3>3
  <2>2. CASE StartFetch(i) \/ FinishFetch(i) \/ ThrowFetch(i)
    <3>1. phase = "fetch" /\ UNCHANGED <<stopped, partial>>
      BY <2>2 DEF StartFetch, FinishFetch, ThrowFetch, signals
    <3> QED BY <1>2, <1>3, <3>1
  <2> QED BY <1>9, <2>1, <2>2 DEF Fetching
<1>10. CASE RoundDone \/ DropRound \/ PageFailed \/ TakePage
  <2>1. phase \in {"fetch", "outcomes"} /\ UNCHANGED <<stopped, partial>>
    BY <1>10 DEF RoundDone, DropRound, PageFailed, TakePage, signals
  <2> QED BY <1>2, <1>3, <2>1
<1>11. CASE PageExceedsBudget \/ ReadableExceedsBudget
  <2>1. Stopping /\ phase = "outcomes" /\ phase' = "ending"
    BY <1>11, ExceededReason DEF PageExceedsBudget, ReadableExceedsBudget, Stopping
  <2> QED BY <1>1, <2>1
<1>12. CASE LevelDone
  <2>1. /\ phase = "collect"
        /\ \/ partial' = TRUE /\ phase' = "ending"
           \/ UNCHANGED <<partial, stopped>>
    BY <1>12 DEF LevelDone
  <2> QED BY <1>2, <1>3, <2>1 DEF Reasoned, Stands
<1>13. CASE End
  <2>1. /\ phase' = "done"
        /\ \/ stopped = NoReason /\ partial' = TRUE
           \/ UNCHANGED <<partial, stopped>>
    BY <1>13, Zenon DEF End
  <2> QED BY <1>2, <2>1 DEF Reasoned, Stands
<1> QED
  BY <1>4, <1>5, <1>6, <1>7, <1>8, <1>9, <1>10, <1>11, <1>12, <1>13 DEF Next, Fetching

-----------------------------------------------------------------------------
(* Rounds and budgets.                                                      *)

\* The first job leaves the round, whose last one ends it.
LEMMA JobLeaves ==
    ASSUME TypeOK, Round, phase = "outcomes", batch' = Tail(batch),
           phase' = IF Len(batch) = 1 THEN "collect" ELSE phase
    PROVE  /\ phase' \in {"collect", "outcomes"} /\ batch' \in Seq(Jobs)
           /\ phase' = "collect" => batch' = <<>>
           /\ phase' = "outcomes" => batch' # <<>>
           /\ Len(batch') = Len(batch) - 1 /\ Len(batch) \in Nat /\ 1 \in DOMAIN batch
           /\ \A i \in DOMAIN batch' : i + 1 \in DOMAIN batch /\ batch'[i] = batch[i + 1]
           /\ \A i \in DOMAIN batch :
                i = 1 \/ (i - 1 \in DOMAIN batch' /\ batch'[i - 1] = batch[i])
<1>1. batch \in Seq(Jobs) /\ batch # <<>>
  BY DEF TypeOK, Round
<1>2. /\ Tail(batch) \in Seq(Jobs) /\ 1 \in DOMAIN batch
      /\ Len(Tail(batch)) = Len(batch) - 1 /\ Len(batch) \in Nat
      /\ \A i \in DOMAIN Tail(batch) : i + 1 \in DOMAIN batch /\ Tail(batch)[i] = batch[i + 1]
      /\ \A i \in DOMAIN batch :
           i = 1 \/ (i - 1 \in DOMAIN Tail(batch) /\ Tail(batch)[i - 1] = batch[i])
  BY <1>1, TailElements
<1>3. Len(batch) = 1 => batch' = <<>>
  BY <1>1, <1>2
<1>4. Len(batch) # 1 => batch' # <<>>
  <2>1. batch' = <<>> => Len(batch') = 0
    OBVIOUS
  <2>2. Len(batch') = Len(batch) - 1 /\ Len(batch) \in Nat
    BY <1>2
  <2> QED BY <2>1, <2>2
<1> QED
  BY <1>2, <1>3, <1>4

LEMMA RoundStep == ASSUME TypeOK, Early, Round, Budgets, Next PROVE Round'
<1> USE DEF Before
<1>0. aborted \subseteq aborted'
  BY AbortedGrows
\* A step that leaves the round as it is.
<1>1. ASSUME UNCHANGED batch,
             \/ phase' \in {"robots", "sitemap", "ending", "done"}
             \/ phase' = phase /\ phase # "level"
             \/ phase' = "level" /\ batch = <<>> /\ level' = <<>>
             \/ phase' = "level" /\ UNCHANGED <<level, phase>>
             \/ phase' = "collect" /\ batch = <<>>
             \/ phase = "collect" /\ phase' = "eligible" /\ batch # <<>>
             \/ /\ phase' = "outcomes" /\ batch # <<>>
                /\ \A i \in DOMAIN batch : batch[i].state \in {"fetched", "threw"}
      PROVE  Round'
  BY <1>0, <1>1 DEF Round
<1>2. CASE \E source \in {"cancelled", "timeout"} : Abort(source)
  <2>1. UNCHANGED batch /\ UNCHANGED phase /\ phase # "level"
    BY <1>2 DEF Abort, Awaiting
  <2> QED BY <1>1, <2>1
<1>3. CASE ReadRootRobots \/ SkipSitemap \/ FetchSitemap \/ LeaveLevels \/ AbortEligible
             \/ DropRound \/ PageExceedsBudget \/ ReadableExceedsBudget \/ End
  <2>1. UNCHANGED batch /\ phase' \in {"robots", "sitemap", "ending", "done"}
    BY <1>3 DEF ReadRootRobots, SkipSitemap, FetchSitemap, LeaveLevels, AbortEligible,
                DropRound, PageExceedsBudget, ReadableExceedsBudget, End
  <2> QED BY <1>1, <2>1
<1>4. CASE SitemapsDone
  <2>1. UNCHANGED <<batch, level>> /\ phase' = "level" /\ phase = "sitemap"
    BY <1>4 DEF SitemapsDone
  <2> QED BY <1>1, <2>1 DEF Early
<1>5. CASE NextLevel
  <2>1. UNCHANGED batch /\ phase' = "collect" /\ phase = "level"
    BY <1>5 DEF NextLevel
  <2> QED BY <1>1, <2>1 DEF Round
<1>6. CASE TakeCandidate
  <2>1. phase = "collect" /\ UNCHANGED phase
    BY <1>6, TakeCandidateEffect
  <2>2. \/ UNCHANGED batch
        \/ \E job \in Jobs : batch' = Append(batch, job) /\ job.state = "candidate"
    BY <1>6, TakeCandidateEffect
  <2>3. CASE UNCHANGED batch
    BY <1>1, <2>1, <2>3
  <2>4. ASSUME NEW job \in Jobs, batch' = Append(batch, job), job.state = "candidate"
        PROVE  Round'
    <3>1. \A i \in DOMAIN batch : batch[i].state = "candidate"
      BY <2>1 DEF Round
    <3>2. \A i \in DOMAIN batch' : batch'[i].state = "candidate"
      BY <2>4, <3>1, AppendElements DEF TypeOK
    <3> QED BY <2>1, <3>2 DEF Round
  <2> QED BY <2>2, <2>3, <2>4
<1>7. CASE CandidatesTaken
  <2>1. UNCHANGED batch /\ phase = "collect" /\ phase' = "eligible" /\ batch # <<>>
    BY <1>7 DEF CandidatesTaken
  <2> QED BY <1>1, <2>1
<1>8. ASSUME NEW i, NEW s, Reaches(i, s), UNCHANGED phase,
             \/ phase = "eligible" /\ s \in {"allowed", "refused"}
             \/ phase = "fetch" /\ s \in {"running", "fetched"}
             \/ phase = "fetch" /\ s = "threw" /\ aborted # {}
      PROVE  Round'
  <2>1. /\ i \in DOMAIN batch /\ DOMAIN batch' = DOMAIN batch /\ Len(batch') = Len(batch)
        /\ batch'[i].state = s
        /\ \A j \in DOMAIN batch : j # i => batch'[j].state = batch[j].state
    BY <1>8 DEF Reaches
  <2>2. batch' # <<>>
    BY <2>1
  <2> QED BY <1>0, <1>8, <2>1, <2>2 DEF Round
<1>9. ASSUME NEW i, Fetching(i) PROVE Round'
  <2>1. CASE CheckRobots(i)
    <3>1. phase = "eligible" /\ UNCHANGED phase
      BY <2>1 DEF CheckRobots
    <3>2. Reaches(i, "allowed") \/ Reaches(i, "refused")
      BY <2>1, CheckRobotsEffect
    <3> QED BY <1>8, <3>1, <3>2
  <2>2. CASE StartFetch(i)
    <3>1. phase = "fetch" /\ UNCHANGED phase
      BY <2>2 DEF StartFetch
    <3> QED BY <1>8, <2>2, <3>1, FetchSteps
  <2>3. CASE FinishFetch(i)
    <3>1. phase = "fetch" /\ UNCHANGED phase
      BY <2>3 DEF FinishFetch
    <3> QED BY <1>8, <2>3, <3>1, FetchSteps
  <2>4. CASE ThrowFetch(i)
    <3>1. phase = "fetch" /\ UNCHANGED phase /\ aborted # {}
      BY <2>4 DEF ThrowFetch
    <3> QED BY <1>8, <2>4, <3>1, FetchSteps
  <2> QED BY <1>9, <2>1, <2>2, <2>3, <2>4 DEF Fetching
<1>10. CASE RoundDone
  <2>1. /\ UNCHANGED batch
        /\ \A i \in DOMAIN batch : batch[i].state \in {"fetched", "threw"}
        /\ phase' = IF batch = <<>> THEN "collect" ELSE "outcomes"
    BY <1>10 DEF RoundDone
  <2> QED BY <1>1, <2>1
<1>11. CASE PageFailed \/ TakePage
  <2>1. /\ phase = "outcomes" /\ batch' = Tail(batch)
        /\ phase' = IF Len(batch) = 1 THEN "collect" ELSE phase
    BY <1>11 DEF PageFailed, TakePage
  <2>2. /\ phase' \in {"collect", "outcomes"}
        /\ phase' = "collect" => batch' = <<>>
        /\ phase' = "outcomes" => batch' # <<>>
        /\ \A i \in DOMAIN batch' : i + 1 \in DOMAIN batch /\ batch'[i] = batch[i + 1]
    BY <2>1, JobLeaves
  <2>3. \A i \in DOMAIN batch' : batch'[i].state \in {"fetched", "threw"}
                                 /\ (batch'[i].state = "threw" => aborted' # {})
    BY <1>0, <2>1, <2>2 DEF Round
  <2>4. phase' = "collect" => DOMAIN batch' = {}
    BY <2>2
  <2> QED BY <2>2, <2>3, <2>4 DEF Round
<1>12. CASE LevelDone
  <2>1. UNCHANGED <<batch, level>> /\ batch = <<>>
    BY <1>12, LevelDoneEffect
  <2>2. phase' = "ending" \/ (phase' = "level" /\ level = <<>>)
    BY <1>12, LevelDoneEffect
  <2> QED BY <1>1, <2>1, <2>2
<1>13. CASE StartRound
  <2>1. \/ phase' = "ending" /\ UNCHANGED batch
        \/ /\ phase' = "fetch" /\ batch' \in Seq(Jobs) /\ Len(batch') \in Nat
           /\ Shared(Len(batch'))
    BY <1>13, StartRoundEffect DEF Budgets, WithinBudgets
  <2>2. CASE phase' = "ending" /\ UNCHANGED batch
    BY <1>1, <2>2
  <2>3. CASE phase' = "fetch" /\ Shared(Len(batch')) /\ batch' \in Seq(Jobs)
    <3>1. \A i \in DOMAIN batch' : batch'[i].state = "waiting"
      BY <2>3 DEF Shared
    <3> QED BY <2>3, <3>1 DEF Round
  <2> QED BY <2>1, <2>2, <2>3
<1> QED
  BY <1>2, <1>3, <1>4, <1>5, <1>6, <1>7, <1>9, <1>10, <1>11, <1>12, <1>13 DEF Next, Fetching

Shares(field) == [i \in DOMAIN batch |-> batch[i][field]]

LEMMA SharesType ==
    ASSUME TypeOK, NEW field \in {"bytes", "redirects"}
    PROVE  /\ Shares(field) \in Seq(Nat) /\ Len(Shares(field)) = Len(batch)
           /\ \A i \in 1..Len(batch) : Shares(field)[i] = batch[i][field]
<1>1. batch \in Seq(Jobs)
  BY DEF TypeOK
<1>2. \A i \in DOMAIN batch : batch[i]["bytes"] \in Nat /\ batch[i]["redirects"] \in Nat
  <2>1. \A job \in Jobs : job.bytes \in Nat /\ job.redirects \in Nat
    BY DEF Jobs
  <2>2. \A i \in DOMAIN batch : batch[i] \in Jobs
    BY <1>1
  <2> QED BY <2>1, <2>2
<1>3. Len(batch) \in Nat /\ DOMAIN batch = 1..Len(batch)
  BY <1>1
<1> QED
  BY <1>2, <1>3 DEF Shares

\* What the round may use stays the same while its fetches are under way.
LEMMA GrantedKept ==
    ASSUME TypeOK, NEW i, NEW s, Reaches(i, s), NEW field \in {"bytes", "redirects"}
    PROVE  Granted(field)' = Granted(field)
<1>1. \A j \in DOMAIN batch : batch'[j][field] = batch[j][field]
  BY DEF Reaches
<1>2. DOMAIN batch' = DOMAIN batch
  BY DEF Reaches
<1>3. [j \in DOMAIN batch' |-> batch'[j][field]] = [j \in DOMAIN batch |-> batch[j][field]]
  BY <1>1, <1>2
<1> QED
  BY <1>3 DEF Granted

\* The shares of a round that starts fit into what is left.
LEMMA RoundFits ==
    ASSUME TypeOK, TypeOK', Shared(Len(batch')), UNCHANGED spent,
           spent.bytes <= MaxBytes, spent.redirects <= MaxRedirects
    PROVE  /\ spent.bytes + Granted("bytes")' <= MaxBytes
           /\ spent.redirects + Granted("redirects")' <= MaxRedirects
<1> DEFINE n == Len(batch')
           Tb == MaxBytes - spent.bytes
           Tr == MaxRedirects - spent.redirects
           sb == [i \in DOMAIN batch' |-> batch'[i]["bytes"]]
           sr == [i \in DOMAIN batch' |-> batch'[i]["redirects"]]
<1>0. spent.bytes \in Nat /\ spent.redirects \in Nat
  BY DEF TypeOK
<1>1. Tb \in Nat /\ Tr \in Nat
  BY <1>0, Bounds
<1>2. batch' \in Seq(Jobs)
  BY DEF TypeOK
<1>3. n \in Nat /\ DOMAIN batch' = 1..n
  BY <1>2
<1>4. \A k \in 1..n : /\ batch'[k].bytes \in Nat /\ batch'[k].redirects \in Nat
                      /\ batch'[k].bytes <= Share(Tb, n, k)
                      /\ batch'[k].redirects <= Share(Tr, n, k)
  <2>1. \A job \in Jobs : job.bytes \in Nat /\ job.redirects \in Nat
    BY DEF Jobs
  <2>2. \A k \in 1..n : batch'[k] \in Jobs
    BY <1>2, <1>3
  <2>3. \A k \in 1..n : /\ batch'[k].bytes <= Share(Tb, n, k)
                        /\ batch'[k].redirects <= Share(Tr, n, k)
    BY DEF Shared
  <2> QED BY <2>1, <2>2, <2>3
<1> HIDE DEF Tb, Tr, n
<1>5. /\ sb \in Seq(Nat) /\ Len(sb) = n /\ \A k \in 1..Len(sb) : sb[k] <= Share(Tb, Len(sb), k)
      /\ sr \in Seq(Nat) /\ Len(sr) = n /\ \A k \in 1..Len(sr) : sr[k] <= Share(Tr, Len(sr), k)
  <2>1. /\ DOMAIN sb = 1..n /\ DOMAIN sr = 1..n
        /\ \A k \in 1..n : /\ sb[k] \in Nat /\ sr[k] \in Nat
                           /\ sb[k] <= Share(Tb, n, k) /\ sr[k] <= Share(Tr, n, k)
    BY <1>3, <1>4
  <2>2. sb \in [1..n -> Nat] /\ sr \in [1..n -> Nat]
    BY <1>3, <1>4
  <2> HIDE DEF sb, sr
  <2>3. sb \in Seq(Nat) /\ Len(sb) = n /\ sr \in Seq(Nat) /\ Len(sr) = n
    BY <1>3, <2>2
  <2> QED BY <2>1, <2>3
<1>6. Granted("bytes")' = Total(sb) /\ Granted("redirects")' = Total(sr)
  BY DEF Granted
<1> HIDE DEF sb, sr
<1>7. Total(sb) <= Tb /\ Total(sr) <= Tr
  BY <1>1, <1>5, SharesFit
<1>8. Total(sb) \in Nat /\ Total(sr) \in Nat
  <2>1. \A s \in Seq(Nat) : Len(s) \in Nat
    OBVIOUS
  <2>2. \A s \in Seq(Nat) : Total(s) \in Nat
    <3> SUFFICES ASSUME NEW s \in Seq(Nat) PROVE Total(s) \in Nat
      OBVIOUS
    <3>1. PICK f \in [0..Len(s) -> Nat] : Total(s) = f[Len(s)]
      BY TotalIsSum
    <3> QED BY <2>1, <3>1
  <2> QED BY <1>5, <2>2
<1> QED
  BY <1>0, <1>6, <1>7, <1>8, Bounds DEF Tb, Tr

LEMMA BudgetsStep == ASSUME TypeOK, TypeOK', Early, Round, Budgets, Next PROVE Budgets'
<1> USE DEF Before
<1>0. /\ spent.bytes <= MaxBytes /\ spent.redirects <= MaxRedirects
      /\ visited <= Limit /\ visited \in Nat /\ Limit \in Nat
      /\ batch \in Seq(Jobs) /\ Len(batch) \in Nat /\ Len(<<>>) = 0
  BY Bounds DEF TypeOK, Budgets, WithinBudgets
\* A step that spends, or not, and leaves the round.
<1>1. ASSUME Spending, UNCHANGED visited, phase' # "fetch",
             phase' \in {"collect", "eligible"} => visited + Len(batch') <= Limit
      PROVE  Budgets'
  <2>1. spent'.bytes <= MaxBytes /\ spent'.redirects <= MaxRedirects
    BY <1>0, <1>1, SpendingEffect
  <2> QED BY <1>0, <1>1, <2>1 DEF Budgets, WithinBudgets
<1>2. UNCHANGED spent => Spending
  BY DEF Spending
<1>3. CASE \E source \in {"cancelled", "timeout"} : Abort(source)
  <2>1. UNCHANGED <<phase, spent, batch, visited>>
    BY <1>3 DEF Abort, output
  <2>2. Granted("bytes")' = Granted("bytes") /\ Granted("redirects")' = Granted("redirects")
    BY <2>1 DEF Granted
  <2> QED BY <2>1, <2>2 DEF Budgets, WithinBudgets
<1>4. CASE ReadRootRobots
  <2>1. OriginOf[Root] \in Origins /\ FetchRobots(OriginOf[Root])
    BY <1>4, Site DEF ReadRootRobots
  <2>2. phase' = "sitemap" /\ UNCHANGED visited
    BY <1>4 DEF ReadRootRobots, output
  <2>3. Spending
    BY <2>1, FetchRobotsEffect
  <2> QED BY <1>1, <2>2, <2>3
<1>5. CASE FetchSitemap
  <2>1. Spending /\ phase' = "sitemap" /\ UNCHANGED visited
    BY <1>5, FetchSitemapEffect
  <2> QED BY <1>1, <2>1
<1>6. CASE SkipSitemap \/ SitemapsDone \/ LeaveLevels \/ AbortEligible \/ DropRound
             \/ PageExceedsBudget \/ End
  <2>1. UNCHANGED <<spent, visited>> /\ phase' \in {"sitemap", "level", "ending", "done"}
    BY <1>6 DEF SkipSitemap, SitemapsDone, LeaveLevels, AbortEligible, DropRound,
                PageExceedsBudget, End, output
  <2> QED BY <1>1, <1>2, <2>1
<1>7. CASE NextLevel
  <2>1. UNCHANGED <<spent, visited, batch>> /\ phase = "level" /\ phase' = "collect"
    BY <1>7 DEF NextLevel, output
  <2>2. batch' = <<>>
    BY <2>1 DEF Round
  <2> QED BY <1>0, <1>1, <1>2, <2>1, <2>2
<1>8. CASE TakeCandidate
  <2>1. /\ phase = "collect" /\ UNCHANGED <<phase, spent, visited>>
        /\ visited + Len(batch) < Limit
        /\ \/ UNCHANGED batch
           \/ \E job \in Jobs : batch' = Append(batch, job)
    BY <1>8, TakeCandidateEffect
  <2>2. Len(batch') <= Len(batch) + 1 /\ Len(batch') \in Nat
    BY <1>0, <2>1
  <2>3. visited + Len(batch') <= Limit
    BY <1>0, <2>1, <2>2
  <2> QED BY <1>1, <1>2, <2>1, <2>3
<1>9. CASE CandidatesTaken
  <2>1. UNCHANGED <<spent, visited, batch>> /\ phase = "collect" /\ phase' = "eligible"
    BY <1>9 DEF CandidatesTaken, output
  <2> QED BY <1>0, <1>1, <1>2, <2>1 DEF Budgets
<1>10. CASE StartRound
  <2>1. /\ phase = "eligible" /\ UNCHANGED spent
        /\ \/ phase' = "ending" /\ UNCHANGED visited
           \/ /\ phase' = "fetch" /\ visited' = visited + Len(batch')
              /\ Len(batch') <= Len(batch) /\ Len(batch') \in Nat
              /\ Shared(Len(batch'))
    BY <1>0, <1>10, StartRoundEffect
  <2>2. CASE phase' = "ending" /\ UNCHANGED visited
    BY <1>1, <1>2, <2>1, <2>2
  <2>3. CASE /\ phase' = "fetch" /\ visited' = visited + Len(batch')
             /\ Len(batch') <= Len(batch) /\ Len(batch') \in Nat
             /\ Shared(Len(batch'))
    <3>1. visited + Len(batch) <= Limit
      BY <2>1 DEF Budgets
    <3>2. visited' <= Limit
      BY <1>0, <2>3, <3>1
    <3>3. /\ spent'.bytes + Granted("bytes")' <= MaxBytes
          /\ spent'.redirects + Granted("redirects")' <= MaxRedirects
      BY <1>0, <2>1, <2>3, RoundFits
    <3> QED BY <1>0, <2>1, <2>3, <3>2, <3>3 DEF Budgets, WithinBudgets
  <2> QED BY <2>1, <2>2, <2>3
<1>11. ASSUME NEW i, Fetching(i) PROVE Budgets'
  <2>1. CASE CheckRobots(i)
    <3>1. phase = "eligible" /\ UNCHANGED <<phase, visited>>
      BY <2>1 DEF CheckRobots, output
    <3>2. Spending /\ \E s : Reaches(i, s)
      BY <2>1, <1>2, CheckRobotsEffect
    <3>3. Len(batch') = Len(batch)
      BY <3>2 DEF Reaches
    <3> QED BY <1>1, <3>1, <3>2, <3>3 DEF Budgets
  <2>2. CASE StartFetch(i) \/ FinishFetch(i) \/ ThrowFetch(i)
    <3>1. phase = "fetch" /\ UNCHANGED <<phase, spent, visited>>
      BY <2>2 DEF StartFetch, FinishFetch, ThrowFetch, output
    <3>2. \E s : Reaches(i, s)
      BY <2>2, FetchSteps
    <3>3. /\ Granted("bytes")' = Granted("bytes")
          /\ Granted("redirects")' = Granted("redirects")
      BY <3>2, GrantedKept
    <3> QED BY <3>1, <3>3 DEF Budgets, WithinBudgets
  <2> QED BY <1>11, <2>1, <2>2 DEF Fetching
<1>12. CASE RoundDone
  <2>1. /\ UNCHANGED <<spent, visited, batch>>
        /\ phase' = IF batch = <<>> THEN "collect" ELSE "outcomes"
    BY <1>12 DEF RoundDone, output
  <2>2. phase' = "collect" => batch' = <<>>
    BY <2>1
  <2> QED BY <1>0, <1>1, <1>2, <2>1, <2>2
<1>13. CASE PageFailed \/ TakePage
  <2>1. /\ phase = "outcomes" /\ batch' = Tail(batch) /\ UNCHANGED visited
        /\ phase' = IF Len(batch) = 1 THEN "collect" ELSE phase
    BY <1>13 DEF PageFailed, TakePage, output
  <2>2. Spending
    <3>1. CASE PageFailed
      <4>1. Outcome.bytes \in Nat /\ Outcome.redirects \in Nat
        BY <2>1, OutcomeType
      <4> QED BY <3>1, <4>1 DEF PageFailed, Spending
    <3>2. CASE TakePage
      BY <3>2, TakePageEffect
    <3> QED BY <1>13, <3>1, <3>2
  <2>3. phase' \in {"collect", "outcomes"} /\ (phase' = "collect" => batch' = <<>>)
    BY <2>1, JobLeaves
  <2> QED BY <1>0, <1>1, <2>1, <2>2, <2>3
<1>14. CASE ReadableExceedsBudget
  <2>1. /\ phase = "outcomes" /\ phase' = "ending" /\ UNCHANGED visited
        /\ Fits(Outcome.bytes, Outcome.redirects) /\ Spend(Outcome.bytes, Outcome.redirects)
    BY <1>14 DEF ReadableExceedsBudget, output
  <2>2. Outcome.bytes \in Nat /\ Outcome.redirects \in Nat
    BY <2>1, OutcomeType
  <2>3. Spending
    BY <2>1, <2>2 DEF Spending
  <2> QED BY <1>1, <2>1, <2>3
<1>15. CASE LevelDone
  <2>1. UNCHANGED <<spent, visited>> /\ phase' \in {"level", "ending"}
    BY <1>15, LevelDoneEffect
  <2> QED BY <1>1, <1>2, <2>1
<1> QED
  BY <1>3, <1>4, <1>5, <1>6, <1>7, <1>8, <1>9, <1>10, <1>11, <1>12, <1>13, <1>14, <1>15
     DEF Next, Fetching

-----------------------------------------------------------------------------
(* Requests.                                                                *)

\* The steps that leave the round, the documents and the requests alone.
Quiet ==
    \/ \E source \in {"cancelled", "timeout"} : Abort(source)
    \/ ReadRootRobots \/ SkipSitemap \/ FetchSitemap \/ SitemapsDone
    \/ NextLevel \/ LeaveLevels \/ CandidatesTaken \/ AbortEligible
    \/ RoundDone \/ DropRound \/ PageExceedsBudget \/ ReadableExceedsBudget
    \/ LevelDone \/ End

LEMMA QuietSteps ==
    ASSUME TypeOK, Round, Quiet
    PROVE  UNCHANGED <<batch, documents, requests, visited>> /\ seen \subseteq seen'
<1>1. CASE ReadableExceedsBudget
  <2>1. phase = "outcomes" /\ seen' = Recognized /\ UNCHANGED <<batch, documents, requests, visited>>
    BY <1>1 DEF ReadableExceedsBudget, output
  <2> QED BY <2>1, RecognizedType
<1>2. CASE ~ ReadableExceedsBudget
  <2>1. UNCHANGED <<batch, output>>
    BY <1>2 DEF Quiet, Abort, ReadRootRobots, SkipSitemap, FetchSitemap, SitemapsDone, NextLevel,
                LeaveLevels, CandidatesTaken, AbortEligible, RoundDone, DropRound,
                PageExceedsBudget, LevelDone, End
  <2>2. UNCHANGED seen
    BY <1>2 DEF Quiet, Abort, ReadRootRobots, SkipSitemap, FetchSitemap, SitemapsDone, NextLevel,
                LeaveLevels, CandidatesTaken, AbortEligible, RoundDone, DropRound,
                PageExceedsBudget, LevelDone, End, frontier
  <2> QED BY <2>1, <2>2 DEF output
<1> QED BY <1>1, <1>2

LEMMA RequestedStep == ASSUME TypeOK, TypeOK', Round, Budgets, Requested, Next PROVE Requested'
<1>0. /\ batch \in Seq(Jobs) /\ documents \in Seq(Docs) /\ seen \subseteq Urls
      /\ requests \in [Urls -> Nat]
      /\ \A i \in DOMAIN batch : batch[i].url \in Urls /\ requests[batch[i].url] \in Nat
  <2>1. \A job \in Jobs : job.url \in Urls
    BY DEF Jobs
  <2>2. batch \in Seq(Jobs) /\ requests \in [Urls -> Nat]
    BY DEF TypeOK
  <2>3. \A i \in DOMAIN batch : batch[i] \in Jobs
    BY <2>2
  <2> QED BY <2>1, <2>2, <2>3 DEF TypeOK, Docs
<1>1. CASE Quiet
  <2>1. UNCHANGED <<batch, documents, requests>> /\ seen \subseteq seen'
    BY <1>1, QuietSteps
  <2> QED BY <2>1 DEF Requested, NothingTwice
<1>2. CASE TakeCandidate
  <2>1. /\ phase = "collect" /\ UNCHANGED <<documents, requests>> /\ seen \subseteq seen'
        /\ \/ UNCHANGED batch
           \/ \E job \in Jobs :
                batch' = Append(batch, job) /\ job.url \in InScope \ seen
                  /\ job.url \in seen' /\ job.state = "candidate"
    BY <1>2, TakeCandidateEffect
  <2>2. CASE UNCHANGED batch
    BY <2>1, <2>2 DEF Requested, NothingTwice
  <2>3. ASSUME NEW job \in Jobs,
               batch' = Append(batch, job), job.url \in InScope \ seen,
               job.url \in seen', job.state = "candidate"
        PROVE  Requested'
    <3> DEFINE n == Len(batch) + 1
    <3>1. /\ n \in DOMAIN batch' /\ batch'[n] = job
          /\ \A i \in DOMAIN batch : i \in DOMAIN batch' /\ batch'[i] = batch[i] /\ i # n
          /\ \A i \in DOMAIN batch' : i \in DOMAIN batch \/ i = n
      BY <1>0, <2>3, AppendElements
    <3> HIDE DEF n
    <3>2. job.url \in Urls /\ requests[job.url] = 0
      BY <1>0, <2>3, Site DEF Requested
    <3>3. \A i \in DOMAIN batch : batch[i].url # job.url
      BY <2>3 DEF Requested
    <3>4. \A i \in DOMAIN batch' : batch'[i].state = "candidate"
      BY <2>1, <2>3, <3>1 DEF Round
    <3>5. NothingTwice'
      BY <2>1, <3>4 DEF Requested, NothingTwice
    <3>6. \A i, j \in DOMAIN batch' : batch'[i].url = batch'[j].url => i = j
      BY <3>1, <3>3 DEF Requested
    <3>7. \A i \in DOMAIN batch' : /\ batch'[i].url \in seen' \cap InScope
                                   /\ requests'[batch'[i].url] = 0
      BY <2>1, <2>3, <3>1, <3>2, <3>4 DEF Requested, Round
    <3>8. /\ \A u \in Urls : requests'[u] > 0 => u \in seen'
          /\ \A i \in DOMAIN documents' : documents'[i].url \in InScope
      BY <2>1 DEF Requested
    <3> QED BY <3>4, <3>5, <3>6, <3>7, <3>8 DEF Requested
  <2> QED BY <2>1, <2>2, <2>3
<1>3. CASE StartRound
  <2>1. /\ UNCHANGED <<seen, documents, requests>>
        /\ \/ UNCHANGED batch
           \/ /\ batch' \in Seq(Jobs) /\ Len(batch') \in Nat /\ Shared(Len(batch'))
              /\ \E f : TakenFrom(f, Len(batch'))
    BY <1>3, StartRoundEffect DEF Budgets, WithinBudgets
  <2>2. CASE UNCHANGED batch
    BY <2>1, <2>2 DEF Requested, NothingTwice
  <2>3. ASSUME NEW n \in Nat, n = Len(batch'), batch' \in Seq(Jobs), Shared(n),
               NEW f, TakenFrom(f, n)
        PROVE  Requested'
    <3>1. DOMAIN batch' = 1..n
      BY <2>3
    <3>2. /\ \A k \in DOMAIN batch' :
               f[k] \in DOMAIN batch /\ batch'[k].url = batch[f[k]].url
                 /\ batch[f[k]].state = "allowed" /\ batch'[k].state = "waiting"
          /\ \A k, l \in DOMAIN batch' : f[k] = f[l] => k = l
      BY <2>3, <3>1 DEF TakenFrom, Shared
    <3>3. NothingTwice'
      BY <2>1, <3>2 DEF Requested, NothingTwice
    <3>4. \A i, j \in DOMAIN batch' : batch'[i].url = batch'[j].url => i = j
      BY <3>2 DEF Requested
    <3>5. \A i \in DOMAIN batch' : /\ batch'[i].url \in seen' \cap InScope
                                   /\ requests'[batch'[i].url] = 0
      BY <2>1, <3>2 DEF Requested
    <3> QED BY <2>1, <3>2, <3>3, <3>4, <3>5 DEF Requested
  <2> QED BY <2>1, <2>2, <2>3
<1>4. ASSUME NEW i, CheckRobots(i) \/ FinishFetch(i) \/ ThrowFetch(i) PROVE Requested'
  <2>1. UNCHANGED <<documents, requests, seen>>
    BY <1>4 DEF CheckRobots, FinishFetch, ThrowFetch, frontier, output
  <2>2. PICK s : /\ Reaches(i, s)
                 /\ \/ s \in {"allowed", "refused"} /\ batch[i].state = "candidate"
                    \/ s = "fetched" /\ batch[i].state = "running"
                    \/ s = "threw"
    BY <1>4, CheckRobotsEffect, FetchSteps DEF FinishFetch
  <2>3. /\ i \in DOMAIN batch /\ DOMAIN batch' = DOMAIN batch /\ batch'[i].state = s
        /\ \A j \in DOMAIN batch : /\ batch'[j].url = batch[j].url
                                   /\ j # i => batch'[j].state = batch[j].state
    BY <2>2 DEF Reaches
  <2>4. \A j \in DOMAIN batch : batch'[j].state = "running" => batch[j].state = "running"
    BY <2>2, <2>3
  <2>5. NothingTwice'
    BY <2>1, <2>3, <2>4 DEF Requested, NothingTwice
  <2>6. \A j \in DOMAIN batch' :
          /\ batch'[j].state \in {"candidate", "allowed", "refused", "waiting"}
               => requests'[batch'[j].url] = 0
          /\ batch'[j].state \in {"running", "fetched"} => requests'[batch'[j].url] > 0
    BY <2>1, <2>2, <2>3 DEF Requested
  <2> QED BY <2>1, <2>3, <2>5, <2>6 DEF Requested
<1>5. ASSUME NEW i, StartFetch(i) PROVE Requested'
  <2>1. /\ UNCHANGED <<documents, seen>> /\ phase = "fetch" /\ i \in DOMAIN batch
        /\ batch[i].state = "waiting"
        /\ \A j \in DOMAIN batch : SameOrigin(i, j) => batch[j].state # "running"
        /\ requests' = [requests EXCEPT ![batch[i].url] = @ + 1]
    BY <1>5 DEF StartFetch, frontier
  <2>2. /\ DOMAIN batch' = DOMAIN batch /\ batch'[i].state = "running"
        /\ \A j \in DOMAIN batch : /\ batch'[j].url = batch[j].url
                                   /\ j # i => batch'[j].state = batch[j].state
    BY <1>5, FetchSteps DEF Reaches
  <2>3. PICK u \in Urls : u = batch[i].url
    BY <1>0, <2>1
  <2>4. requests[u] = 0 /\ u \in seen
    BY <2>1, <2>3 DEF Requested
  <2>5. requests'[u] = 1 /\ \A v \in Urls : v # u => requests'[v] = requests[v]
    BY <1>0, <2>1, <2>3, <2>4
  <2>6. \A j \in DOMAIN batch : j # i => batch[j].url # u
    BY <2>1, <2>3 DEF Requested
  <2>7. \A j, k \in DOMAIN batch' :
          batch'[j].state = "running" /\ batch'[k].state = "running"
            /\ OriginOf[batch'[j].url] = OriginOf[batch'[k].url] => j = k
    BY <2>1, <2>2 DEF SameOrigin, Requested, NothingTwice
  <2>8. NothingTwice'
    BY <2>1, <2>5, <2>7 DEF Requested, NothingTwice
  <2>9. \A j \in DOMAIN batch' :
          /\ batch'[j].state \in {"candidate", "allowed", "refused", "waiting"}
               => requests'[batch'[j].url] = 0
          /\ batch'[j].state \in {"running", "fetched"} => requests'[batch'[j].url] > 0
    <3> SUFFICES ASSUME NEW j \in DOMAIN batch
                 PROVE  /\ batch'[j].state \in {"candidate", "allowed", "refused", "waiting"}
                             => requests'[batch'[j].url] = 0
                        /\ batch'[j].state \in {"running", "fetched"}
                             => requests'[batch'[j].url] > 0
      BY <2>2
    <3>1. CASE j = i
      BY <2>2, <2>3, <2>5, <3>1
    <3>2. CASE j # i
      BY <1>0, <2>2, <2>5, <2>6, <3>2 DEF Requested
    <3> QED BY <3>1, <3>2
  <2>10. \A v \in Urls : requests'[v] > 0 => v \in seen'
    BY <2>1, <2>4, <2>5 DEF Requested
  <2> QED BY <2>1, <2>2, <2>8, <2>9, <2>10 DEF Requested
\* The first job leaves the round.
<1>6. ASSUME phase = "outcomes", UNCHANGED requests, seen \subseteq seen', batch' = Tail(batch),
             phase' = IF Len(batch) = 1 THEN "collect" ELSE phase,
             \A i \in DOMAIN documents' : documents'[i].url \in InScope,
             \A i, j \in DOMAIN documents' : documents'[i].key = documents'[j].key => i = j
      PROVE  Requested'
  <2>1. \A i \in DOMAIN batch' : i + 1 \in DOMAIN batch /\ batch'[i] = batch[i + 1] /\ i \in Nat
    <3>1. /\ \A i \in DOMAIN batch' : i + 1 \in DOMAIN batch /\ batch'[i] = batch[i + 1]
          /\ batch' \in Seq(Jobs)
      BY <1>6, JobLeaves
    <3> QED BY <3>1
  <2>2. \A i \in DOMAIN batch' : batch'[i].state \in {"fetched", "threw"}
    BY <1>6, <2>1 DEF Round
  <2>3. NothingTwice'
    BY <1>6, <2>2 DEF Requested, NothingTwice
  <2>4. \A i, j \in DOMAIN batch' : batch'[i].url = batch'[j].url => i + 1 = j + 1
    BY <2>1 DEF Requested
  <2>5. \A i, j \in DOMAIN batch' : i + 1 = j + 1 => i = j
    BY <2>1
  <2>6. \A i \in DOMAIN batch' :
          /\ batch'[i].url \in seen' \cap InScope
          /\ batch'[i].state \in {"running", "fetched"} => requests'[batch'[i].url] > 0
    BY <1>6, <2>1 DEF Requested
  <2> QED BY <1>6, <2>2, <2>3, <2>4, <2>5, <2>6 DEF Requested
<1>7. CASE PageFailed
  <2>1. /\ phase = "outcomes" /\ UNCHANGED <<requests, seen, documents>> /\ batch' = Tail(batch)
        /\ phase' = IF Len(batch) = 1 THEN "collect" ELSE phase
    BY <1>7 DEF PageFailed, frontier, output
  <2> QED BY <1>6, <2>1 DEF Requested, NothingTwice
<1>8. CASE TakePage
  <2>1. /\ phase = "outcomes" /\ UNCHANGED requests /\ batch' = Tail(batch)
        /\ phase' = IF Len(batch) = 1 THEN "collect" ELSE phase
        /\ seen' = Recognized
        /\ \/ UNCHANGED documents
           \/ /\ documents' = Append(documents, PageOf(batch[1]))
              /\ PageOf(batch[1]) \in Docs
              /\ OutputKey(Outcome.final) \notin Emitted
    BY <1>8, TakePageEffect
  <2>2. seen \subseteq seen' /\ 1 \in DOMAIN batch
    BY <2>1, RecognizedType, OutcomeType
  <2>3. CASE UNCHANGED documents
    BY <1>6, <2>1, <2>2, <2>3 DEF Requested, NothingTwice
  <2>4. CASE /\ documents' = Append(documents, PageOf(batch[1]))
             /\ PageOf(batch[1]) \in Docs
             /\ OutputKey(Outcome.final) \notin Emitted
    <3> DEFINE n == Len(documents) + 1
    <3>1. /\ n \in DOMAIN documents' /\ documents'[n] = PageOf(batch[1])
          /\ \A i \in DOMAIN documents : i \in DOMAIN documents' /\ documents'[i] = documents[i]
          /\ \A i \in DOMAIN documents' : i \in DOMAIN documents \/ i = n
      BY <1>0, <2>4, AppendElements
    <3> HIDE DEF n
    <3>2. /\ PageOf(batch[1]).url = batch[1].url
          /\ PageOf(batch[1]).key = OutputKey(Outcome.final)
      BY DEF PageOf
    <3>3. \A i \in DOMAIN documents : documents[i].key # PageOf(batch[1]).key
      BY <2>4, <3>2 DEF Emitted
    <3>4. \A i, j \in DOMAIN documents' : documents'[i].key = documents'[j].key => i = j
      BY <3>1, <3>3 DEF Requested, NothingTwice
    <3>5. \A i \in DOMAIN documents' : documents'[i].url \in InScope
      BY <2>2, <3>1, <3>2 DEF Requested
    <3> QED BY <1>6, <2>1, <2>2, <3>4, <3>5
  <2> QED BY <2>1, <2>3, <2>4
<1> QED
  BY <1>1, <1>2, <1>3, <1>4, <1>5, <1>7, <1>8 DEF Next, Quiet

-----------------------------------------------------------------------------
(* Verdicts.                                                                *)

LEMMA PoliciesStand ==
    ASSUME TypeOK, Early, Next
    PROVE  \A o \in Origins : robots[o] # "unknown" => robots'[o] = robots[o]
<1> SUFFICES ASSUME ~ UNCHANGED robots
             PROVE  \A o \in Origins : robots[o] # "unknown" => robots'[o] = robots[o]
  OBVIOUS
<1>1. CASE ReadRootRobots
  <2>1. phase = "robots"
    BY <1>1 DEF ReadRootRobots
  <2> QED BY <2>1 DEF Early, Before
<1>2. ASSUME NEW i, CheckRobots(i)
      PROVE  \A o \in Origins : robots[o] # "unknown" => robots'[o] = robots[o]
  <2>1. PICK o \in Origins, policy \in {"unavailable", "open", "rules"} :
          robots[o] = "unknown" /\ robots' = [robots EXCEPT ![o] = policy]
    BY <1>2, CheckRobotsEffect
  <2> QED BY <2>1, RobotsType
<1>3. /\ ~ (\E source \in {"cancelled", "timeout"} : Abort(source))
      /\ ~ SkipSitemap /\ ~ FetchSitemap /\ ~ SitemapsDone /\ ~ NextLevel /\ ~ LeaveLevels
      /\ ~ TakeCandidate /\ ~ CandidatesTaken /\ ~ AbortEligible /\ ~ StartRound
      /\ \A i : ~ StartFetch(i) /\ ~ FinishFetch(i) /\ ~ ThrowFetch(i)
      /\ ~ RoundDone /\ ~ DropRound /\ ~ PageExceedsBudget /\ ~ PageFailed
      /\ ~ ReadableExceedsBudget /\ ~ TakePage /\ ~ LevelDone /\ ~ End
  BY DEF Abort, SkipSitemap, FetchSitemap, SitemapsDone, NextLevel, LeaveLevels, TakeCandidate,
         CandidatesTaken, AbortEligible, StartRound, StartFetch, FinishFetch, ThrowFetch, RoundDone,
         DropRound, PageExceedsBudget, PageFailed, ReadableExceedsBudget, TakePage, LevelDone, End
<1> QED
  BY <1>1, <1>2, <1>3 DEF Next

LEMMA VerdictsStay ==
    ASSUME TypeOK, Early, Next, NEW u \in Urls
    PROVE  /\ Welcome(u) => Welcome(u)'
           /\ Refused(u) => Refused(u)'
<1>1. UNCHANGED mode
  BY DEF Next
<1>2. OriginOf[u] \in Origins
  BY Site
<1>3. robots[OriginOf[u]] # "unknown" => robots'[OriginOf[u]] = robots[OriginOf[u]]
  BY <1>2, PoliciesStand
<1> QED
  BY <1>1, <1>3 DEF Welcome, Refused

LEMMA VerdictsStep ==
    ASSUME TypeOK, TypeOK', Early, Round, Budgets, Requested, Verdicts, Next
    PROVE  Verdicts'
<1>0. /\ batch \in Seq(Jobs) /\ requests \in [Urls -> Nat]
      /\ \A i \in DOMAIN batch : batch[i].url \in Urls /\ batch[i].url \in InScope
  BY Site DEF TypeOK, Requested
<1>1. \A u \in Urls :
        /\ requests[u] > 0 => Welcome(u)'
        /\ \A i \in DOMAIN batch : batch[i].url = u =>
             /\ batch[i].state \notin {"candidate", "refused"} => Welcome(u)'
             /\ batch[i].state = "refused" => Refused(u)'
  BY VerdictsStay DEF Verdicts, OnlyWelcomeRequests
\* It is enough that every request and verdict was there, or is of a known policy.
<1>2. ASSUME \A u \in Urls : requests'[u] > 0 => Welcome(u)',
             \A k \in DOMAIN batch' : \E u \in Urls :
               /\ u = batch'[k].url
               /\ batch'[k].state \notin {"candidate", "refused"} => Welcome(u)'
               /\ batch'[k].state = "refused" => Refused(u)'
      PROVE  Verdicts'
  BY <1>2 DEF Verdicts, OnlyWelcomeRequests
<1>3. ASSUME UNCHANGED requests,
             \A k \in DOMAIN batch' : \E i \in DOMAIN batch :
               /\ batch'[k].url = batch[i].url
               /\ \/ batch'[k].state = batch[i].state
                  \/ /\ batch[i].state \notin {"candidate", "refused"}
                     /\ batch'[k].state # "refused"
      PROVE  Verdicts'
  <2>1. \A u \in Urls : requests'[u] > 0 => Welcome(u)'
    BY <1>1, <1>3
  <2>2. \A k \in DOMAIN batch' : \E u \in Urls :
               /\ u = batch'[k].url
               /\ batch'[k].state \notin {"candidate", "refused"} => Welcome(u)'
               /\ batch'[k].state = "refused" => Refused(u)'
    BY <1>0, <1>1, <1>3
  <2> QED BY <1>2, <2>1, <2>2
<1>4. CASE Quiet
  <2>1. UNCHANGED <<batch, requests>>
    BY <1>4, QuietSteps
  <2> QED BY <1>3, <2>1
<1>5. CASE TakeCandidate
  <2>1. /\ phase = "collect" /\ UNCHANGED <<phase, requests>>
    BY <1>5, TakeCandidateEffect
  <2>2. Round'
    BY RoundStep
  <2>3. \A k \in DOMAIN batch' : batch'[k].state = "candidate" /\ batch'[k].url \in Urls
    <3>1. \A job \in Jobs : job.url \in Urls
      BY DEF Jobs
    <3>2. \A k \in DOMAIN batch' : batch'[k] \in Jobs
      <4>1. batch' \in Seq(Jobs)
        BY DEF TypeOK
      <4> QED BY <4>1
    <3> QED BY <2>1, <2>2, <3>1, <3>2 DEF Round
  <2> QED BY <1>1, <1>2, <2>1, <2>3
<1>6. CASE StartRound
  <2>1. /\ UNCHANGED requests
        /\ \/ UNCHANGED batch
           \/ /\ batch' \in Seq(Jobs) /\ Len(batch') \in Nat /\ Shared(Len(batch'))
              /\ \E f : TakenFrom(f, Len(batch'))
    BY <1>6, StartRoundEffect DEF Budgets, WithinBudgets
  <2>2. CASE UNCHANGED batch
    BY <1>3, <2>1, <2>2
  <2>3. ASSUME NEW n \in Nat, n = Len(batch'), batch' \in Seq(Jobs), Shared(n),
               NEW f, TakenFrom(f, n)
        PROVE  Verdicts'
    <3>1. DOMAIN batch' = 1..n
      BY <2>3
    <3>2. \A k \in DOMAIN batch' :
               f[k] \in DOMAIN batch /\ batch'[k].url = batch[f[k]].url
                 /\ batch[f[k]].state = "allowed" /\ batch'[k].state = "waiting"
      BY <2>3, <3>1 DEF TakenFrom, Shared
    <3> QED BY <1>3, <2>1, <3>2
  <2> QED BY <2>1, <2>2, <2>3
<1>7. ASSUME NEW i, CheckRobots(i) PROVE Verdicts'
  <2> DEFINE policy == IF mode.robots = "ignore" THEN "open" ELSE robots'[OriginOf[batch[i].url]]
  <2>1. /\ i \in DOMAIN batch /\ UNCHANGED requests
        /\ OriginOf[batch[i].url] \in Origins
        /\ \/ /\ UNCHANGED robots
              /\ mode.robots = "ignore" \/ robots[OriginOf[batch[i].url]] # "unknown"
           \/ \E p \in {"unavailable", "open", "rules"} :
                robots' = [robots EXCEPT ![OriginOf[batch[i].url]] = p]
        /\ \/ Allows(policy, batch[i].url) /\ Reaches(i, "allowed")
           \/ ~ Allows(policy, batch[i].url) /\ Reaches(i, "refused")
    BY <1>7, CheckRobotsEffect DEF CheckRobots, output
  <2>2. PICK u \in Urls : u = batch[i].url /\ u \in InScope
    BY <1>0, <2>1
  <2>3. mode.robots = "ignore" \/ (mode.robots = "respect"
                                   /\ robots'[OriginOf[u]] \in {"unavailable", "open", "rules"})
    <3>1. mode.robots \in {"respect", "ignore"}
      BY Site DEF TypeOK
    <3>2. robots[OriginOf[u]] \in {"unknown", "unavailable", "open", "rules"}
      BY <2>1, <2>2 DEF TypeOK
    <3> QED BY <2>1, <2>2, <3>1, <3>2, RobotsType
  <2>4. UNCHANGED mode
    BY DEF Next
  <2>5. /\ Allows(policy, u) => Welcome(u)'
        /\ ~ Allows(policy, u) => Refused(u)'
    BY <2>2, <2>3, <2>4 DEF Allows, Welcome, Refused
  <2> HIDE DEF policy
  <2>6. /\ batch'[i].state \in {"allowed", "refused"} /\ batch'[i].url = u
        /\ batch'[i].state = "allowed" => Welcome(u)'
        /\ batch'[i].state = "refused" => Refused(u)'
    BY <2>1, <2>2, <2>5 DEF Reaches
  <2>7. /\ DOMAIN batch' = DOMAIN batch
        /\ \A k \in DOMAIN batch : k # i => /\ batch'[k].url = batch[k].url
                                            /\ batch'[k].state = batch[k].state
    BY <2>1 DEF Reaches
  <2>8. \A k \in DOMAIN batch' : \E v \in Urls :
               /\ v = batch'[k].url
               /\ batch'[k].state \notin {"candidate", "refused"} => Welcome(v)'
               /\ batch'[k].state = "refused" => Refused(v)'
    BY <1>0, <1>1, <2>6, <2>7
  <2> QED BY <1>1, <1>2, <2>1, <2>8
<1>8. ASSUME NEW i, StartFetch(i) PROVE Verdicts'
  <2>1. /\ i \in DOMAIN batch /\ batch[i].state = "waiting"
        /\ requests' = [requests EXCEPT ![batch[i].url] = @ + 1]
    BY <1>8 DEF StartFetch
  <2>2. PICK u \in Urls : u = batch[i].url
    BY <1>0, <2>1
  <2>3. Welcome(u)'
    BY <1>1, <2>1, <2>2
  <2>4. \A v \in Urls : requests'[v] > 0 => Welcome(v)'
    BY <1>0, <1>1, <2>1, <2>2, <2>3
  <2>5. Reaches(i, "running")
    BY <1>8, FetchSteps
  <2>6. /\ DOMAIN batch' = DOMAIN batch /\ batch'[i].state = "running" /\ batch'[i].url = u
        /\ \A k \in DOMAIN batch : k # i => /\ batch'[k].url = batch[k].url
                                            /\ batch'[k].state = batch[k].state
    BY <2>1, <2>2, <2>5 DEF Reaches
  <2>7. \A k \in DOMAIN batch' : \E v \in Urls :
               /\ v = batch'[k].url
               /\ batch'[k].state \notin {"candidate", "refused"} => Welcome(v)'
               /\ batch'[k].state = "refused" => Refused(v)'
    BY <1>0, <1>1, <2>3, <2>6
  <2> QED BY <1>2, <2>4, <2>7
<1>9. ASSUME NEW i, FinishFetch(i) \/ ThrowFetch(i) PROVE Verdicts'
  <2>1. UNCHANGED requests /\ batch[i].state \in {"waiting", "running"}
    BY <1>9 DEF FinishFetch, ThrowFetch, output
  <2>2. PICK s \in {"fetched", "threw"} : Reaches(i, s)
    BY <1>9, FetchSteps
  <2>3. /\ i \in DOMAIN batch /\ DOMAIN batch' = DOMAIN batch /\ batch'[i].state = s
        /\ \A k \in DOMAIN batch : /\ batch'[k].url = batch[k].url
                                   /\ k # i => batch'[k].state = batch[k].state
    BY <2>2 DEF Reaches
  <2>4. \A k \in DOMAIN batch' :
               /\ batch'[k].url = batch[k].url
               /\ \/ batch'[k].state = batch[k].state
                  \/ /\ batch[k].state \notin {"candidate", "refused"}
                     /\ batch'[k].state # "refused"
    BY <2>1, <2>3
  <2> QED BY <1>3, <2>1, <2>3, <2>4
<1>10. CASE PageFailed \/ TakePage
  <2>1. /\ phase = "outcomes" /\ UNCHANGED requests /\ batch' = Tail(batch)
        /\ phase' = IF Len(batch) = 1 THEN "collect" ELSE phase
    BY <1>10 DEF PageFailed, TakePage, output
  <2>2. \A k \in DOMAIN batch' : k + 1 \in DOMAIN batch /\ batch'[k] = batch[k + 1]
    BY <2>1, JobLeaves
  <2> QED BY <1>3, <2>1, <2>2
<1> QED
  BY <1>4, <1>5, <1>6, <1>7, <1>8, <1>9, <1>10 DEF Next, Quiet

-----------------------------------------------------------------------------
(* Breadth first.                                                           *)

LEMMA Depths ==
    ASSUME TypeOK
    PROVE  /\ MaxDepth \in Nat
           /\ \A i \in DOMAIN queue : queue[i].depth \in Nat
           /\ \A i \in DOMAIN level : level[i].depth \in Nat
           /\ \A i \in DOMAIN additions : additions[i].depth \in Nat
           /\ \A i \in DOMAIN batch : batch[i].depth \in Nat
           /\ \A i \in DOMAIN documents : documents[i].depth \in Nat
<1>1. MaxDepth \in Nat
  BY Bounds
<1>2. \A item \in Items : item.depth \in Nat
  BY <1>1 DEF Items
<1>3. \A job \in Jobs : job.depth \in Nat
  BY <1>1 DEF Jobs
<1>4. \A d \in Docs : d.depth \in Nat
  BY <1>1 DEF Docs
<1>5. /\ queue \in Seq(Items) /\ level \in Seq(Items) /\ additions \in Seq(Items)
      /\ batch \in Seq(Jobs) /\ documents \in Seq(Docs)
  BY DEF TypeOK, Docs
<1> QED
  BY <1>1, <1>2, <1>3, <1>4, <1>5

LEMMA StopIsPartial == ASSUME Reasoned, NEW reason, Stop(reason) PROVE partial'
  BY DEF Reasoned, Stop, signals

\* A step that leaves what is waiting, and the pages of the round, as they are.
LEMMA FrontierKept ==
    ASSUME TypeOK, Round, UNCHANGED mode, NEW d \in Nat, Layered(d), Linked(d),
           UNCHANGED <<documents, queued, queue, level, additions>>, seen \subseteq seen',
           \A k \in DOMAIN batch' : \E i \in DOMAIN batch :
             batch'[k].url = batch[i].url /\ batch'[k].depth = batch[i].depth,
           \/ phase \in Working /\ phase' \in Working
           \/ phase \in Working \cup {"level"} /\ phase' \in After /\ (partial' \/ aborted' # {})
           \/ phase = "level" /\ phase' \in After
           \/ /\ phase \in After /\ phase' \in After
              /\ (partial \/ aborted # {}) => (partial' \/ aborted' # {})
    PROVE  Frontier'
<1> USE DEF Working, After, Before
<1>1. Layered(d)'
  <2>1. phase' \in Working => \A k \in DOMAIN batch' : batch'[k].depth = d
    BY DEF Layered
  <2>2. phase' \in After => /\ \A i \in DOMAIN queue : queue[i].depth >= d
                            /\ \A i \in DOMAIN level : level[i].depth >= d
    <3>1. CASE phase \in After
      BY <3>1 DEF Layered
    <3>2. CASE phase = "level"
      <4>1. level = <<>>
        BY <3>2 DEF Round
      <4> QED BY <3>2, <4>1 DEF Layered
    <3>3. CASE phase \in Working
      <4>1. queue = <<>> /\ \A i \in DOMAIN level : level[i].depth = d
        BY <3>3 DEF Layered
      <4> QED BY <4>1
    <3> QED BY <3>1, <3>2, <3>3
  <2>3. /\ \A i \in DOMAIN documents : documents[i].depth <= d
        /\ \A i, j \in DOMAIN documents : i < j => documents[i].depth <= documents[j].depth
    BY DEF Layered
  <2>4. phase' \in Working => /\ queue = <<>> /\ \A i \in DOMAIN level : level[i].depth = d
                              /\ \A i \in DOMAIN additions : additions[i].depth = d + 1
    BY DEF Layered
  <2>5. phase' \in Working \cup After
    OBVIOUS
  <2> QED BY <2>1, <2>2, <2>3, <2>4, <2>5 DEF Layered
<1>2. Linked(d)'
  <2> SUFFICES ASSUME NEW i \in DOMAIN documents', Expanded(documents[i])',
                      NEW u \in ToSet(Links[documents'[i].final]) \cap InScope
               PROVE  /\ Known(i, u, d)'
                      /\ NoDeeper(documents', u, documents'[i].depth + 1)
                      /\ phase' \notin After =>
                           /\ NoDeeper(queue', u, documents'[i].depth + 1)
                           /\ NoDeeper(level', u, documents'[i].depth + 1)
                           /\ NoDeeper(batch', u, documents'[i].depth + 1)
    BY DEF Linked
  <2>1. Expanded(documents[i]) /\ i \in DOMAIN documents
        /\ u \in ToSet(Links[documents[i].final]) \cap InScope
    BY DEF Expanded
  <2>2. /\ Known(i, u, d)
        /\ NoDeeper(documents, u, documents[i].depth + 1)
        /\ phase \notin After =>
             /\ NoDeeper(queue, u, documents[i].depth + 1)
             /\ NoDeeper(level, u, documents[i].depth + 1)
             /\ NoDeeper(batch, u, documents[i].depth + 1)
    BY <2>1 DEF Linked
  <2>3. Known(i, u, d)'
    BY <2>2 DEF Known
  <2>4. phase' \notin After => NoDeeper(batch', u, documents'[i].depth + 1)
    BY <2>2 DEF NoDeeper
  <2> QED BY <2>2, <2>3, <2>4
<1> QED
  BY <1>1, <1>2 DEF Frontier

\* Before the first page nothing is deeper than the root.
LEMMA FrontierStarts ==
    ASSUME documents' = <<>>, phase' \in Before \cup {"level"},
           phase' = "level" => \A i \in DOMAIN queue' : queue'[i].depth = 0
    PROVE  Frontier'
<1>1. DOMAIN documents' = {}
  OBVIOUS
<1>2. Layered(0)'
  BY <1>1 DEF Layered, Before, Working, After
<1>3. Linked(0)'
  BY <1>1 DEF Linked
<1> QED
  BY <1>2, <1>3 DEF Frontier

LEMMA NextLevelFrontier ==
    ASSUME TypeOK, Round, UNCHANGED mode, NextLevel, Frontier
    PROVE  Frontier'
<1> USE DEF Working, After, Before
<1>1. PICK d \in Nat : Layered(d) /\ Linked(d)
  BY DEF Frontier
<1>2. phase = "level" /\ batch = <<>> /\ \A i \in DOMAIN queue : queue[i].depth = d
  BY <1>1, NextLevelEffect DEF Layered, Round
<1>3. /\ level' = queue /\ queue' = <<>> /\ additions' = <<>> /\ phase' = "collect"
      /\ UNCHANGED <<batch, seen, queued, documents>>
  BY <1>2, NextLevelEffect
<1>4. Layered(d)'
  BY <1>1, <1>2, <1>3 DEF Layered
<1>5. Linked(d)'
  <2> SUFFICES ASSUME NEW i \in DOMAIN documents', Expanded(documents[i])',
                      NEW u \in ToSet(Links[documents'[i].final]) \cap InScope
               PROVE  /\ Known(i, u, d)'
                      /\ NoDeeper(documents', u, documents'[i].depth + 1)
                      /\ phase' \notin After =>
                           /\ NoDeeper(queue', u, documents'[i].depth + 1)
                           /\ NoDeeper(level', u, documents'[i].depth + 1)
                           /\ NoDeeper(batch', u, documents'[i].depth + 1)
    BY DEF Linked
  <2>1. Expanded(documents[i]) /\ i \in DOMAIN documents
        /\ u \in ToSet(Links[documents[i].final]) \cap InScope
    BY <1>3 DEF Expanded
  <2>2. /\ Known(i, u, d)
        /\ NoDeeper(documents, u, documents[i].depth + 1)
        /\ NoDeeper(queue, u, documents[i].depth + 1)
        /\ NoDeeper(batch, u, documents[i].depth + 1)
    BY <1>1, <1>2, <2>1 DEF Linked
  <2>3. Known(i, u, d)'
    BY <1>2, <1>3, <2>2 DEF Known
  <2>4. NoDeeper(queue', u, documents'[i].depth + 1)
    BY <1>3 DEF NoDeeper
  <2> QED BY <1>3, <2>2, <2>3, <2>4
<1> QED
  BY <1>4, <1>5 DEF Frontier

\* A candidate keeps the depth it was found at.
LEMMA TakeCandidateFrontier ==
    ASSUME TypeOK, Round, UNCHANGED mode, TakeCandidate, Frontier
    PROVE  Frontier'
<1> USE DEF Working, After, Before
<1>1. PICK d \in Nat : Layered(d) /\ Linked(d)
  BY DEF Frontier
<1>2. /\ phase = "collect" /\ UNCHANGED <<phase, queue, additions, queued, documents>>
      /\ level # <<>> /\ 1 \in DOMAIN level /\ level' = Tail(level) /\ level[1] = Head(level)
      /\ seen \subseteq seen'
      /\ \/ UNCHANGED batch
         \/ \E job \in Jobs : /\ batch' = Append(batch, job)
                              /\ job.url = level[1].url /\ job.depth = level[1].depth
  BY TakeCandidateEffect
<1>3. \A i \in DOMAIN level' : \E k \in DOMAIN level : level'[i] = level[k]
  <2>1. level \in Seq(Items)
    BY DEF TypeOK
  <2>2. \A i \in DOMAIN Tail(level) : i + 1 \in DOMAIN level /\ Tail(level)[i] = level[i + 1]
    BY <1>2, <2>1, TailElements
  <2> QED BY <1>2, <2>2
<1>4. \A k \in DOMAIN batch' :
        \/ \E i \in DOMAIN batch : batch'[k].url = batch[i].url /\ batch'[k].depth = batch[i].depth
        \/ batch'[k].url = level[1].url /\ batch'[k].depth = level[1].depth
  <2>1. batch \in Seq(Jobs)
    BY DEF TypeOK
  <2>2. ASSUME NEW job \in Jobs, batch' = Append(batch, job),
               job.url = level[1].url, job.depth = level[1].depth
        PROVE  \A k \in DOMAIN batch' :
                 \/ \E i \in DOMAIN batch : batch'[k].url = batch[i].url /\ batch'[k].depth = batch[i].depth
                 \/ batch'[k].url = level[1].url /\ batch'[k].depth = level[1].depth
    <3> DEFINE n == Len(batch) + 1
    <3>1. /\ batch'[n] = job
          /\ \A i \in DOMAIN batch : batch'[i] = batch[i]
          /\ \A i \in DOMAIN batch' : i \in DOMAIN batch \/ i = n
      BY <2>1, <2>2, AppendElements
    <3> HIDE DEF n
    <3> QED BY <2>2, <3>1
  <2>3. CASE UNCHANGED batch
    BY <2>3
  <2> QED BY <1>2, <2>2, <2>3
<1>5. Layered(d)'
  <2>1. /\ \A i \in DOMAIN level' : level'[i].depth = d
        /\ \A i \in DOMAIN batch' : batch'[i].depth = d
    BY <1>1, <1>2, <1>3, <1>4 DEF Layered
  <2> QED BY <1>1, <1>2, <2>1 DEF Layered
<1>6. Linked(d)'
  <2> SUFFICES ASSUME NEW i \in DOMAIN documents', Expanded(documents[i])',
                      NEW u \in ToSet(Links[documents'[i].final]) \cap InScope
               PROVE  /\ Known(i, u, d)'
                      /\ NoDeeper(documents', u, documents'[i].depth + 1)
                      /\ phase' \notin After =>
                           /\ NoDeeper(queue', u, documents'[i].depth + 1)
                           /\ NoDeeper(level', u, documents'[i].depth + 1)
                           /\ NoDeeper(batch', u, documents'[i].depth + 1)
    BY DEF Linked
  <2>1. Expanded(documents[i]) /\ i \in DOMAIN documents
        /\ u \in ToSet(Links[documents[i].final]) \cap InScope
    BY <1>2 DEF Expanded
  <2>2. /\ Known(i, u, d)
        /\ NoDeeper(documents, u, documents[i].depth + 1)
        /\ NoDeeper(queue, u, documents[i].depth + 1)
        /\ NoDeeper(level, u, documents[i].depth + 1)
        /\ NoDeeper(batch, u, documents[i].depth + 1)
    BY <1>1, <1>2, <2>1 DEF Linked
  <2>3. Known(i, u, d)'
    BY <1>2, <2>2 DEF Known
  <2>4. NoDeeper(level', u, documents'[i].depth + 1)
    BY <1>2, <1>3, <2>2 DEF NoDeeper
  <2>5. NoDeeper(batch', u, documents'[i].depth + 1)
    BY <1>2, <1>4, <2>2 DEF NoDeeper
  <2> QED BY <1>2, <2>2, <2>3, <2>4, <2>5
<1> QED
  BY <1>5, <1>6 DEF Frontier

\* A document's links wait for the next level.
LEMMA TakePageFrontier ==
    ASSUME TypeOK, Round, UNCHANGED mode, TakePage, Frontier
    PROVE  Frontier'
<1> USE DEF Working, After, Before
<1>1. PICK d \in Nat : Layered(d) /\ Linked(d)
  BY DEF Frontier
<1>2. PICK found \in Seq(Items) :
        /\ additions' = additions \o found
        /\ \A i \in DOMAIN found : found[i].depth = batch[1].depth + 1
        /\ MayExpand(batch[1].depth) =>
             \A u \in ToSet(Links[Outcome.final]) :
               u \in InScope \ Recognized => u \in UrlsOf(found)
  BY TakePageEffect
<1>3. /\ phase = "outcomes" /\ batch' = Tail(batch) /\ seen' = Recognized
      /\ phase' = IF Len(batch) = 1 THEN "collect" ELSE phase
      /\ UNCHANGED <<queue, level, queued>>
      /\ \/ UNCHANGED documents
         \/ /\ documents' = Append(documents, PageOf(batch[1]))
            /\ PageOf(batch[1]) \in Docs
  BY TakePageEffect
<1>4. /\ queue = <<>> /\ (\A i \in DOMAIN level : level[i].depth = d)
      /\ (\A i \in DOMAIN batch : batch[i].depth = d)
      /\ (\A i \in DOMAIN additions : additions[i].depth = d + 1)
      /\ (\A i \in DOMAIN documents : documents[i].depth <= d)
      /\ (\A i, j \in DOMAIN documents : i < j => documents[i].depth <= documents[j].depth)
      /\ 1 \in DOMAIN batch /\ batch[1].depth = d /\ seen \subseteq seen'
  BY <1>1, <1>3, OutcomeType, RecognizedType DEF Layered
<1>5. /\ phase' \in {"collect", "outcomes"}
      /\ \A k \in DOMAIN batch' : \E i \in DOMAIN batch : batch'[k] = batch[i]
  BY <1>3, JobLeaves
<1>6. /\ \A i \in DOMAIN additions' : additions'[i].depth = d + 1
      /\ UrlsOf(additions) \subseteq UrlsOf(additions')
      /\ UrlsOf(found) \subseteq UrlsOf(additions')
  <2>1. additions \in Seq(Items)
    BY DEF TypeOK
  <2>2. /\ \A i \in DOMAIN additions : i \in DOMAIN additions' /\ additions'[i] = additions[i]
        /\ \A i \in DOMAIN found : /\ Len(additions) + i \in DOMAIN additions'
                                   /\ additions'[Len(additions) + i] = found[i]
        /\ \A i \in DOMAIN additions' :
             \/ i \in DOMAIN additions
             \/ i - Len(additions) \in DOMAIN found /\ additions'[i] = found[i - Len(additions)]
    BY <1>2, <2>1, ConcatElements
  <2>3. \A i \in DOMAIN additions' : additions'[i].depth = d + 1
    BY <1>2, <1>4, <2>2
  <2>4. UrlsOf(additions) \subseteq UrlsOf(additions')
    BY <2>2 DEF UrlsOf
  <2>5. UrlsOf(found) \subseteq UrlsOf(additions')
    BY <2>2 DEF UrlsOf
  <2> QED BY <2>3, <2>4, <2>5
\* An earlier document, or the new one at the end.
<1>7. \A i \in DOMAIN documents' :
        \/ i \in DOMAIN documents /\ documents'[i] = documents[i] /\ i < Len(documents) + 1
        \/ i = Len(documents) + 1 /\ documents'[i] = PageOf(batch[1])
  <2>1. documents \in Seq(Docs)
    BY DEF TypeOK, Docs
  <2>2. CASE UNCHANGED documents
    BY <2>1, <2>2
  <2>3. CASE /\ documents' = Append(documents, PageOf(batch[1]))
             /\ PageOf(batch[1]) \in Docs
    <3>1. /\ documents'[Len(documents) + 1] = PageOf(batch[1])
          /\ \A i \in DOMAIN documents : documents'[i] = documents[i] /\ i \in 1..Len(documents)
          /\ \A i \in DOMAIN documents' : i \in DOMAIN documents \/ i = Len(documents) + 1
          /\ Len(documents) \in Nat
      BY <2>1, <2>3, AppendElements
    <3> QED BY <3>1
  <2> QED BY <1>3, <2>2, <2>3
<1>8. /\ PageOf(batch[1]).depth = d /\ PageOf(batch[1]).url = batch[1].url
      /\ PageOf(batch[1]).final = Outcome.final
  BY <1>4 DEF PageOf
<1>9. Layered(d)'
  <2>1. \A i \in DOMAIN documents' : documents'[i].depth <= d
    BY <1>4, <1>7, <1>8
  <2>2. \A i, j \in DOMAIN documents' : i < j => documents'[i].depth <= documents'[j].depth
    <3> SUFFICES ASSUME NEW i \in DOMAIN documents', NEW j \in DOMAIN documents', i < j
                 PROVE  documents'[i].depth <= documents'[j].depth
      OBVIOUS
    <3>0. Len(documents) + 1 \in Nat /\ documents \in Seq(Docs)
      BY DEF TypeOK, Docs
    <3>1. i \in DOMAIN documents /\ documents'[i] = documents[i]
      BY <1>7, <3>0
    <3> QED BY <1>4, <1>7, <1>8, <3>1
  <2>3. \A k \in DOMAIN batch' : batch'[k].depth = d
    BY <1>4, <1>5
  <2> QED BY <1>3, <1>4, <1>5, <1>6, <2>1, <2>2, <2>3 DEF Layered
<1>10. Linked(d)'
  <2> SUFFICES ASSUME NEW i \in DOMAIN documents', Expanded(documents[i])',
                      NEW u \in ToSet(Links[documents'[i].final]) \cap InScope
               PROVE  /\ Known(i, u, d)'
                      /\ NoDeeper(documents', u, documents'[i].depth + 1)
                      /\ NoDeeper(queue', u, documents'[i].depth + 1)
                      /\ NoDeeper(level', u, documents'[i].depth + 1)
                      /\ NoDeeper(batch', u, documents'[i].depth + 1)
    BY DEF Linked
  <2>1. CASE i \in DOMAIN documents /\ documents'[i] = documents[i]
    <3>1. Expanded(documents[i]) /\ u \in ToSet(Links[documents[i].final]) \cap InScope
      BY <2>1 DEF Expanded
    <3>2. /\ Known(i, u, d)
          /\ NoDeeper(documents, u, documents[i].depth + 1)
          /\ NoDeeper(queue, u, documents[i].depth + 1)
          /\ NoDeeper(level, u, documents[i].depth + 1)
          /\ NoDeeper(batch, u, documents[i].depth + 1)
      BY <1>1, <1>3, <2>1, <3>1 DEF Linked
    <3>3. Known(i, u, d)'
      BY <1>3, <1>4, <1>5, <1>6, <2>1, <3>2 DEF Known
    <3>4. NoDeeper(documents', u, documents'[i].depth + 1)
      BY <1>4, <1>7, <1>8, <2>1, <3>2 DEF NoDeeper
    <3>5. NoDeeper(batch', u, documents'[i].depth + 1)
      BY <1>5, <2>1, <3>2 DEF NoDeeper
    <3> QED BY <1>3, <2>1, <3>2, <3>3, <3>4, <3>5
  <2>2. CASE documents'[i] = PageOf(batch[1])
    <3>1. MayExpand(batch[1].depth) /\ u \in ToSet(Links[Outcome.final]) /\ u \in InScope
      BY <1>4, <1>8, <2>2 DEF MayExpand, Expanded
    <3>2. u \in seen' \/ u \in UrlsOf(additions')
      BY <1>2, <1>3, <1>6, <3>1
    <3>3. Known(i, u, d)'
      BY <1>5, <1>8, <2>2, <3>2 DEF Known
    <3>4. /\ NoDeeper(documents', u, d + 1) /\ NoDeeper(queue', u, d + 1)
          /\ NoDeeper(level', u, d + 1) /\ NoDeeper(batch', u, d + 1)
      <4>1. \A k \in DOMAIN documents' : documents'[k].depth \in Nat /\ documents'[k].depth <= d
        BY <1>4, <1>7, <1>8, Depths
      <4>2. \A k \in DOMAIN documents' : documents'[k].depth <= d + 1
        BY <4>1
      <4> QED BY <1>3, <1>4, <1>5, <4>2 DEF NoDeeper
    <3> QED BY <1>8, <2>2, <3>3, <3>4
  <2> QED BY <1>7, <2>1, <2>2
<1> QED
  BY <1>9, <1>10 DEF Frontier

\* What the level discovered is one level deeper, and so is the crawl.
LEMMA LevelDoneFrontier ==
    ASSUME TypeOK, Round, UNCHANGED mode, LevelDone, Frontier
    PROVE  Frontier'
<1> USE DEF Working, After, Before
<1>1. PICK d \in Nat : Layered(d) /\ Linked(d)
  BY DEF Frontier
<1>2. /\ phase = "collect" /\ batch = <<>> /\ (level = <<>> \/ visited >= Limit)
      /\ queue' = queue \o New
      /\ queued' = queued \cup UrlsOf(New)
      /\ \/ visited >= Limit /\ partial' = TRUE /\ phase' = "ending"
         \/ ~ (visited >= Limit /\ (level # <<>> \/ queue' # <<>>)) /\ phase' = "level"
      /\ UNCHANGED <<level, additions, seen, batch, documents>>
  BY LevelDoneEffect
<1>3. /\ queue = <<>> /\ (\A i \in DOMAIN level : level[i].depth = d)
      /\ (\A i \in DOMAIN additions : additions[i].depth = d + 1)
      /\ (\A i \in DOMAIN documents : documents[i].depth <= d)
      /\ (\A i, j \in DOMAIN documents : i < j => documents[i].depth <= documents[j].depth)
  BY <1>1, <1>2 DEF Layered
<1>4. /\ New \in Seq(Items)
      /\ \A k \in DOMAIN New : New[k].url \notin queued \cup seen /\ New[k].depth = d + 1
      /\ UrlsOf(additions) \subseteq queued \cup seen \cup UrlsOf(New)
  BY <1>3, NewElements
<1>5. queue' = New
  BY <1>2, <1>3, <1>4
<1>6. \A i \in DOMAIN documents : documents[i].depth \in Nat
  BY Depths
\* What a document links to is queued now, if it was not known.
<1>7. ASSUME NEW i \in DOMAIN documents, Expanded(documents[i]),
             NEW u \in ToSet(Links[documents[i].final]) \cap InScope
      PROVE  /\ u \in queued' \cup seen'
             /\ NoDeeper(documents', u, documents[i].depth + 1)
             /\ NoDeeper(queue', u, documents[i].depth + 1)
             /\ NoDeeper(batch', u, documents[i].depth + 1)
  <2>1. Known(i, u, d) /\ NoDeeper(documents, u, documents[i].depth + 1)
        /\ NoDeeper(batch, u, documents[i].depth + 1)
    BY <1>1, <1>2, <1>7 DEF Linked
  <2>2. u \in queued' \cup seen'
    BY <1>2, <1>4, <2>1 DEF Known
  <2>3. NoDeeper(queue', u, documents[i].depth + 1)
    <3> SUFFICES ASSUME NEW k \in DOMAIN New, New[k].url = u
                 PROVE  New[k].depth <= documents[i].depth + 1
      BY <1>5 DEF NoDeeper
    <3>1. documents[i].depth = d
      BY <1>4, <2>1 DEF Known
    <3> QED BY <1>4, <3>1
  <2> QED BY <1>2, <2>1, <2>2, <2>3
<1>8. CASE phase' = "ending" /\ partial' = TRUE
  <2>1. Layered(d)'
    BY <1>2, <1>3, <1>4, <1>5, <1>8 DEF Layered
  <2>2. Linked(d)'
    BY <1>2, <1>7, <1>8 DEF Linked, Known, Expanded
  <2> QED BY <2>1, <2>2 DEF Frontier
<1>9. CASE phase' = "level" /\ level = <<>>
  <2>1. \A i \in DOMAIN documents' : documents'[i].depth <= d + 1
    BY <1>2, <1>3, <1>6
  <2>2. Layered(d + 1)'
    BY <1>2, <1>3, <1>4, <1>5, <1>9, <2>1 DEF Layered
  <2>3. \A u, n : NoDeeper(level', u, n)
    BY <1>2, <1>9 DEF NoDeeper
  <2>4. Linked(d + 1)'
    BY <1>2, <1>7, <1>9, <2>3 DEF Linked, Known, Expanded
  <2>5. d + 1 \in Nat
    OBVIOUS
  <2>6. PICK e \in Nat : e = d + 1
    BY <2>5
  <2> QED BY <2>2, <2>4, <2>6 DEF Frontier
<1> QED
  BY <1>2, <1>8, <1>9

LEMMA FrontierStep ==
    ASSUME TypeOK, Early, Reasoned, Round, Budgets, Frontier, Next
    PROVE  Frontier'
<1> USE DEF Working, After, Before
<1>0. UNCHANGED mode
  BY DEF Next
<1>1. PICK d \in Nat : Layered(d) /\ Linked(d)
  BY DEF Frontier
\* A step of a round, or into the end.
<1>2. ASSUME UNCHANGED <<documents, queued, queue, level, additions>>, seen \subseteq seen',
             \A k \in DOMAIN batch' : \E i \in DOMAIN batch :
               batch'[k].url = batch[i].url /\ batch'[k].depth = batch[i].depth,
             \/ phase \in Working /\ phase' \in Working
             \/ phase \in Working \cup {"level"} /\ phase' \in After
                  /\ (partial' \/ aborted' # {})
             \/ phase = "level" /\ phase' \in After
             \/ /\ phase \in After /\ phase' \in After
                /\ (partial \/ aborted # {}) => (partial' \/ aborted' # {})
      PROVE  Frontier'
  BY <1>0, <1>1, <1>2, FrontierKept
<1>3. CASE \E source \in {"cancelled", "timeout"} : Abort(source)
  <2>1. /\ phase \in Awaiting /\ UNCHANGED <<phase, documents, queued, queue, level, additions,
                                             seen, batch>>
    BY <1>3 DEF Abort, frontier, output
  <2>2. CASE phase \in Before
    BY <2>1, <2>2, FrontierStarts DEF Early
  <2>3. CASE phase \notin Before
    BY <1>2, <2>1, <2>3 DEF Awaiting
  <2> QED BY <2>2, <2>3
<1>4. CASE ReadRootRobots \/ SkipSitemap \/ FetchSitemap
  <2>1. phase \in Before /\ phase' = "sitemap" /\ UNCHANGED documents
    BY <1>4 DEF ReadRootRobots, SkipSitemap, FetchSitemap, output
  <2> QED BY <2>1, FrontierStarts DEF Early
<1>5. CASE SitemapsDone
  <2>1. phase = "sitemap" /\ phase' = "level" /\ UNCHANGED documents /\ queue' = Distinct(queue)
    BY <1>5 DEF SitemapsDone, output
  <2>2. queue \in Seq(Items) /\ \A i \in DOMAIN queue : queue[i].depth = 0
    BY <2>1 DEF Early, TypeOK
  <2>3. \A i \in DOMAIN queue' : queue'[i].depth = 0
    BY <2>1, <2>2, DistinctElements
  <2> QED BY <2>1, <2>3, FrontierStarts DEF Early
<1>6. CASE LeaveLevels \/ CandidatesTaken \/ AbortEligible \/ RoundDone \/ DropRound
  <2>1. /\ UNCHANGED <<documents, queued, queue, level, additions, seen, batch>>
        /\ \/ phase = "level" /\ phase' = "ending"
           \/ phase \in {"collect", "fetch"} /\ phase' \in Working
           \/ phase \in {"eligible", "outcomes"} /\ phase' = "ending" /\ aborted' # {}
    BY <1>6 DEF LeaveLevels, CandidatesTaken, AbortEligible, RoundDone, DropRound, frontier,
                output, signals
  <2> QED BY <1>2, <2>1
<1>7. CASE StartRound
  <2>1. /\ UNCHANGED <<documents, queued, queue, level, additions, seen>> /\ phase = "eligible"
        /\ \/ Stop("maxBytes") /\ phase' = "ending" /\ UNCHANGED batch
           \/ /\ phase' = "fetch" /\ batch' \in Seq(Jobs) /\ Len(batch') \in Nat
              /\ \E f : TakenFrom(f, Len(batch'))
    BY <1>7, StartRoundEffect DEF Budgets, WithinBudgets
  <2>2. CASE Stop("maxBytes") /\ phase' = "ending" /\ UNCHANGED batch
    BY <1>2, <2>1, <2>2, StopIsPartial
  <2>3. ASSUME NEW n \in Nat, n = Len(batch'), batch' \in Seq(Jobs), NEW f, TakenFrom(f, n)
        PROVE  \A k \in DOMAIN batch' : \E i \in DOMAIN batch :
                 batch'[k].url = batch[i].url /\ batch'[k].depth = batch[i].depth
    <3>1. DOMAIN batch' = 1..n
      BY <2>3
    <3> QED BY <2>3, <3>1 DEF TakenFrom
  <2> QED BY <1>2, <2>1, <2>2, <2>3
<1>8. ASSUME NEW i, Fetching(i) PROVE Frontier'
  <2>1. /\ UNCHANGED <<documents, queued, queue, level, additions, seen>>
        /\ phase \in Working /\ UNCHANGED phase
    BY <1>8 DEF Fetching, CheckRobots, StartFetch, FinishFetch, ThrowFetch, frontier, output
  <2>2. \E s : Reaches(i, s)
    BY <1>8, CheckRobotsEffect, FetchSteps DEF Fetching
  <2> QED BY <1>2, <2>1, <2>2 DEF Reaches
<1>9. CASE PageExceedsBudget \/ ReadableExceedsBudget
  <2>1. /\ UNCHANGED <<documents, queued, queue, level, additions, batch>>
        /\ phase = "outcomes" /\ phase' = "ending" /\ \E reason : Stop(reason)
    BY <1>9 DEF PageExceedsBudget, ReadableExceedsBudget, frontier, output
  <2>2. seen \subseteq seen'
    BY <1>9, QuietSteps DEF Quiet
  <2> QED BY <1>2, <2>1, <2>2, StopIsPartial
<1>10. CASE PageFailed
  <2>1. /\ UNCHANGED <<documents, queued, queue, level, additions, seen>>
        /\ phase = "outcomes" /\ batch' = Tail(batch)
        /\ phase' = IF Len(batch) = 1 THEN "collect" ELSE phase
    BY <1>10 DEF PageFailed, frontier, output
  <2>2. /\ phase' \in Working
        /\ \A k \in DOMAIN batch' : k + 1 \in DOMAIN batch /\ batch'[k] = batch[k + 1]
    BY <2>1, JobLeaves
  <2> QED BY <1>2, <2>1, <2>2
<1>11. CASE End
  <2>1. /\ UNCHANGED <<documents, queued, queue, level, additions, seen, batch, aborted>>
        /\ phase = "ending" /\ phase' = "done"
        /\ partial' = TRUE \/ UNCHANGED partial
    BY <1>11 DEF End, frontier, output
  <2> QED BY <1>2, <2>1
<1> QED
  BY <1>0, <1>3, <1>4, <1>5, <1>6, <1>7, <1>8, <1>9, <1>10, <1>11,
     NextLevelFrontier, TakeCandidateFrontier, TakePageFrontier, LevelDoneFrontier
     DEF Next, Fetching

-----------------------------------------------------------------------------
(* Nothing is forgotten.                                                    *)

\* What was requested, refused or fetched under another name stays so.
LEMMA SettledStays ==
    ASSUME TypeOK, Early, Round, Next, NEW u \in Urls, Settled(u)
    PROVE  Settled(u)'
<1>1. requests[u] > 0 => requests'[u] > 0
  <2>1. ASSUME NEW i, StartFetch(i), requests[u] > 0 PROVE requests'[u] > 0
    <3>1. i \in DOMAIN batch /\ requests' = [requests EXCEPT ![batch[i].url] = @ + 1]
      BY <2>1 DEF StartFetch
    <3>2. PICK v \in Urls : v = batch[i].url
      BY <3>1, JobSteps DEF Jobs
    <3>3. /\ requests'[v] = requests[v] + 1 /\ requests[v] \in Nat
          /\ \A w \in Urls : w # v => requests'[w] = requests[w]
      BY <3>1, <3>2, RequestsType
    <3>4. CASE u = v
      BY <3>3, <3>4
    <3>5. CASE u # v
      BY <2>1, <3>3, <3>5
    <3> QED BY <3>4, <3>5
  <2>2. CASE \A i : ~ StartFetch(i)
    <3>1. ASSUME NEW i, Fetching(i) PROVE UNCHANGED requests
      BY <2>2, <3>1 DEF Fetching, CheckRobots, FinishFetch, ThrowFetch, output
    <3>2. Quiet => UNCHANGED requests
      BY QuietSteps
    <3>3. TakeCandidate \/ StartRound \/ PageFailed \/ TakePage => UNCHANGED requests
      BY DEF TakeCandidate, StartRound, PageFailed, TakePage, output
    <3> QED BY <3>1, <3>2, <3>3 DEF Next, Quiet, Fetching
  <2> QED BY <2>1, <2>2
<1>2. represented \subseteq represented'
  <2>1. Quiet => represented \subseteq represented'
    BY DEF Quiet, Abort, ReadRootRobots, SkipSitemap, FetchSitemap, SitemapsDone, NextLevel,
           LeaveLevels, CandidatesTaken, AbortEligible, RoundDone, DropRound,
           PageExceedsBudget, ReadableExceedsBudget, LevelDone, End, frontier
  <2>2. ASSUME NEW i, Fetching(i) PROVE UNCHANGED represented
    BY <2>2 DEF Fetching, CheckRobots, StartFetch, FinishFetch, ThrowFetch, frontier
  <2>3. TakeCandidate \/ StartRound \/ PageFailed \/ TakePage => represented \subseteq represented'
    BY DEF TakeCandidate, StartRound, PageFailed, TakePage, frontier
  <2> QED BY <2>1, <2>2, <2>3 DEF Next, Quiet, Fetching
<1>3. Refused(u) => Refused(u)'
  BY VerdictsStay
<1> QED
  BY <1>1, <1>2, <1>3 DEF Settled

LEMMA QueuedStep ==
    ASSUME TypeOK, Early, Round, Budgets, Frontier, QueuedOnceSeen, Next
    PROVE  QueuedOnceSeen'
<1> USE DEF Before
<1>1. CASE SitemapsDone
  <2>1. queue' = Distinct(queue) /\ queued' = UrlsOf(queue) /\ queue \in Seq(Items)
    BY <1>1 DEF SitemapsDone, UrlsOf, TypeOK
  <2>2. UrlsOf(queue) \subseteq UrlsOf(queue')
    BY <2>1, DistinctElements DEF UrlsOf
  <2> QED BY <2>1, <2>2 DEF QueuedOnceSeen
<1>2. CASE NextLevel
  <2>1. phase = "level"
    BY <1>2, NextLevelEffect
  <2>2. \A i, j \in DOMAIN queue : queue[i].depth = queue[j].depth
    <3>1. PICK d \in Nat : Layered(d)
      BY DEF Frontier
    <3>2. \A i \in DOMAIN queue : queue[i].depth = d
      BY <2>1, <3>1 DEF Layered
    <3> QED BY <3>2
  <2>3. level' = queue /\ UNCHANGED <<queued, seen>>
    BY <1>2, <2>2, NextLevelEffect
  <2>4. UrlsOf(level) = {}
    BY <2>1 DEF Round, UrlsOf
  <2> QED BY <2>1, <2>3, <2>4 DEF QueuedOnceSeen, UrlsOf
<1>3. CASE TakeCandidate
  <2>1. /\ phase = "collect" /\ UNCHANGED <<phase, queue, queued>> /\ level # <<>>
        /\ level' = Tail(level) /\ level[1] = Head(level) /\ seen' = seen \cup {Head(level).url}
    BY <1>3, TakeCandidateEffect
  <2>2. level \in Seq(Items)
    BY DEF TypeOK
  <2>3. \A i \in DOMAIN level :
          i = 1 \/ (i - 1 \in DOMAIN level' /\ level'[i - 1] = level[i])
    BY <2>1, <2>2, TailElements
  <2>4. UrlsOf(level) \subseteq UrlsOf(level') \cup seen'
    BY <2>1, <2>3 DEF UrlsOf
  <2> QED BY <2>1, <2>4 DEF QueuedOnceSeen
<1>4. CASE LevelDone
  <2>1. /\ phase = "collect" /\ queue' = queue \o New /\ queued' = queued \cup UrlsOf(New)
        /\ UNCHANGED <<level, seen>>
    BY <1>4, LevelDoneEffect
  <2>2. queue \in Seq(Items) /\ New \in Seq(Items)
    BY NewElements DEF TypeOK
  <2>3. /\ \A i \in DOMAIN queue : i \in DOMAIN queue' /\ queue'[i] = queue[i]
        /\ \A i \in DOMAIN New : Len(queue) + i \in DOMAIN queue' /\ queue'[Len(queue) + i] = New[i]
    BY <2>1, <2>2, ConcatElements
  <2>4. UrlsOf(queue) \subseteq UrlsOf(queue')
    BY <2>3 DEF UrlsOf
  <2>5. UrlsOf(New) \subseteq UrlsOf(queue')
    BY <2>3 DEF UrlsOf
  <2> QED BY <2>1, <2>4, <2>5 DEF QueuedOnceSeen
<1>5. ASSUME UNCHANGED <<queue, level, queued>>, seen \subseteq seen',
             phase' \in Before \/ phase \notin Before
      PROVE  QueuedOnceSeen'
  BY <1>5 DEF QueuedOnceSeen, UrlsOf
<1>6. CASE FetchSitemap
  BY <1>6, FetchSitemapEffect DEF QueuedOnceSeen
<1>7. CASE /\ Quiet /\ ~ SitemapsDone /\ ~ NextLevel /\ ~ LevelDone /\ ~ FetchSitemap
  <2>1. UNCHANGED <<queue, level, queued>> /\ (phase' \in Before \/ phase \notin Before)
    BY <1>7 DEF Quiet, Abort, ReadRootRobots, SkipSitemap, LeaveLevels, CandidatesTaken,
                AbortEligible, RoundDone, DropRound, PageExceedsBudget, ReadableExceedsBudget,
                End, frontier
  <2> QED BY <1>5, <1>7, <2>1, QuietSteps
<1>8. ASSUME NEW i, Fetching(i) PROVE QueuedOnceSeen'
  <2>1. UNCHANGED <<queue, level, queued, seen>> /\ phase \notin Before
    BY <1>8 DEF Fetching, CheckRobots, StartFetch, FinishFetch, ThrowFetch, frontier
  <2> QED BY <1>5, <2>1
<1>9. CASE StartRound \/ PageFailed
  <2>1. UNCHANGED <<queue, level, queued, seen>> /\ phase \notin Before
    BY <1>9 DEF StartRound, PageFailed, frontier
  <2> QED BY <1>5, <2>1
<1>10. CASE TakePage
  <2>1. UNCHANGED <<queue, level, queued>> /\ phase = "outcomes" /\ seen' = Recognized
    BY <1>10, TakePageEffect
  <2> QED BY <1>5, <2>1, RecognizedType
<1> QED
  BY <1>1, <1>2, <1>3, <1>4, <1>6, <1>7, <1>8, <1>9, <1>10 DEF Next, Quiet, Fetching

LEMMA SeenStep ==
    ASSUME TypeOK, TypeOK', Early, Reasoned, Round, Budgets, Requested, Verdicts,
           SeenOnceSettled, Next
    PROVE  SeenOnceSettled'
<1> SUFFICES ASSUME aborted' = {} PROVE SeenOnceSettled'
  BY DEF SeenOnceSettled
<1>0. /\ aborted = {} /\ seen \subseteq Urls
      /\ \A i \in DOMAIN batch : batch[i].state # "threw"
  BY AbortedGrows DEF TypeOK, Round
<1>1. \A u \in Urls : Settled(u) => Settled(u)'
  BY SettledStays
\* It is enough that what is seen was, or is settled or in the round, and that
\* the jobs that leave the round are settled.
<1>2. ASSUME \A u \in seen' : u \in seen \/ Settled(u)' \/ u \in UrlsOf(batch'),
             \A i \in DOMAIN batch : Settled(batch[i].url) \/ batch[i].url \in UrlsOf(batch')
      PROVE  SeenOnceSettled'
  <2> SUFFICES ASSUME NEW u \in seen' PROVE Settled(u)' \/ u \in UrlsOf(batch')
    BY DEF SeenOnceSettled
  <2>1. CASE u \in seen
    <3>1. Settled(u) \/ u \in UrlsOf(batch)
      BY <1>0, <2>1 DEF SeenOnceSettled
    <3>2. Settled(u) \/ u \in UrlsOf(batch')
      BY <1>2, <3>1 DEF UrlsOf
    <3> QED BY <1>0, <1>1, <2>1, <3>2
  <2> QED BY <1>2, <2>1
<1>3. ASSUME UNCHANGED batch, \A u \in seen' : u \in seen \/ Settled(u)'
      PROVE  SeenOnceSettled'
  BY <1>2, <1>3 DEF UrlsOf
\* A page that was fetched, with the names it is known by.
<1>4. ASSUME seen' = Recognized, represented' = represented \cup (Recognized \ seen)
      PROVE  \A u \in seen' : u \in seen \/ Settled(u)'
  BY <1>4 DEF Settled
<1>5. CASE Quiet
  <2>1. UNCHANGED batch
    BY <1>5, QuietSteps
  <2>2. CASE ReadableExceedsBudget
    BY <1>3, <1>4, <2>1, <2>2 DEF ReadableExceedsBudget
  <2>3. CASE ~ ReadableExceedsBudget
    <3>1. UNCHANGED seen
      BY <1>5, <2>3 DEF Quiet, Abort, ReadRootRobots, SkipSitemap, FetchSitemap, SitemapsDone,
           NextLevel, LeaveLevels, CandidatesTaken, AbortEligible, RoundDone, DropRound,
           PageExceedsBudget, LevelDone, End, frontier
    <3> QED BY <1>3, <2>1, <3>1
  <2> QED BY <2>2, <2>3
<1>6. CASE TakeCandidate
  <2>1. /\ seen' = seen \cup {Head(level).url} /\ UNCHANGED requests
        /\ \/ UNCHANGED batch /\ Head(level).url \in seen \cup (Urls \ InScope)
           \/ \E job \in Jobs : batch' = Append(batch, job) /\ job.url = Head(level).url
    BY <1>6, TakeCandidateEffect
  <2>2. CASE UNCHANGED batch /\ Head(level).url \in seen \cup (Urls \ InScope)
    BY <1>3, <2>1, <2>2 DEF Settled
  <2>3. ASSUME NEW job \in Jobs, batch' = Append(batch, job), job.url = Head(level).url
        PROVE  SeenOnceSettled'
    <3>1. batch \in Seq(Jobs)
      BY DEF TypeOK
    <3>2. /\ Len(batch) + 1 \in DOMAIN batch' /\ batch'[Len(batch) + 1] = job
          /\ \A i \in DOMAIN batch : i \in DOMAIN batch' /\ batch'[i] = batch[i]
      BY <2>3, <3>1, AppendElements
    <3>3. /\ Head(level).url \in UrlsOf(batch')
          /\ \A i \in DOMAIN batch : batch[i].url \in UrlsOf(batch')
      BY <2>3, <3>2 DEF UrlsOf
    <3> QED BY <1>2, <2>1, <3>3
  <2> QED BY <2>1, <2>2, <2>3
<1>7. CASE StartRound
  <2>1. /\ UNCHANGED seen /\ phase = "eligible"
        /\ \A i \in DOMAIN batch : batch[i].state # "candidate"
        /\ \/ UNCHANGED batch
           \/ /\ batch' \in Seq(Jobs) /\ Len(batch') \in Nat
              /\ \E f : TakenFrom(f, Len(batch'))
    BY <1>7, StartRoundEffect DEF Budgets, WithinBudgets
  <2>2. CASE UNCHANGED batch
    BY <1>3, <2>1, <2>2
  <2>3. ASSUME NEW n \in Nat, n = Len(batch'), batch' \in Seq(Jobs), NEW f, TakenFrom(f, n)
        PROVE  SeenOnceSettled'
    <3> SUFFICES ASSUME NEW i \in DOMAIN batch
                 PROVE  Settled(batch[i].url) \/ batch[i].url \in UrlsOf(batch')
      BY <1>2, <2>1
    <3>1. batch[i].state \in {"allowed", "refused"}
      BY <2>1 DEF Round
    <3>2. CASE batch[i].state = "allowed"
      <4>1. DOMAIN batch' = 1..n
        BY <2>3
      <4>2. PICK k \in DOMAIN batch' : batch'[k].url = batch[i].url
        BY <2>3, <3>2, <4>1 DEF TakenFrom
      <4> QED BY <4>2 DEF UrlsOf
    <3>3. CASE batch[i].state = "refused"
      BY <3>3 DEF Verdicts, Settled
    <3> QED BY <3>1, <3>2, <3>3
  <2> QED BY <2>1, <2>2, <2>3
<1>8. ASSUME NEW i, Fetching(i) PROVE SeenOnceSettled'
  <2>1. UNCHANGED seen
    BY <1>8 DEF Fetching, CheckRobots, StartFetch, FinishFetch, ThrowFetch, frontier
  <2>2. \E s : Reaches(i, s)
    BY <1>8, CheckRobotsEffect, FetchSteps DEF Fetching
  <2>3. \A k \in DOMAIN batch : batch[k].url \in UrlsOf(batch')
    BY <2>2 DEF Reaches, UrlsOf
  <2> QED BY <1>2, <2>1, <2>3
<1>9. CASE PageFailed \/ TakePage
  <2>1. /\ phase = "outcomes" /\ batch' = Tail(batch)
        /\ phase' = IF Len(batch) = 1 THEN "collect" ELSE phase
    BY <1>9 DEF PageFailed, TakePage
  <2>2. /\ 1 \in DOMAIN batch
        /\ \A i \in DOMAIN batch : i = 1 \/ (i - 1 \in DOMAIN batch' /\ batch'[i - 1] = batch[i])
    BY <2>1, JobLeaves
  <2>3. Settled(batch[1].url)
    <3>1. batch[1].state = "fetched"
      BY <1>0, <2>1, <2>2 DEF Round
    <3> QED BY <2>2, <3>1 DEF Requested, Settled
  <2>4. \A i \in DOMAIN batch : Settled(batch[i].url) \/ batch[i].url \in UrlsOf(batch')
    BY <2>2, <2>3 DEF UrlsOf
  <2>5. \A u \in seen' : u \in seen \/ Settled(u)'
    <3>1. CASE PageFailed
      BY <3>1 DEF PageFailed, frontier
    <3>2. CASE TakePage
      BY <1>4, <3>2, TakePageEffect
    <3> QED BY <1>9, <3>1, <3>2
  <2> QED BY <1>2, <2>4, <2>5
<1> QED
  BY <1>5, <1>6, <1>7, <1>8, <1>9 DEF Next, Quiet, Fetching

LEMMA AccountedStep ==
    ASSUME TypeOK, TypeOK', Early, Reasoned, Round, Budgets, Requested, Verdicts, Frontier,
           Accounted, Next
    PROVE  Accounted'
<1>1. QueuedOnceSeen' /\ SeenOnceSettled'
  BY QueuedStep, SeenStep DEF Accounted
<1>2. ASSUME phase' \notin After PROVE Accounted'
  BY <1>1, <1>2 DEF Accounted, After
<1>3. ASSUME phase' = "ending", partial' \/ aborted' # {} PROVE Accounted'
  BY <1>1, <1>3 DEF Accounted
<1>4. CASE LeaveLevels
  <2>1. /\ phase = "level" /\ phase' = "ending"
        /\ aborted # {} \/ queue = <<>> \/ visited >= Limit
        /\ UNCHANGED <<aborted, batch, level, queue, visited>>
    BY <1>4 DEF LeaveLevels, signals, frontier, output
  <2> QED BY <1>1, <2>1 DEF Accounted, Round
<1>5. CASE AbortEligible \/ DropRound
  <2>1. phase' = "ending" /\ aborted' # {}
    BY <1>5 DEF AbortEligible, DropRound, signals
  <2> QED BY <1>3, <2>1
<1>6. CASE StartRound
  BY <1>2, <1>3, <1>6, StopIsPartial DEF StartRound, After
<1>7. CASE PageExceedsBudget \/ ReadableExceedsBudget
  BY <1>3, <1>7, StopIsPartial DEF PageExceedsBudget, ReadableExceedsBudget
<1>8. CASE LevelDone
  <2>1. phase' = "level" \/ (phase' = "ending" /\ partial' = TRUE)
    BY <1>8, LevelDoneEffect
  <2> QED BY <1>2, <1>3, <2>1 DEF After
<1>9. CASE End
  <2>1. /\ phase = "ending" /\ phase' = "done"
        /\ UNCHANGED <<aborted, batch, level, queue, visited>>
        /\ \/ partial' = TRUE
           \/ /\ ~ (stopped = NoReason /\ (aborted # {} \/ (visited >= Limit /\ queue # <<>>)))
              /\ UNCHANGED partial
    BY <1>9, Zenon DEF End, frontier, output
  <2>2. stopped # NoReason => partial
    BY DEF Reasoned
  <2> QED BY <1>1, <2>1, <2>2 DEF Accounted
\* The other steps do not lead to the end.
<1>10. ASSUME NEW i, Fetching(i) PROVE phase' \notin After
  BY <1>10 DEF Fetching, CheckRobots, StartFetch, FinishFetch, ThrowFetch, After
<1>11. CASE \/ \E source \in {"cancelled", "timeout"} : Abort(source)
            \/ ReadRootRobots \/ SkipSitemap \/ FetchSitemap \/ SitemapsDone \/ NextLevel
            \/ TakeCandidate \/ CandidatesTaken \/ RoundDone \/ PageFailed \/ TakePage
  <2>1. phase' \notin After
    BY <1>11 DEF Abort, Awaiting, ReadRootRobots, SkipSitemap, FetchSitemap, SitemapsDone,
                 NextLevel, TakeCandidate, CandidatesTaken, RoundDone, PageFailed, TakePage, After
  <2> QED BY <1>2, <2>1
<1> QED
  BY <1>2, <1>4, <1>5, <1>6, <1>7, <1>8, <1>9, <1>10, <1>11 DEF Next, Fetching

-----------------------------------------------------------------------------
(* The invariant, and what follows from it.                                 *)

LEMMA InitInvariant == Init => IInv
<1> SUFFICES ASSUME Init PROVE IInv
  OBVIOUS
<1>1. TypeOK
  BY InitType
<1>2. /\ phase \in {"robots", "sitemap", "level"}
      /\ phase = "level" <=> mode.sitemap = "skip"
      /\ stopped = NoReason /\ batch = <<>> /\ level = <<>> /\ additions = <<>>
      /\ documents = <<>> /\ visited = 0 /\ seen = {} /\ represented = {}
      /\ requests = [u \in Urls |-> 0] /\ robots = [o \in Origins |-> "unknown"]
      /\ spent.bytes = 0 /\ spent.redirects = 0
      /\ queue = IF mode.sitemap = "only" THEN <<>> ELSE <<[url |-> Root, depth |-> 0]>>
      /\ queued = IF mode.sitemap = "skip" THEN {Root} ELSE {}
  BY DEF Init
<1>3. /\ \A i \in DOMAIN queue : queue[i].depth = 0
      /\ mode.sitemap = "skip" => Root \in UrlsOf(queue)
  <2>1. CASE mode.sitemap = "only"
    <3>1. queue = <<>>
      BY <1>2, <2>1
    <3> QED BY <2>1, <3>1
  <2>2. CASE mode.sitemap # "only"
    <3>1. queue = <<[url |-> Root, depth |-> 0]>>
      BY <1>2, <2>2
    <3>2. DOMAIN queue = {1} /\ queue[1].depth = 0 /\ queue[1].url = Root
      BY <3>1
    <3> QED BY <3>2 DEF UrlsOf
  <2> QED BY <2>1, <2>2
<1>4. Early
  BY <1>2, <1>3 DEF Early, Before
<1>5. Reasoned
  BY <1>2 DEF Reasoned
<1>6. Round
  BY <1>2 DEF Round
<1>7. Budgets
  BY <1>2, Bounds DEF Budgets, WithinBudgets
<1>8. Requested
  BY <1>2 DEF Requested, NothingTwice
<1>9. Verdicts
  BY <1>2 DEF Verdicts, OnlyWelcomeRequests
<1>10. Frontier
  <2>1. Layered(0) /\ Linked(0)
    BY <1>2, <1>3 DEF Layered, Linked, Before, Working, After
  <2> QED BY <2>1 DEF Frontier
<1>11. Accounted
  BY <1>2, <1>3 DEF Accounted, QueuedOnceSeen, SeenOnceSettled, Before
<1> QED
  BY <1>1, <1>4, <1>5, <1>6, <1>7, <1>8, <1>9, <1>10, <1>11 DEF IInv

LEMMA Stuttering == IInv /\ UNCHANGED vars => IInv'
<1> SUFFICES ASSUME IInv, UNCHANGED vars PROVE IInv'
  OBVIOUS
<1>1. UNCHANGED <<mode, phase, aborted, stopped, partial, spent, robots, sitemaps, sitemapSeen,
                  queue, level, additions, queued, seen, represented, batch, visited, documents,
                  requests>>
  BY DEF vars, signals, sitemapVars, frontier, output
<1>2. TypeOK' /\ Early' /\ Reasoned'
  BY <1>1 DEF IInv, TypeOK, Early, Reasoned
<1>3. Round'
  BY <1>1 DEF IInv, Round
<1>4. Budgets'
  BY <1>1 DEF IInv, Budgets, WithinBudgets, Granted
<1>5. Requested'
  BY <1>1 DEF IInv, Requested, NothingTwice
<1>6. Verdicts'
  BY <1>1 DEF IInv, Verdicts, OnlyWelcomeRequests, Welcome, Refused
<1>7. Frontier'
  <2>1. PICK d \in Nat : Layered(d) /\ Linked(d)
    BY DEF IInv, Frontier
  <2>2. Layered(d)'
    BY <1>1, <2>1 DEF Layered
  <2>3. Linked(d)'
    BY <1>1, <2>1 DEF Linked, Known, Expanded
  <2> QED BY <2>2, <2>3 DEF Frontier
<1>8. Accounted'
  BY <1>1 DEF IInv, Accounted, QueuedOnceSeen, SeenOnceSettled, Settled, Refused
<1> QED
  BY <1>2, <1>3, <1>4, <1>5, <1>6, <1>7, <1>8 DEF IInv

LEMMA Invariance == IInv /\ Next => IInv'
<1> SUFFICES ASSUME IInv, Next PROVE IInv'
  OBVIOUS
<1> USE DEF IInv
<1>1. TypeOK'
  BY TypeStep
<1>2. Early' /\ Reasoned' /\ Round'
  BY EarlyStep, ReasonedStep, RoundStep
<1>3. Budgets'
  BY <1>1, BudgetsStep
<1>4. Requested'
  BY <1>1, RequestedStep
<1>5. Verdicts'
  BY <1>1, VerdictsStep
<1>6. Frontier'
  BY FrontierStep
<1>7. Accounted'
  BY <1>1, AccountedStep
<1> QED
  BY <1>1, <1>2, <1>3, <1>4, <1>5, <1>6, <1>7

LEMMA Invariant == Spec => []IInv
<1>1. Init => IInv
  BY InitInvariant
<1>2. IInv /\ [Next]_vars => IInv'
  BY Invariance, Stuttering
<1> QED
  BY <1>1, <1>2, PTL DEF Spec

\* The crawl's state has its types; in particular no item is deeper than
\* maxDepth, though links add one level per document (enqueue in crawl.ts).
THEOREM CrawlTypeCorrect == Spec => []TypeOK
<1>1. IInv => TypeOK
  BY DEF IInv
<1> QED
  BY <1>1, Invariant, PTL

\* However the robots policies, sitemaps and rounds share the budgets, neither
\* the bytes, the redirects nor the pages exceed them (account, the split of a
\* round and the limit in crawlWithGecko).
THEOREM BudgetsHold == Spec => []WithinBudgets
<1>1. IInv => WithinBudgets
  BY DEF IInv, Budgets
<1> QED
  BY <1>1, Invariant, PTL

\* A page is requested once and becomes one document, and an origin serves one
\* request at a time (seen, emitted and pLimit in crawlWithGecko).
THEOREM NothingIsTwice == Spec => []NothingTwice
<1>1. IInv => NothingTwice
  BY DEF IInv, Requested
<1> QED
  BY <1>1, Invariant, PTL

\* What is requested is in scope and welcome by a policy that is known
\* (allowedByRobots and the cached policies of crawl.ts).
THEOREM OnlyWelcomeRequested == Spec => []OnlyWelcomeRequests
<1>1. IInv => OnlyWelcomeRequests
  BY DEF IInv, Verdicts
<1> QED
  BY <1>1, Invariant, PTL

\* Documents come in the order of their depth, none before a page of a lesser
\* depth that waits, and at most one level below a document that links to them
\* (the levels of crawlWithGecko).
THEOREM ExactBreadthFirst == Spec => []BreadthFirst
<1>1. IInv => BreadthFirst
  <2> SUFFICES ASSUME IInv, NEW i \in DOMAIN documents, NEW j \in DOMAIN documents
               PROVE  /\ i < j => documents[i].depth <= documents[j].depth
                      /\ \A item \in ToSet(level) \cup ToSet(queue) :
                           documents[j].depth <= item.depth
                      /\ Expanded(documents[i])
                           /\ documents[j].url \in ToSet(Links[documents[i].final])
                         => documents[j].depth <= documents[i].depth + 1
    BY DEF BreadthFirst
  <2>1. PICK d \in Nat : Layered(d) /\ Linked(d)
    BY DEF IInv, Frontier
  <2>2. phase \notin Before
    BY DEF IInv, Early
  <2>3. /\ \A k \in DOMAIN queue : queue[k].depth >= d
        /\ \A k \in DOMAIN level : level[k].depth >= d
    <3>1. CASE phase = "level"
      BY <2>1, <3>1 DEF IInv, Round, Layered
    <3>2. CASE phase \in Working
      BY <2>1, <3>2 DEF Layered
    <3>3. CASE phase \in After
      BY <2>1, <3>3 DEF Layered
    <3> QED BY <2>2, <3>1, <3>2, <3>3 DEF IInv, TypeOK, Phases, Awaiting, Before, Working, After
  <2>4. /\ documents[j].depth \in Nat /\ documents[j].depth <= d
        /\ \A k \in DOMAIN queue : queue[k].depth \in Nat
        /\ \A k \in DOMAIN level : level[k].depth \in Nat
    BY <2>1, Depths DEF IInv, Layered
  <2>5. /\ \A k \in DOMAIN queue : documents[j].depth <= queue[k].depth
        /\ \A k \in DOMAIN level : documents[j].depth <= level[k].depth
    BY <2>3, <2>4
  <2>6. \A item \in ToSet(level) \cup ToSet(queue) : documents[j].depth <= item.depth
    BY <2>5 DEF ToSet
  <2>7. ASSUME Expanded(documents[i]), documents[j].url \in ToSet(Links[documents[i].final])
        PROVE  documents[j].depth <= documents[i].depth + 1
    <3>1. documents[j].url \in InScope
      BY DEF IInv, Requested
    <3> QED BY <2>1, <2>7, <3>1 DEF Linked, NoDeeper
  <2> QED BY <2>1, <2>6, <2>7 DEF Layered
<1> QED
  BY <1>1, Invariant, PTL

\* A result that is not partial left out no page that was queued or linked from
\* an expanded document (the queue, seen and the reasons of crawlWithGecko).
THEOREM CompleteLeavesNothingOut == Spec => []CompleteIsExhaustive
<1>1. IInv => CompleteIsExhaustive
  <2> SUFFICES ASSUME IInv, phase = "done", ~partial
               PROVE  /\ \A u \in queued : Handled(u)
                      /\ \A i \in DOMAIN documents : Expanded(documents[i]) =>
                           \A u \in ToSet(Links[documents[i].final]) : Handled(u)
    BY DEF CompleteIsExhaustive
  <2>1. aborted = {} /\ batch = <<>> /\ level = <<>> /\ queue = <<>>
    BY DEF IInv, Accounted
  <2>2. UrlsOf(batch) = {} /\ UrlsOf(level) = {} /\ UrlsOf(queue) = {}
    BY <2>1 DEF UrlsOf
  <2>3. \A u : Settled(u) => Handled(u)
    BY DEF Settled, Refused, Handled, Welcome
  <2>4. \A u \in seen : Handled(u)
    BY <2>1, <2>2, <2>3 DEF IInv, Accounted, SeenOnceSettled
  <2>5. queued \subseteq seen
    BY <2>2 DEF IInv, Accounted, QueuedOnceSeen, Before
  <2>6. ASSUME NEW i \in DOMAIN documents, Expanded(documents[i]),
               NEW u \in ToSet(Links[documents[i].final])
        PROVE  Handled(u)
    <3>1. CASE u \in InScope
      <4>1. PICK d \in Nat : Linked(d)
        BY DEF IInv, Frontier
      <4>2. Known(i, u, d)
        BY <2>6, <3>1, <4>1 DEF Linked
      <4>3. u \in queued \cup seen
        BY <2>1, <4>2 DEF Known, After
      <4> QED BY <2>4, <2>5, <4>3
    <3>2. CASE u \notin InScope
      BY <3>2 DEF Handled, Welcome
    <3> QED BY <3>1, <3>2
  <2> QED BY <2>4, <2>5, <2>6
<1> QED
  BY <1>1, Invariant, PTL

\* The reason first given for stopping is the one reported (stop and the result
\* of crawlWithGecko), whatever else ends the crawl.
THEOREM FirstReasonAlwaysStands == Spec => FirstReasonStands
<1>1. IInv /\ [Next]_vars => [stopped # NoReason => stopped' = stopped /\ partial']_vars
  <2>1. IInv /\ Next => (stopped # NoReason => stopped' = stopped /\ partial')
    BY ReasonedStep DEF IInv, Stands
  <2> QED BY <2>1
<1> QED
  BY <1>1, Invariant, PTL DEF Spec, FirstReasonStands
=============================================================================
