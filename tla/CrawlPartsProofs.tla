-------------------------- MODULE CrawlPartsProofs --------------------------
(***************************************************************************)
(* Proofs about the parts of the crawler that have a model of their own:    *)
(* Pacing, for any origins, delays, clock and number of pages; Sitemap and  *)
(* Robots, for any file, of any tokens or lines and however long.           *)
(***************************************************************************)
EXTENDS CrawlParts, CrawlProofs

-----------------------------------------------------------------------------
(* Pacing.                                                                  *)

\* What the variables of the queues hold.
PaceTypes ==
    /\ now \in Nat
    /\ serving \in [Origins -> {"idle", "delayed", "fetching"}]
    /\ due \in [Origins -> Int] /\ originNextRequest \in [Origins -> Int]
    /\ originDelays \in [Origins -> Nat \cup {Pace!Unknown}]
    /\ answered \in [Origins -> Nat \cup {Pace!Never}]

\* Once a request of the origin has been answered, its robots.txt has been
\* read, and the next request is due a delay after the last answer; a request
\* that is delayed waits for just that, for no other is answered meanwhile.
Due ==
    \A o \in Origins :
      /\ answered[o] # Pace!Never =>
           /\ originDelays[o] # Pace!Unknown
           /\ originNextRequest[o] = answered[o] + originDelays[o]
      /\ serving[o] = "delayed" => due[o] = originNextRequest[o]

PaceInv == PaceTypes /\ Due

LEMMA PaceInit == Pace!Init => PaceInv
  BY DEF Pace!Init, PaceInv, PaceTypes, Due, Pace!Unknown, Pace!Never

LEMMA PaceStep == Pace!PacingAssumption /\ PaceInv /\ [Pace!Next]_Pace!vars => PaceInv'
<1> SUFFICES ASSUME Pace!PacingAssumption, PaceInv, [Pace!Next]_Pace!vars PROVE PaceInv'
  OBVIOUS
<1> USE DEF PaceInv, PaceTypes, Due, Pace!Unknown, Pace!Never
<1>1. CASE Pace!Tick
  BY <1>1 DEF Pace!Tick
<1>2. CASE Pace!Abort
  BY <1>2 DEF Pace!Abort
<1>3. ASSUME NEW o \in Origins, Pace!Request(o) PROVE PaceInv'
  BY <1>3 DEF Pace!Request
<1>4. ASSUME NEW o \in Origins, Pace!Serve(o) PROVE PaceInv'
  BY <1>4 DEF Pace!Serve
<1>5. ASSUME NEW o \in Origins, Pace!DelayEnds(o) PROVE PaceInv'
  BY <1>5 DEF Pace!DelayEnds
<1>6. ASSUME NEW o \in Origins, Pace!Reject(o) PROVE PaceInv'
  BY <1>6 DEF Pace!Reject
\* An answer moves the next request of its own origin, which is not delayed.
<1>7. ASSUME NEW o \in Origins, NEW wait \in Nat, Pace!Answered(o),
             originDelays' \in [Origins -> Nat \cup {Pace!Unknown}],
             \A q \in Origins : originDelays'[q] = IF q = o THEN wait ELSE originDelays[q],
             originNextRequest' = [originNextRequest EXCEPT ![o] = now + wait]
      PROVE  PaceInv'
  <2>1. /\ now' = now /\ due' = due
        /\ serving' = [serving EXCEPT ![o] = "idle"]
        /\ answered' = [answered EXCEPT ![o] = now]
    BY <1>7 DEF Pace!Answered
  <2>2. PaceTypes'
    BY <1>7, <2>1
  <2>3. ASSUME NEW q \in Origins
        PROVE  /\ answered'[q] # Pace!Never =>
                    /\ originDelays'[q] # Pace!Unknown
                    /\ originNextRequest'[q] = answered'[q] + originDelays'[q]
               /\ serving'[q] = "delayed" => due'[q] = originNextRequest'[q]
    <3>1. CASE q = o
      BY <1>7, <2>1, <3>1
    <3>2. CASE q # o
      BY <1>7, <2>1, <3>2
    <3> QED BY <3>1, <3>2
  <2> QED BY <2>2, <2>3
<1>8. ASSUME NEW o \in Origins, Pace!AnswerRobots(o) PROVE PaceInv'
  <2>1. PICK wait \in Delays \cup {DefaultDelay} :
          /\ originDelays' = [originDelays EXCEPT ![o] = wait]
          /\ originNextRequest' = [originNextRequest EXCEPT ![o] = now + wait]
    BY <1>8 DEF Pace!AnswerRobots
  <2>2. wait \in Nat
    BY DEF Pace!PacingAssumption
  <2>3. Pace!Answered(o)
    BY <1>8 DEF Pace!AnswerRobots
  <2> QED BY <1>7, <2>1, <2>2, <2>3
<1>9. ASSUME NEW o \in Origins, Pace!AnswerPage(o) PROVE PaceInv'
  <2>1. /\ Pace!Answered(o) /\ originDelays[o] # Pace!Unknown
        /\ originNextRequest' = [originNextRequest EXCEPT ![o] = now + originDelays[o]]
        /\ originDelays' = originDelays
    BY <1>9 DEF Pace!AnswerPage
  <2>2. originDelays[o] \in Nat
    BY <2>1
  <2> QED BY <1>7, <2>1, <2>2
<1>10. CASE UNCHANGED Pace!vars
  BY <1>10 DEF Pace!vars
<1> QED
  BY <1>1, <1>2, <1>3, <1>4, <1>5, <1>6, <1>8, <1>9, <1>10 DEF Pace!Next

\* Only Serve and DelayEnds start a fetch, when the origin's next request is due.
LEMMA FetchIsDue ==
    ASSUME PaceInv, [Pace!Next]_Pace!vars, NEW o \in Origins,
           serving[o] # "fetching", serving'[o] = "fetching"
    PROVE  originNextRequest[o] <= now
<1>1. PICK q \in Origins : Pace!Serve(q) \/ Pace!DelayEnds(q)
  BY DEF PaceInv, PaceTypes, Pace!Next, Pace!vars, Pace!Tick, Pace!Abort, Pace!Request,
         Pace!Reject, Pace!AnswerRobots, Pace!AnswerPage, Pace!Answered
<1>2. CASE Pace!Serve(q)
  BY <1>2 DEF Pace!Serve, PaceInv, PaceTypes
<1>3. CASE Pace!DelayEnds(q)
  BY <1>3 DEF Pace!DelayEnds, PaceInv, PaceTypes, Due
<1> QED
  BY <1>1, <1>2, <1>3

\* fetchRaw and its queues: between an answer of an origin and its next request
\* the declared delay passes, whatever other origins do and whenever timers run.
THEOREM DelayAlwaysKept ==
    ASSUME Pace!PacingAssumption
    PROVE  Pace!Spec => DelayKept
<1>1. PaceInv /\ [Pace!Next]_Pace!vars =>
        [\A o \in Origins :
           serving[o] # "fetching" /\ serving'[o] = "fetching" /\ answered[o] # Pace!Never
           => now - answered[o] >= originDelays[o]]_Pace!vars
  <2> SUFFICES ASSUME PaceInv, [Pace!Next]_Pace!vars, NEW o \in Origins,
                      serving[o] # "fetching", serving'[o] = "fetching",
                      answered[o] # Pace!Never
               PROVE  now - answered[o] >= originDelays[o]
    OBVIOUS
  <2>1. originNextRequest[o] <= now
    BY FetchIsDue
  <2>2. /\ originNextRequest[o] = answered[o] + originDelays[o]
        /\ answered[o] \in Nat /\ originDelays[o] \in Nat /\ now \in Nat
    BY DEF PaceInv, PaceTypes, Due
  <2> QED BY <2>1, <2>2
<1> QED
  BY <1>1, PaceInit, PaceStep, PTL DEF Pace!Spec, DelayKept, Pace!DelayKept

-----------------------------------------------------------------------------
(* Finite sets of numbers.                                                  *)

\* The parts' own Cardinality and Nth are those of the crawl.
LEMMA SameOperators ==
    /\ \A S : Tags!Cardinality(S) = Cardinality(S) /\ Policy!Cardinality(S) = Cardinality(S)
    /\ \A P, n : Tags!Nth(P, n) = Nth(P, n)
<1>1. \A S : Tags!Cardinality(S) = Cardinality(S) /\ Policy!Cardinality(S) = Cardinality(S)
  BY DEF Tags!Cardinality, Policy!Cardinality, Cardinality
<1>2. ASSUME NEW P, NEW n PROVE Tags!Nth(P, n) = Nth(P, n)
  BY <1>1 DEF Tags!Nth, Nth
<1> QED BY <1>1, <1>2

\* The maximum of a set of integers is its element that none exceeds.
LEMMA MaxIs ==
    ASSUME NEW S \in SUBSET Int, NEW m \in S, \A y \in S : y <= m
    PROVE  Tags!Max(S) = m /\ Policy!Max(S) = m
<1> DEFINE P(x) == \A y \in S : x >= y
<1>1. P(m)
  OBVIOUS
<1>2. \A x \in S : P(x) => x = m
  OBVIOUS
<1>3. /\ Tags!Max(S) = CHOOSE x \in S : P(x)
      /\ Policy!Max(S) = CHOOSE x \in S : P(x)
  BY DEF Tags!Max, Policy!Max
<1> QED BY <1>1, <1>2, <1>3

\* The positions of a finite set, numbered in their order.
LEMMA NthIs ==
    ASSUME NEW P \in SUBSET Nat, IsFiniteSet(P)
    PROVE  /\ \A n \in 1 .. Cardinality(P) :
                Nth(P, n) \in P /\ Cardinality({j \in P : j <= Nth(P, n)}) = n
           /\ \A i \in P : Nth(P, Cardinality({j \in P : j <= i})) = i
<1> DEFINE rank(i) == Cardinality({j \in P : j <= i})
<1>1. /\ \A i \in P : rank(i) \in 1 .. Cardinality(P)
      /\ \A i, k \in P : rank(i) = rank(k) => i = k
      /\ \A n \in 1 .. Cardinality(P) : \E i \in P : rank(i) = n
  BY Ranks
<1>2. \A n : Nth(P, n) = CHOOSE i \in P : rank(i) = n
  BY DEF Nth
<1> HIDE DEF rank
<1>3. \A n \in 1 .. Cardinality(P) : Nth(P, n) \in P /\ rank(Nth(P, n)) = n
  BY <1>1, <1>2
<1>4. \A i \in P : Nth(P, rank(i)) = i
  BY <1>1, <1>3
<1> QED BY <1>3, <1>4 DEF rank

\* A position after all others is numbered last, and the others as before.
LEMMA NthLast ==
    ASSUME NEW P \in SUBSET Nat, IsFiniteSet(P), NEW m \in Nat, \A i \in P : i < m
    PROVE  /\ IsFiniteSet(P \cup {m}) /\ Cardinality(P \cup {m}) = Cardinality(P) + 1
           /\ Cardinality(P) \in Nat
           /\ \A n \in 1 .. Cardinality(P) : Nth(P \cup {m}, n) = Nth(P, n)
           /\ Nth(P \cup {m}, Cardinality(P) + 1) = m
<1> DEFINE Q == P \cup {m}
           rank(i) == Cardinality({j \in P : j <= i})
           last(i) == Cardinality({j \in Q : j <= i})
<1>1. IsFiniteSet(Q) /\ Cardinality(Q) = Cardinality(P) + 1 /\ Cardinality(P) \in Nat
  <2>1. m \notin P
    OBVIOUS
  <2> QED BY <2>1, FS_AddElement, FS_CardinalityType
<1>2. last(m) = Cardinality(P) + 1
  <2>1. \A j \in Q : j <= m
    OBVIOUS
  <2> QED BY <1>1, <2>1
<1>3. \A i \in P : last(i) = rank(i)
  <2> SUFFICES ASSUME NEW i \in P PROVE last(i) = rank(i)
    OBVIOUS
  <2>1. {j \in Q : j <= i} = {j \in P : j <= i}
    OBVIOUS
  <2> QED BY <2>1
<1>4. /\ Q \in SUBSET Nat
      /\ \A i \in Q : Nth(Q, last(i)) = i
  <2>1. Q \in SUBSET Nat
    OBVIOUS
  <2> HIDE DEF Q
  <2> QED BY <1>1, <2>1, NthIs
<1>5. \A n \in 1 .. Cardinality(P) : Nth(P, n) \in P /\ rank(Nth(P, n)) = n
  BY NthIs
<1>6. ASSUME NEW n \in 1 .. Cardinality(P) PROVE Nth(Q, n) = Nth(P, n)
  <2> DEFINE i == Nth(P, n)
  <2>1. i \in P /\ rank(i) = n
    BY <1>5
  <2> HIDE DEF i, rank, last
  <2>2. last(i) = n /\ i \in Q
    BY <1>3, <2>1
  <2>3. Nth(Q, n) = i
    BY <1>4, <2>2
  <2> QED BY <2>3 DEF i
<1>7. Nth(Q, Cardinality(P) + 1) = m
  <2> HIDE DEF last
  <2>1. m \in Q
    OBVIOUS
  <2> QED BY <1>2, <1>4, <2>1
<1> QED BY <1>1, <1>6, <1>7

\* A sequence with one more element.
LEMMA AppendIs ==
    ASSUME NEW S, NEW s \in Seq(S), NEW e \in S, NEW c \in Nat, Len(s) = c, NEW f,
           f = [n \in 1 .. c + 1 |-> IF n = c + 1 THEN e ELSE s[n]]
    PROVE  f = Append(s, e)
<1>1. f \in [1 .. c + 1 -> S] /\ c + 1 \in Nat
  BY ElementOfSeq
<1>2. f \in Seq(S) /\ Len(f) = c + 1
  BY <1>1, SeqDef
<1>3. /\ Append(s, e) \in Seq(S) /\ Len(Append(s, e)) = c + 1
      /\ \A n \in 1 .. c + 1 : Append(s, e)[n] = f[n]
  BY AppendProperties
<1> QED BY <1>2, <1>3, SeqEqual

-----------------------------------------------------------------------------
(* Sitemap: the text grows by a token.                                      *)

\* What is said of the tokens up to n is about finitely many of them.
LEMMA OfIs ==
    ASSUME NEW n \in Nat
    PROVE  /\ \A K : /\ Tags!Of(K, n) \in SUBSET (1 .. n)
                     /\ IsFiniteSet(Tags!Of(K, n)) /\ Cardinality(Tags!Of(K, n)) \in Nat
           /\ Tags!Depth(n) \in Int
<1>1. ASSUME NEW K
      PROVE  /\ Tags!Of(K, n) \in SUBSET (1 .. n)
             /\ IsFiniteSet(Tags!Of(K, n)) /\ Cardinality(Tags!Of(K, n)) \in Nat
  <2>1. Tags!Of(K, n) \in SUBSET (1 .. n)
    BY DEF Tags!Of
  <2>2. IsFiniteSet(1 .. n)
    BY FS_Interval
  <2> QED BY <2>1, <2>2, FS_Subset, FS_CardinalityType
<1> QED BY <1>1, SameOperators DEF Tags!Depth

\* The text read so far, n tokens, has grown by t.
Grown(n, t) ==
    /\ n = Len(file) /\ n \in Nat /\ t \in Tokens
    /\ file \in Seq(Tokens) /\ file' \in Seq(Tokens) /\ Len(file') = n + 1
    /\ file'[n + 1] = t /\ \A i \in 1 .. n : file'[i] = file[i]

\* Reading a token makes the text one longer.
LEMMA TokenGrows ==
    ASSUME file \in Seq(Tokens), NEW K, Tags!Token(K)
    PROVE  \E n \in Nat, t \in Tokens : Grown(n, t) /\ t.kind \in K /\ Tags!Last(file') = t
<1>1. PICK t \in Tokens : t.kind \in K /\ file' = Append(file, t)
  BY DEF Tags!Token
<1>2. PICK n \in Nat : n = Len(file)
  OBVIOUS
<1>3. /\ file' \in Seq(Tokens) /\ Len(file') = n + 1 /\ file'[n + 1] = t
      /\ \A i \in 1 .. n : file'[i] = file[i]
  BY <1>1, <1>2, AppendProperties
<1>4. Tags!Last(file') = t
  BY <1>3 DEF Tags!Last
<1> QED BY <1>1, <1>2, <1>3, <1>4 DEF Grown

\* The tokens of a kind, when the text grows.
LEMMA OfGrows ==
    ASSUME NEW n, NEW t, Grown(n, t)
    PROVE  /\ \A K : \A i \in 0 .. n : Tags!Of(K, i)' = Tags!Of(K, i)
           /\ \A K : Tags!Of(K, n + 1)' = IF t.kind \in K THEN Tags!Of(K, n) \cup {n + 1}
                                          ELSE Tags!Of(K, n)
<1>1. /\ n \in Nat /\ file'[n + 1] = t
      /\ \A i \in 1 .. n : file'[i] = file[i]
  BY DEF Grown
<1>2. ASSUME NEW K, NEW i \in 0 .. n PROVE Tags!Of(K, i)' = Tags!Of(K, i)
  <2>1. \A j \in 1 .. i : file'[j] = file[j]
    BY <1>1
  <2> QED BY <2>1 DEF Tags!Of
<1>3. ASSUME NEW K
      PROVE  Tags!Of(K, n + 1)' = IF t.kind \in K THEN Tags!Of(K, n) \cup {n + 1}
                                  ELSE Tags!Of(K, n)
  <2>1. 1 .. n + 1 = (1 .. n) \cup {n + 1}
    BY <1>1
  <2>2. {j \in 1 .. n + 1 : file'[j].kind \in K}
          = {j \in 1 .. n : file'[j].kind \in K} \cup {j \in {n + 1} : file'[j].kind \in K}
    BY <2>1
  <2>3. {j \in {n + 1} : file'[j].kind \in K} = IF t.kind \in K THEN {n + 1} ELSE {}
    BY <1>1
  <2>4. {j \in 1 .. n : file'[j].kind \in K} = {j \in 1 .. n : file[j].kind \in K}
    BY <1>1
  <2> QED BY <2>2, <2>3, <2>4 DEF Tags!Of
<1> QED BY <1>2, <1>3

\* A tag changes the depth after it, never one before it.
LEMMA DepthGrows ==
    ASSUME NEW n, NEW t, Grown(n, t)
    PROVE  /\ \A i \in 0 .. n : Tags!Depth(i)' = Tags!Depth(i)
           /\ Tags!Depth(n + 1)' = Tags!Depth(n) + (IF t.kind = "open" THEN 1
                                                    ELSE IF t.kind = "close" THEN -1 ELSE 0)
<1>1. n \in Nat
  BY DEF Grown
<1>2. \A i \in 0 .. n : Tags!Depth(i)' = Tags!Depth(i)
  BY OfGrows DEF Tags!Depth
<1>3. ASSUME NEW K
      PROVE  Cardinality(Tags!Of(K, n + 1)')
               = Cardinality(Tags!Of(K, n)) + IF t.kind \in K THEN 1 ELSE 0
  <2>1. n + 1 \notin Tags!Of(K, n) /\ IsFiniteSet(Tags!Of(K, n))
        /\ Cardinality(Tags!Of(K, n)) \in Nat
    BY <1>1, OfIs
  <2>2. CASE t.kind \in K
    <3>1. Tags!Of(K, n + 1)' = Tags!Of(K, n) \cup {n + 1}
      BY <2>2, OfGrows
    <3> QED BY <2>1, <2>2, <3>1, FS_AddElement
  <2>3. CASE t.kind \notin K
    <3>1. Tags!Of(K, n + 1)' = Tags!Of(K, n)
      BY <2>3, OfGrows
    <3> QED BY <2>1, <2>3, <3>1
  <2> QED BY <2>2, <2>3
<1>4. \A K : Cardinality(Tags!Of(K, n)) \in Nat
  BY <1>1, OfIs
<1>5. /\ Cardinality(Tags!Of({"open"}, n + 1)')
           = Cardinality(Tags!Of({"open"}, n)) + IF t.kind = "open" THEN 1 ELSE 0
      /\ Cardinality(Tags!Of({"close"}, n + 1)')
           = Cardinality(Tags!Of({"close"}, n)) + IF t.kind = "close" THEN 1 ELSE 0
  BY <1>3
<1>6. Tags!Depth(n + 1)'
        = Cardinality(Tags!Of({"open"}, n + 1)') - Cardinality(Tags!Of({"close"}, n + 1)')
  BY SameOperators DEF Tags!Depth
<1>7. Tags!Depth(n) = Cardinality(Tags!Of({"open"}, n)) - Cardinality(Tags!Of({"close"}, n))
  BY SameOperators DEF Tags!Depth
<1> QED BY <1>2, <1>4, <1>5, <1>6, <1>7

\* An element stays opened where it was opened.
LEMMA OpeningKept ==
    ASSUME NEW n, NEW t, Grown(n, t)
    PROVE  \A i \in 0 .. n : Tags!Opening(i)' = Tags!Opening(i)
<1> SUFFICES ASSUME NEW i \in 0 .. n PROVE Tags!Opening(i)' = Tags!Opening(i)
  OBVIOUS
<1>1. n \in Nat
  BY DEF Grown
<1>2. Tags!Of({"open"}, i)' = Tags!Of({"open"}, i) /\ Tags!Of({"open"}, i) \in SUBSET (1 .. i)
  BY <1>1, OfGrows, OfIs
<1>3. \A j \in 1 .. i : Tags!Depth(j)' = Tags!Depth(j)
  BY <1>1, DepthGrows
<1>4. Tags!Depth(i)' = Tags!Depth(i)
  BY <1>1, DepthGrows
<1>5. {j \in Tags!Of({"open"}, i)' : Tags!Depth(j)' = Tags!Depth(i)' + 1}
        = {j \in Tags!Of({"open"}, i) : Tags!Depth(j) = Tags!Depth(i) + 1}
  BY <1>2, <1>3, <1>4
<1> QED BY <1>5 DEF Tags!Opening

\* The text between an opening and an earlier place stays what it was.
LEMMA OwnKept ==
    ASSUME NEW n, NEW t, Grown(n, t)
    PROVE  \A j, m \in 0 .. n : Tags!Own(j, m)' = Tags!Own(j, m)
<1> SUFFICES ASSUME NEW j \in 0 .. n, NEW m \in 0 .. n PROVE Tags!Own(j, m)' = Tags!Own(j, m)
  OBVIOUS
<1>1. /\ n \in Nat
      /\ \A i \in 1 .. n : file'[i] = file[i]
  BY DEF Grown
<1>2. /\ Tags!Of({"text"}, m)' = Tags!Of({"text"}, m)
      /\ Tags!Of({"close"}, m)' = Tags!Of({"close"}, m)
      /\ Tags!Of({"text"}, m) \in SUBSET (1 .. n) /\ Tags!Of({"close"}, m) \in SUBSET (1 .. n)
  <2>1. \A K : Tags!Of(K, m)' = Tags!Of(K, m) /\ Tags!Of(K, m) \in SUBSET (1 .. m)
    BY <1>1, OfGrows, OfIs
  <2>2. 1 .. m \subseteq 1 .. n
    BY <1>1
  <2> QED BY <2>1, <2>2
<1>3. \A i \in 0 .. n : Tags!Depth(i)' = Tags!Depth(i)
  BY DepthGrows
<1>4. \A i \in 1 .. n : Tags!Depth(i)' = Tags!Depth(i)
  BY <1>1, <1>3
<1> QED BY <1>1, <1>2, <1>3, <1>4 DEF Tags!Own

\* What an element that is open contains itself after one more token: a text
\* in it is added, and a location that ends in it starts it anew.
LEMMA OwnGrows ==
    ASSUME NEW n, NEW t, Grown(n, t), NEW j \in 1 .. n
    PROVE  Tags!Own(j, n + 1)' =
             IF t.kind = "text" /\ Tags!Depth(j) = Tags!Depth(n) THEN Tags!Own(j, n) \cup {n + 1}
             ELSE IF t.kind = "close" /\ t.name = "loc" THEN {} ELSE Tags!Own(j, n)
<1> DEFINE texts == Tags!Of({"text"}, n)
           closes == Tags!Of({"close"}, n)
<1>1. /\ n \in Nat /\ file'[n + 1] = t
      /\ \A i \in 1 .. n : file'[i] = file[i]
  BY DEF Grown
<1>2. texts \in SUBSET (1 .. n) /\ closes \in SUBSET (1 .. n)
  BY <1>1, OfIs
<1>3. /\ Tags!Of({"text"}, n + 1)' = IF t.kind = "text" THEN texts \cup {n + 1} ELSE texts
      /\ Tags!Of({"close"}, n + 1)' = IF t.kind = "close" THEN closes \cup {n + 1} ELSE closes
  <2>1. \A K : Tags!Of(K, n + 1)' = IF t.kind \in K THEN Tags!Of(K, n) \cup {n + 1}
                                    ELSE Tags!Of(K, n)
    BY OfGrows
  <2> QED BY <2>1
<1>4. \A i \in 1 .. n : Tags!Depth(i)' = Tags!Depth(i)
  BY <1>1, DepthGrows
<1>5. t.kind = "text" => Tags!Depth(n + 1)' = Tags!Depth(n)
  BY <1>1, DepthGrows, OfIs
<1>6. Tags!Own(j, n) =
        {i \in texts : /\ j < i /\ Tags!Depth(i) = Tags!Depth(j)
                       /\ \A k \in closes : j < k /\ file[k].name = "loc" => k < i}
  BY DEF Tags!Own
<1>7. Tags!Own(j, n + 1)' =
        {i \in Tags!Of({"text"}, n + 1)' :
           /\ j < i /\ Tags!Depth(i)' = Tags!Depth(j)'
           /\ \A k \in Tags!Of({"close"}, n + 1)' : j < k /\ file'[k].name = "loc" => k < i}
  BY DEF Tags!Own
<1> HIDE DEF texts, closes
<1>8. \A i \in texts : /\ i \in 1 .. n /\ Tags!Depth(i)' = Tags!Depth(i)
                       /\ Tags!Depth(j)' = Tags!Depth(j)
  BY <1>2, <1>4
<1>9. \A k \in closes : k \in 1 .. n /\ file'[k] = file[k]
  BY <1>1, <1>2
<1>10. CASE t.kind = "text"
  <2>1. /\ Tags!Of({"text"}, n + 1)' = texts \cup {n + 1}
        /\ Tags!Of({"close"}, n + 1)' = closes
    BY <1>3, <1>10
  <2>2. Tags!Own(j, n + 1)' =
          {i \in texts \cup {n + 1} :
             /\ j < i /\ Tags!Depth(i)' = Tags!Depth(j)
             /\ \A k \in closes : j < k /\ file[k].name = "loc" => k < i}
    BY <1>4, <1>7, <1>9, <2>1
  <2>3. j < n + 1 /\ \A k \in closes : k < n + 1
    BY <1>1, <1>9
  <2> QED BY <1>5, <1>6, <1>8, <1>10, <2>2, <2>3
<1>11. CASE t.kind = "close"
  <2>1. /\ Tags!Of({"text"}, n + 1)' = texts
        /\ Tags!Of({"close"}, n + 1)' = closes \cup {n + 1}
    BY <1>3, <1>11
  <2>2. Tags!Own(j, n + 1)' =
          {i \in texts :
             /\ j < i /\ Tags!Depth(i) = Tags!Depth(j)
             /\ \A k \in closes \cup {n + 1} : j < k /\ file'[k].name = "loc" => k < i}
    BY <1>7, <1>8, <2>1
  <2>3. CASE t.name = "loc"
    <3>1. j < n + 1 /\ \A i \in texts : ~ (n + 1 < i)
      BY <1>1, <1>8
    <3> QED BY <1>1, <1>11, <2>2, <2>3, <3>1
  <2>4. CASE t.name # "loc"
    <3>1. Tags!Own(j, n + 1)' =
            {i \in texts :
               /\ j < i /\ Tags!Depth(i) = Tags!Depth(j)
               /\ \A k \in closes : j < k /\ file[k].name = "loc" => k < i}
      BY <1>1, <1>9, <2>2, <2>4
    <3> QED BY <1>6, <1>11, <2>4, <3>1
  <2> QED BY <2>3, <2>4
<1>12. CASE t.kind \notin {"text", "close"}
  <2>1. /\ Tags!Of({"text"}, n + 1)' = texts
        /\ Tags!Of({"close"}, n + 1)' = closes
    BY <1>3, <1>12
  <2> QED BY <1>6, <1>7, <1>8, <1>9, <1>12, <2>1
<1> QED BY <1>10, <1>11, <1>12

\* The positions of the text of an element are finitely many.
LEMMA OwnIs ==
    ASSUME NEW n \in Nat
    PROVE  \A j : /\ Tags!Own(j, n) \in SUBSET (1 .. n) /\ IsFiniteSet(Tags!Own(j, n))
                  /\ Tags!Own(j, n) \in SUBSET Nat
<1> SUFFICES ASSUME NEW j
             PROVE  /\ Tags!Own(j, n) \in SUBSET (1 .. n) /\ IsFiniteSet(Tags!Own(j, n))
                    /\ Tags!Own(j, n) \in SUBSET Nat
  OBVIOUS
<1>1. Tags!Own(j, n) \in SUBSET (1 .. n)
  BY OfIs DEF Tags!Own
<1>2. IsFiniteSet(1 .. n)
  BY FS_Interval
<1>3. IsFiniteSet(Tags!Own(j, n))
  BY <1>1, <1>2, FS_Subset
<1> QED BY <1>1, <1>3

-----------------------------------------------------------------------------
(* Sitemap: the texts of its locations.                                     *)

\* The names of the tokens at some positions.
Named(P) == [m \in 1 .. Cardinality(P) |-> file[Nth(P, m)].name]

\* The names at finitely many positions are a sequence.
LEMMA NamedIs ==
    ASSUME Tags!SitemapAssumption, file \in Seq(Tokens),
           NEW P \in SUBSET (1 .. Len(file)), IsFiniteSet(P)
    PROVE  /\ Named(P) \in Seq(STRING) /\ Len(Named(P)) = Cardinality(P)
           /\ Cardinality(P) \in Nat
<1>1. Cardinality(P) \in Nat /\ Len(file) \in Nat
  BY FS_CardinalityType
<1>2. \A m \in 1 .. Cardinality(P) : Nth(P, m) \in 1 .. Len(file)
  <2>1. P \in SUBSET Nat
    BY <1>1
  <2> QED BY <2>1, NthIs
<1>3. \A i \in 1 .. Len(file) : file[i].name \in STRING
  <2>1. \A i \in 1 .. Len(file) : file[i] \in Tokens
    OBVIOUS
  <2> QED BY <2>1 DEF Tags!SitemapAssumption
<1>4. Named(P) \in [1 .. Cardinality(P) -> STRING]
  BY <1>2, <1>3 DEF Named
<1> QED BY <1>1, <1>4, SeqDef

\* A token more adds its own name at the end.
LEMMA NamedGrows ==
    ASSUME Tags!SitemapAssumption, NEW n, NEW t, Grown(n, t),
           NEW P \in SUBSET (1 .. n), IsFiniteSet(P)
    PROVE  /\ Named(P)' = Named(P)
           /\ Named(P \cup {n + 1})' = Append(Named(P), t.name)
<1>1. /\ n = Len(file) /\ n \in Nat /\ file \in Seq(Tokens) /\ file'[n + 1] = t
      /\ \A i \in 1 .. n : file'[i] = file[i]
      /\ t.name \in STRING
  BY DEF Grown, Tags!SitemapAssumption
<1> DEFINE c == Cardinality(P)
<1>2. P \in SUBSET Nat
  BY <1>1
<1>3. c \in Nat /\ Named(P) \in Seq(STRING) /\ Len(Named(P)) = c
  BY <1>1, NamedIs
<1>4. \A m \in 1 .. c : Nth(P, m) \in P
  BY <1>2, NthIs
<1>5. \A m \in 1 .. c : file'[Nth(P, m)] = file[Nth(P, m)]
  BY <1>1, <1>4
<1>6. Named(P)' = Named(P)
  BY <1>5 DEF Named
<1>7. /\ Cardinality(P \cup {n + 1}) = c + 1
      /\ \A m \in 1 .. c : Nth(P \cup {n + 1}, m) = Nth(P, m)
      /\ Nth(P \cup {n + 1}, c + 1) = n + 1
  <2>1. n + 1 \in Nat /\ \A i \in P : i < n + 1
    BY <1>1
  <2> HIDE DEF c
  <2>2. /\ Cardinality(P \cup {n + 1}) = Cardinality(P) + 1
        /\ \A m \in 1 .. Cardinality(P) : Nth(P \cup {n + 1}, m) = Nth(P, m)
        /\ Nth(P \cup {n + 1}, Cardinality(P) + 1) = n + 1
    BY <1>2, <2>1, NthLast
  <2> QED BY <2>2 DEF c
<1>8. Named(P \cup {n + 1})'
        = [m \in 1 .. c + 1 |-> file'[Nth(P \cup {n + 1}, m)].name]
  BY <1>7 DEF Named
<1>9. \A m \in 1 .. c : file'[Nth(P \cup {n + 1}, m)].name = Named(P)[m]
  BY <1>5, <1>7 DEF Named
<1> HIDE DEF c
<1>10. Named(P \cup {n + 1})'
         = [m \in 1 .. c + 1 |-> IF m = c + 1 THEN t.name ELSE Named(P)[m]]
  <2>1. \A m \in 1 .. c + 1 : m \in 1 .. c \/ m = c + 1
    BY <1>3
  <2>2. \A m \in 1 .. c + 1 : file'[Nth(P \cup {n + 1}, m)].name
                                = IF m = c + 1 THEN t.name ELSE Named(P)[m]
    BY <1>1, <1>3, <1>7, <1>9, <2>1
  <2> QED BY <1>8, <2>2
<1>11. Named(P \cup {n + 1})' = Append(Named(P), t.name)
  <2> DEFINE f == Named(P \cup {n + 1})'
             s == Named(P)
  <2>1. s \in Seq(STRING) /\ Len(s) = c
    BY <1>3
  <2>2. f = [m \in 1 .. c + 1 |-> IF m = c + 1 THEN t.name ELSE s[m]]
    BY <1>10
  <2> HIDE DEF f, s
  <2>3. f = Append(s, t.name)
    BY <1>1, <1>3, <2>1, <2>2, AppendIs
  <2> QED BY <2>3 DEF f, s
<1> QED BY <1>6, <1>11

\* The reference reads a location off the positions of its text.
LEMMA LocationIsNamed == \A i : Tags!LocationOf(i) = Named(Tags!Own(Tags!Opening(i), i - 1))
  BY SameOperators DEF Tags!LocationOf, Named

\* A location is a sequence of pieces of text.
LEMMA LocationType ==
    ASSUME Tags!SitemapAssumption, file \in Seq(Tokens)
    PROVE  \A i \in 1 .. Len(file) : Tags!LocationOf(i) \in Seq(STRING)
<1> SUFFICES ASSUME NEW i \in 1 .. Len(file) PROVE Tags!LocationOf(i) \in Seq(STRING)
  OBVIOUS
<1> DEFINE P == Tags!Own(Tags!Opening(i), i - 1)
<1>1. i - 1 \in Nat /\ 1 .. i - 1 \subseteq 1 .. Len(file)
  OBVIOUS
<1>2. P \in SUBSET (1 .. i - 1) /\ IsFiniteSet(P)
  BY <1>1, OwnIs
<1>3. Tags!LocationOf(i) = Named(P)
  BY LocationIsNamed
<1> HIDE DEF P
<1>4. P \in SUBSET (1 .. Len(file))
  BY <1>1, <1>2
<1> QED BY <1>2, <1>3, <1>4, NamedIs

\* The locations that have ended remain what they are.
LEMMA LocationKept ==
    ASSUME Tags!SitemapAssumption, NEW n, NEW t, Grown(n, t), NEW i \in 1 .. n,
           Tags!Opening(i) \in 1 .. i
    PROVE  Tags!LocationOf(i)' = Tags!LocationOf(i)
<1>1. n \in Nat
  BY DEF Grown
<1>2. Tags!Opening(i)' = Tags!Opening(i)
  BY <1>1, OpeningKept
<1> DEFINE j == Tags!Opening(i)
           P == Tags!Own(j, i - 1)
<1>3. j \in 0 .. n /\ i - 1 \in 0 .. n
  BY <1>1
<1>4. P \in SUBSET (1 .. n) /\ IsFiniteSet(P)
  <2>1. i - 1 \in Nat /\ 1 .. i - 1 \subseteq 1 .. n
    BY <1>1
  <2>2. P \in SUBSET (1 .. i - 1) /\ IsFiniteSet(P)
    BY <2>1, OwnIs
  <2> QED BY <2>1, <2>2
<1>5. \A k, m \in 0 .. n : Tags!Own(k, m)' = Tags!Own(k, m)
  BY OwnKept
<1>6. \A Q \in SUBSET (1 .. n) : IsFiniteSet(Q) => Named(Q)' = Named(Q)
  BY NamedGrows
<1>7. Tags!LocationOf(i) = Named(P)
  BY LocationIsNamed
<1>8. PICK a \in 0 .. n : a = j
  BY <1>3
<1>9. PICK Q \in SUBSET (1 .. n) : Q = P
  BY <1>4
<1>10. Tags!Own(a, i - 1)' = Q
  BY <1>3, <1>5, <1>8, <1>9
<1>11. Tags!LocationOf(i)' = Named(Q)'
  <2>1. Tags!Opening(i)' = a
    BY <1>2, <1>8
  <2> QED BY <1>10, <2>1, SameOperators DEF Tags!LocationOf, Named
<1> QED BY <1>4, <1>6, <1>7, <1>9, <1>11

\* The tag at j opened the innermost of the elements open at depth d.
Opened(j, d) ==
    /\ j \in Tags!Of({"open"}, Len(file)) /\ Tags!Depth(j) = d
    /\ \A k \in Tags!Of({"open"}, Len(file)) : Tags!Depth(k) = d => k <= j

\* A closing tag answers the tag that opened the innermost element.
LEMMA Answers ==
    ASSUME Tags!SitemapAssumption, NEW n, NEW t, Grown(n, t), t.kind = "close",
           NEW j, Opened(j, Tags!Depth(n))
    PROVE  Tags!Opening(n + 1)' = j /\ j \in 1 .. n
<1>1. n \in Nat /\ n = Len(file)
  BY DEF Grown
<1> DEFINE opens == Tags!Of({"open"}, n)
<1>2. opens \in SUBSET (1 .. n) /\ Tags!Of({"open"}, n + 1)' = opens
  <2>1. t.kind \notin {"open"}
    OBVIOUS
  <2>2. Tags!Of({"open"}, n + 1)' = opens
    BY <2>1, OfGrows
  <2> QED BY <1>1, <2>2, OfIs
<1>3. /\ \A k \in 1 .. n : Tags!Depth(k)' = Tags!Depth(k)
      /\ Tags!Depth(n + 1)' + 1 = Tags!Depth(n)
  <2>1. Tags!Depth(n) \in Int
    BY <1>1, OfIs
  <2>2. Tags!Depth(n + 1)' = Tags!Depth(n) - 1
    BY <2>1, DepthGrows
  <2>3. \A k \in 0 .. n : Tags!Depth(k)' = Tags!Depth(k)
    BY DepthGrows
  <2> QED BY <1>1, <2>1, <2>2, <2>3
<1>4. /\ j \in opens /\ Tags!Depth(j) = Tags!Depth(n)
      /\ \A k \in opens : Tags!Depth(k) = Tags!Depth(n) => k <= j
  BY <1>1 DEF Opened
<1> HIDE DEF opens
<1> DEFINE S == {k \in opens : Tags!Depth(k) = Tags!Depth(n)}
<1>5. {k \in Tags!Of({"open"}, n + 1)' : Tags!Depth(k)' = Tags!Depth(n + 1)' + 1} = S
  BY <1>2, <1>3
<1>6. S \in SUBSET Int /\ j \in S /\ \A k \in S : k <= j
  <2>1. \A k \in opens : k \in Int
    BY <1>1, <1>2
  <2>2. j \in S /\ \A k \in S : k <= j
    BY <1>4
  <2> QED BY <2>1, <2>2
<1>7. Tags!Max(S) = j
  <2> HIDE DEF S
  <2> QED BY <1>6, MaxIs
<1>8. Tags!Opening(n + 1)' = Tags!Max(S)
  BY <1>5 DEF Tags!Opening
<1> QED BY <1>2, <1>4, <1>7, <1>8

\* A close tag ends the location that was opened last, and is not of it.
LEMMA LocationEnds ==
    ASSUME Tags!SitemapAssumption, NEW n, NEW t, Grown(n, t), t.kind = "close",
           NEW j, Opened(j, Tags!Depth(n))
    PROVE  Tags!LocationOf(n + 1)' = Named(Tags!Own(j, n))
<1>1. n \in Nat /\ n = Len(file) /\ n + 1 - 1 = n
  BY DEF Grown
<1>2. Tags!Opening(n + 1)' = j /\ j \in 1 .. n
  BY Answers
<1>3. Tags!Own(j, n) \in SUBSET (1 .. n) /\ IsFiniteSet(Tags!Own(j, n))
  BY <1>1, OwnIs
<1>4. \A k, m \in 0 .. n : Tags!Own(k, m)' = Tags!Own(k, m)
  BY OwnKept
<1>5. \A Q \in SUBSET (1 .. n) : IsFiniteSet(Q) => Named(Q)' = Named(Q)
  BY NamedGrows
<1>6. PICK a \in 1 .. n : a = j
  BY <1>2
<1>7. PICK Q \in SUBSET (1 .. n) : Q = Tags!Own(j, n)
  BY <1>3
<1>8. Tags!Own(a, n)' = Q
  <2>1. a \in 0 .. n /\ n \in 0 .. n
    BY <1>1
  <2> QED BY <1>4, <1>6, <1>7, <2>1
<1>9. Tags!LocationOf(n + 1)' = Named(Q)'
  <2>1. Tags!Opening(n + 1)' = a
    BY <1>2, <1>6
  <2>2. PICK i \in Nat : i = n + 1 /\ i - 1 = n
    BY <1>1
  <2>3. Tags!Opening(i)' = a /\ Tags!Own(a, i - 1)' = Q
    BY <1>8, <2>1, <2>2
  <2>4. Tags!LocationOf(i)' = Named(Q)'
    BY <2>3, SameOperators DEF Tags!LocationOf, Named
  <2> QED BY <2>2, <2>4
<1> QED BY <1>3, <1>5, <1>7, <1>9

\* The locations of the text, one for each end of a loc element.
LEMMA LocationsType ==
    ASSUME Tags!SitemapAssumption, file \in Seq(Tokens)
    PROVE  /\ Tags!Ends \in SUBSET (1 .. Len(file)) /\ IsFiniteSet(Tags!Ends)
           /\ Cardinality(Tags!Ends) \in Nat
           /\ \A m \in 1 .. Cardinality(Tags!Ends) : Nth(Tags!Ends, m) \in Tags!Ends
           /\ Tags!Locations
                = [m \in 1 .. Cardinality(Tags!Ends) |-> Tags!LocationOf(Nth(Tags!Ends, m))]
           /\ Tags!Locations \in Seq(Seq(STRING))
           /\ Len(Tags!Locations) = Cardinality(Tags!Ends)
<1> DEFINE E == Tags!Ends
<1>1. Len(file) \in Nat
  OBVIOUS
<1>2. E \in SUBSET (1 .. Len(file)) /\ IsFiniteSet(E) /\ Cardinality(E) \in Nat
  <2>1. Tags!Of({"close"}, Len(file)) \in SUBSET (1 .. Len(file))
        /\ IsFiniteSet(Tags!Of({"close"}, Len(file)))
    BY <1>1, OfIs
  <2>2. E \in SUBSET Tags!Of({"close"}, Len(file))
    BY DEF Tags!Ends
  <2> HIDE DEF E
  <2> QED BY <2>1, <2>2, FS_Subset, FS_CardinalityType
<1>3. \A m \in 1 .. Cardinality(E) : Nth(E, m) \in E
  <2> HIDE DEF E
  <2>1. E \in SUBSET Nat
    BY <1>1, <1>2
  <2> QED BY <1>2, <2>1, NthIs
<1>4. Tags!Locations = [m \in 1 .. Cardinality(E) |-> Tags!LocationOf(Nth(E, m))]
  BY SameOperators DEF Tags!Locations
<1> HIDE DEF E
<1>5. \A m \in 1 .. Cardinality(E) : Tags!LocationOf(Nth(E, m)) \in Seq(STRING)
  BY <1>2, <1>3, LocationType
<1>6. Tags!Locations \in [1 .. Cardinality(E) -> Seq(STRING)]
  BY <1>4, <1>5
<1>7. Tags!Locations \in Seq(Seq(STRING)) /\ Len(Tags!Locations) = Cardinality(E)
  BY <1>2, <1>6, SeqDef
<1> QED BY <1>2, <1>3, <1>4, <1>7 DEF E

\* A location that ends, and is not empty, is added to those before it.
LEMMA LocationsGrow ==
    ASSUME Tags!SitemapAssumption, NEW n, NEW t, Grown(n, t),
           \A i \in Tags!Of({"close"}, n) : Tags!Opening(i) \in 1 .. i,
           t.kind = "close" => Tags!LocationOf(n + 1)' \in Seq(STRING)
    PROVE  IF t.kind = "close" /\ t.name = "loc" /\ Tags!LocationOf(n + 1)' # <<>>
           THEN Tags!Locations' = Append(Tags!Locations, Tags!LocationOf(n + 1)')
           ELSE Tags!Locations' = Tags!Locations
<1> DEFINE E == Tags!Ends
           F == E \cup {n + 1}
           c == Cardinality(E)
           last == Tags!LocationOf(n + 1)'
           added == t.kind = "close" /\ t.name = "loc" /\ last # <<>>
<1>1. /\ n \in Nat /\ n = Len(file) /\ file \in Seq(Tokens) /\ file' \in Seq(Tokens)
      /\ Len(file') = n + 1 /\ file'[n + 1] = t
      /\ \A i \in 1 .. n : file'[i] = file[i]
  BY DEF Grown
<1>2. /\ E \in SUBSET (1 .. n) /\ IsFiniteSet(E) /\ c \in Nat
      /\ \A m \in 1 .. c : Nth(E, m) \in E
      /\ Tags!Locations = [m \in 1 .. c |-> Tags!LocationOf(Nth(E, m))]
      /\ Tags!Locations \in Seq(Seq(STRING)) /\ Len(Tags!Locations) = c
  BY <1>1, LocationsType
<1>3. /\ Tags!Of({"close"}, n) \in SUBSET (1 .. n)
      /\ Tags!Of({"close"}, n + 1)' = IF t.kind = "close" THEN Tags!Of({"close"}, n) \cup {n + 1}
                                      ELSE Tags!Of({"close"}, n)
  <2>1. Tags!Of({"close"}, n) \in SUBSET (1 .. n)
    BY <1>1, OfIs
  <2>2. \A K : Tags!Of(K, n + 1)' = IF t.kind \in K THEN Tags!Of(K, n) \cup {n + 1}
                                    ELSE Tags!Of(K, n)
    BY OfGrows
  <2> QED BY <2>1, <2>2
<1>4. \A i \in Tags!Of({"close"}, n) : Tags!LocationOf(i)' = Tags!LocationOf(i)
  BY <1>3, LocationKept
<1>5. Tags!Ends' = IF added THEN F ELSE E
  <2>1. Tags!Ends' = {i \in Tags!Of({"close"}, n + 1)' :
                        file'[i].name = "loc" /\ Tags!LocationOf(i)' # <<>>}
    BY <1>1 DEF Tags!Ends
  <2>2. E = {i \in Tags!Of({"close"}, n) : file[i].name = "loc" /\ Tags!LocationOf(i) # <<>>}
    BY <1>1 DEF Tags!Ends
  <2>3. \A i \in Tags!Of({"close"}, n) : /\ file'[i] = file[i]
                                         /\ Tags!LocationOf(i)' = Tags!LocationOf(i)
    BY <1>1, <1>3, <1>4
  <2>4. {i \in Tags!Of({"close"}, n) : file'[i].name = "loc" /\ Tags!LocationOf(i)' # <<>>} = E
    BY <2>2, <2>3
  <2>5. CASE t.kind # "close"
    BY <1>3, <2>1, <2>4, <2>5
  <2>6. CASE t.kind = "close"
    <3>1. Tags!Of({"close"}, n + 1)' = Tags!Of({"close"}, n) \cup {n + 1}
      BY <1>3, <2>6
    <3>2. n + 1 \in Tags!Ends' <=> added
      BY <1>1, <2>1, <2>6, <3>1
    <3>3. \A i : i # n + 1 => (i \in Tags!Ends' <=> i \in E)
      BY <2>1, <2>4, <3>1
    <3>4. n + 1 \notin E
      BY <1>1, <1>2
    <3> HIDE DEF E, added
    <3> QED BY <3>2, <3>3, <3>4
  <2> QED BY <2>5, <2>6
<1>6. Tags!Locations'
        = [m \in 1 .. Cardinality(Tags!Ends') |-> Tags!LocationOf(Nth(Tags!Ends, m))']
  BY SameOperators DEF Tags!Locations
<1>7. \A i \in E : Tags!LocationOf(i)' = Tags!LocationOf(i)
  <2>1. E \subseteq Tags!Of({"close"}, n)
    BY <1>1 DEF Tags!Ends
  <2> QED BY <1>4, <2>1
<1>8. CASE ~ added
  <2>1. Tags!Ends' = E
    BY <1>5, <1>8
  <2>2. PICK Q : Q = E
    OBVIOUS
  <2>3. Tags!Locations' = [m \in 1 .. c |-> Tags!LocationOf(Nth(Q, m))']
    BY <1>6, <2>1, <2>2
  <2>4. \A m \in 1 .. c : Tags!LocationOf(Nth(Q, m))' = Tags!LocationOf(Nth(Q, m))
    BY <1>2, <1>7, <2>2
  <2>5. Tags!Locations' = Tags!Locations
    BY <1>2, <2>2, <2>3, <2>4
  <2> QED BY <1>8, <2>5
<1>9. CASE added
  <2>1. Tags!Ends' = F
    BY <1>5, <1>9
  <2>2. PICK Q : Q = F
    OBVIOUS
  <2>3. /\ Cardinality(F) = c + 1
        /\ \A m \in 1 .. c : Nth(F, m) = Nth(E, m)
        /\ Nth(F, c + 1) = n + 1
    <3>1. E \in SUBSET Nat /\ n + 1 \in Nat /\ \A i \in E : i < n + 1
      BY <1>1, <1>2
    <3>2. /\ Cardinality(E \cup {n + 1}) = Cardinality(E) + 1
          /\ \A m \in 1 .. Cardinality(E) : Nth(E \cup {n + 1}, m) = Nth(E, m)
          /\ Nth(E \cup {n + 1}, Cardinality(E) + 1) = n + 1
      <4> HIDE DEF E
      <4> QED BY <1>2, <3>1, NthLast
    <3> QED BY <3>2
  <2>4. Tags!Locations' = [m \in 1 .. c + 1 |-> Tags!LocationOf(Nth(Q, m))']
    BY <1>6, <2>1, <2>2, <2>3
  <2>5. \A m \in 1 .. c : Tags!LocationOf(Nth(Q, m))' = Tags!Locations[m]
    BY <1>2, <1>7, <2>2, <2>3
  <2>6. \A m : m = c + 1 => Tags!LocationOf(Nth(Q, m))' = last
    BY <2>2, <2>3
  <2> HIDE DEF E, F, c, last
  <2>7. Tags!Locations' = [m \in 1 .. c + 1 |-> IF m = c + 1 THEN last ELSE Tags!Locations[m]]
    <3>1. \A m \in 1 .. c + 1 : m \in 1 .. c \/ m = c + 1
      BY <1>2
    <3>2. \A m \in 1 .. c + 1 : Tags!LocationOf(Nth(Q, m))'
                                  = IF m = c + 1 THEN last ELSE Tags!Locations[m]
      BY <1>2, <2>5, <2>6, <3>1
    <3> QED BY <2>4, <3>2
  <2>8. last \in Seq(STRING)
    BY <1>9 DEF last
  <2>9. Tags!Locations' = Append(Tags!Locations, last)
    <3> DEFINE s == Tags!Locations
               f == Tags!Locations'
    <3>1. s \in Seq(Seq(STRING)) /\ Len(s) = c
      BY <1>2
    <3>2. f = [m \in 1 .. c + 1 |-> IF m = c + 1 THEN last ELSE s[m]]
      BY <2>7
    <3> HIDE DEF s, f
    <3>3. f = Append(s, last)
      BY <1>2, <2>8, <3>1, <3>2, AppendIs
    <3> QED BY <3>3 DEF s, f
  <2> QED BY <1>9, <2>9 DEF last
<1> QED BY <1>8, <1>9

-----------------------------------------------------------------------------
(* Sitemap: the elements of the file.                                       *)

\* An element begins with its open tag, or is empty.
Element(t) == t.kind \in {"open", "empty"}

\* The elements, when the text grows.
LEMMA ElementsGrow ==
    ASSUME NEW n, NEW t, Grown(n, t)
    PROVE  /\ \A i \in 0 .. n : Tags!Elements(i)' = Tags!Elements(i)
           /\ Tags!Elements(n) \in SUBSET (1 .. n) /\ IsFiniteSet(Tags!Elements(n))
           /\ Cardinality(Tags!Elements(n)) \in Nat
           /\ Tags!Elements(n + 1)' = IF Element(t) THEN Tags!Elements(n) \cup {n + 1}
                                      ELSE Tags!Elements(n)
           /\ Cardinality(Tags!Elements(n + 1)')
                = Cardinality(Tags!Elements(n)) + IF Element(t) THEN 1 ELSE 0
<1>1. n \in Nat
  BY DEF Grown
<1>2. \A i \in 0 .. n : Tags!Elements(i)' = Tags!Elements(i)
  BY OfGrows DEF Tags!Elements
<1>3. /\ Tags!Elements(n) \in SUBSET (1 .. n) /\ IsFiniteSet(Tags!Elements(n))
      /\ Cardinality(Tags!Elements(n)) \in Nat
  BY <1>1, OfIs DEF Tags!Elements
<1>4. Tags!Elements(n + 1)' = IF Element(t) THEN Tags!Elements(n) \cup {n + 1}
                              ELSE Tags!Elements(n)
  BY OfGrows DEF Tags!Elements, Element
<1>5. n + 1 \notin Tags!Elements(n)
  BY <1>1, <1>3
<1>6. Cardinality(Tags!Elements(n + 1)')
        = Cardinality(Tags!Elements(n)) + IF Element(t) THEN 1 ELSE 0
  <2>1. CASE Element(t)
    BY <1>3, <1>4, <1>5, <2>1, FS_AddElement
  <2>2. CASE ~ Element(t)
    BY <1>3, <1>4, <2>2
  <2> QED BY <2>1, <2>2
<1> QED BY <1>2, <1>3, <1>4, <1>6

\* A root is an element that begins when none is open.
LEMMA RootsGrow ==
    ASSUME NEW n, NEW t, Grown(n, t)
    PROVE  /\ Tags!Roots \in SUBSET (1 .. n) /\ IsFiniteSet(Tags!Roots)
           /\ Tags!Roots' = IF Element(t) /\ Tags!Depth(n) = 0 THEN Tags!Roots \cup {n + 1}
                            ELSE Tags!Roots
<1>1. n \in Nat /\ n = Len(file) /\ Len(file') = n + 1
  BY DEF Grown
<1> DEFINE E == Tags!Elements(n)
<1>2. /\ E \in SUBSET (1 .. n) /\ IsFiniteSet(E)
      /\ Tags!Elements(n + 1)' = IF Element(t) THEN E \cup {n + 1} ELSE E
  BY ElementsGrow
<1>3. \A i \in 1 .. n + 1 : Tags!Depth(i - 1)' = Tags!Depth(i - 1)
  <2>1. \A i \in 1 .. n + 1 : i - 1 \in 0 .. n
    BY <1>1
  <2> QED BY <2>1, DepthGrows
<1>4. Tags!Roots = {i \in E : Tags!Depth(i - 1) = 0}
  BY <1>1 DEF Tags!Roots
<1>5. Tags!Roots' = {i \in Tags!Elements(n + 1)' : Tags!Depth(i - 1)' = 0}
  BY <1>1 DEF Tags!Roots
<1> HIDE DEF E
<1>6. Tags!Roots \in SUBSET E
  BY <1>4
<1>7. Tags!Roots \in SUBSET (1 .. n) /\ IsFiniteSet(Tags!Roots)
  BY <1>2, <1>6, FS_Subset
<1>8. \A i \in E : Tags!Depth(i - 1)' = Tags!Depth(i - 1)
  BY <1>1, <1>2, <1>3
<1>9. {i \in E : Tags!Depth(i - 1)' = 0} = Tags!Roots
  BY <1>4, <1>8
<1>10. CASE ~ Element(t)
  <2>1. Tags!Elements(n + 1)' = E
    BY <1>2, <1>10
  <2>2. Tags!Roots' = Tags!Roots
    BY <1>5, <1>9, <2>1
  <2> QED BY <1>7, <1>10, <2>2
<1>11. CASE Element(t)
  <2>1. Tags!Roots' = {i \in E \cup {n + 1} : Tags!Depth(i - 1)' = 0}
    BY <1>2, <1>5, <1>11
  <2>2. \A i : i = n + 1 => (Tags!Depth(i - 1)' = 0 <=> Tags!Depth(n) = 0)
    <3> SUFFICES ASSUME NEW i, i = n + 1
                 PROVE  Tags!Depth(i - 1)' = 0 <=> Tags!Depth(n) = 0
      OBVIOUS
    <3>1. i \in 1 .. n + 1 /\ i - 1 = n
      BY <1>1
    <3> QED BY <1>3, <3>1
  <2>3. Tags!Roots' = Tags!Roots \cup IF Tags!Depth(n) = 0 THEN {n + 1} ELSE {}
    <3>1. \A i : i \in Tags!Roots' <=> i \in Tags!Roots \/ (i = n + 1 /\ Tags!Depth(n) = 0)
      <4> SUFFICES ASSUME NEW i
                   PROVE  i \in Tags!Roots' <=> i \in Tags!Roots \/ (i = n + 1 /\ Tags!Depth(n) = 0)
        OBVIOUS
      <4>1. i = n + 1 => (Tags!Depth(i - 1)' = 0 <=> Tags!Depth(n) = 0)
        BY <2>2
      <4>2. i \in Tags!Roots' <=> i \in E \cup {n + 1} /\ Tags!Depth(i - 1)' = 0
        BY <2>1
      <4>3. i \in Tags!Roots <=> i \in E /\ Tags!Depth(i - 1)' = 0
        BY <1>9
      <4> QED BY <4>1, <4>2, <4>3
    <3> QED BY <3>1
  <2> QED BY <1>7, <1>11, <2>3
<1> QED BY <1>7, <1>10, <1>11

\* The first element with a name stays the first, and if there is none it is
\* the element that comes.
LEMMA KindGrows ==
    ASSUME NEW n, NEW t, Grown(n, t)
    PROVE  \A K : Tags!KindIn(K)' <=>
                    \/ Tags!KindIn(K)
                    \/ /\ Element(t) /\ t.name \in K
                       /\ \A j \in Tags!Elements(n) : file[j].name = ""
<1> SUFFICES ASSUME NEW K
             PROVE  Tags!KindIn(K)' <=>
                      \/ Tags!KindIn(K)
                      \/ /\ Element(t) /\ t.name \in K
                         /\ \A j \in Tags!Elements(n) : file[j].name = ""
  OBVIOUS
<1>1. /\ n \in Nat /\ n = Len(file) /\ Len(file') = n + 1 /\ file'[n + 1] = t
      /\ \A i \in 1 .. n : file'[i] = file[i]
  BY DEF Grown
<1>2. \A i \in 0 .. n : Tags!Elements(i)' = Tags!Elements(i)
  BY ElementsGrow
<1>3. \A i \in 0 .. n : Tags!Elements(i) \in SUBSET (1 .. n)
  <2>1. \A i \in 0 .. n : i \in Nat /\ 1 .. i \subseteq 1 .. n
    BY <1>1
  <2> QED BY <2>1, OfIs DEF Tags!Elements
<1> DEFINE First(i) == file[i].name \in K /\ \A j \in Tags!Elements(i - 1) : file[j].name = ""
           FirstNow(i) == /\ file'[i].name \in K
                          /\ \A j \in Tags!Elements(i - 1)' : file'[j].name = ""
<1>4. Tags!KindIn(K) <=> \E i \in Tags!Elements(n) : First(i)
  BY <1>1 DEF Tags!KindIn
<1>5. Tags!KindIn(K)' <=> \E i \in Tags!Elements(n + 1)' : FirstNow(i)
  BY <1>1 DEF Tags!KindIn
<1>6. \A i \in 1 .. n : First(i) <=> FirstNow(i)
  <2> SUFFICES ASSUME NEW i \in 1 .. n PROVE First(i) <=> FirstNow(i)
    OBVIOUS
  <2>1. i - 1 \in 0 .. n
    BY <1>1
  <2>2. /\ Tags!Elements(i - 1)' = Tags!Elements(i - 1)
        /\ Tags!Elements(i - 1) \in SUBSET (1 .. n)
    BY <1>2, <1>3, <2>1
  <2>3. \A j \in Tags!Elements(i - 1) : file'[j] = file[j]
    BY <1>1, <2>2
  <2> QED BY <1>1, <2>2, <2>3
<1>7. \A i : i = n + 1 =>
        (FirstNow(i) <=> t.name \in K /\ \A j \in Tags!Elements(n) : file[j].name = "")
  <2> SUFFICES ASSUME NEW i, i = n + 1
               PROVE  FirstNow(i) <=> /\ t.name \in K
                                      /\ \A j \in Tags!Elements(n) : file[j].name = ""
    OBVIOUS
  <2>1. i - 1 = n /\ i - 1 \in 0 .. n
    BY <1>1
  <2>2. /\ Tags!Elements(i - 1)' = Tags!Elements(n)
        /\ Tags!Elements(n) \in SUBSET (1 .. n)
    BY <1>2, <1>3, <2>1
  <2>3. \A j \in Tags!Elements(n) : file'[j] = file[j]
    BY <1>1, <2>2
  <2> QED BY <1>1, <2>2, <2>3
<1>8. /\ Tags!Elements(n) \in SUBSET (1 .. n)
      /\ Tags!Elements(n + 1)' = IF Element(t) THEN Tags!Elements(n) \cup {n + 1}
                                 ELSE Tags!Elements(n)
  BY ElementsGrow
<1> HIDE DEF First, FirstNow
<1> QED BY <1>4, <1>5, <1>6, <1>7, <1>8

\* A token that opens an element is where it was opened, and the others remain.
LEMMA OpenedGrows ==
    ASSUME NEW n, NEW t, Grown(n, t)
    PROVE  /\ t.kind # "open" => \A j, d : Opened(j, d)' <=> Opened(j, d)
           /\ t.kind = "open" => \A j, d :
                Opened(j, d)' <=> IF d = Tags!Depth(n) + 1 THEN j = n + 1 ELSE Opened(j, d)
           /\ \A j, d : Opened(j, d) => j \in 1 .. n
<1>1. n \in Nat /\ n = Len(file) /\ Len(file') = n + 1
  BY DEF Grown
<1> DEFINE opens == Tags!Of({"open"}, n)
<1>2. opens \in SUBSET (1 .. n)
  BY <1>1, OfIs
<1>3. Tags!Of({"open"}, n + 1)' = IF t.kind = "open" THEN opens \cup {n + 1} ELSE opens
  <2>1. \A K : Tags!Of(K, n + 1)' = IF t.kind \in K THEN Tags!Of(K, n) \cup {n + 1}
                                    ELSE Tags!Of(K, n)
    BY OfGrows
  <2> QED BY <2>1
<1>4. \A j \in opens : Tags!Depth(j)' = Tags!Depth(j)
  BY <1>1, <1>2, DepthGrows
<1>5. t.kind = "open" => \A j : j = n + 1 => Tags!Depth(j)' = Tags!Depth(n) + 1
  BY DepthGrows
<1>6. \A j, d : Opened(j, d) <=> /\ j \in opens /\ Tags!Depth(j) = d
                                 /\ \A k \in opens : Tags!Depth(k) = d => k <= j
  BY <1>1 DEF Opened
<1>7. \A j, d : Opened(j, d)' <=>
        /\ j \in Tags!Of({"open"}, n + 1)' /\ Tags!Depth(j)' = d
        /\ \A k \in Tags!Of({"open"}, n + 1)' : Tags!Depth(k)' = d => k <= j
  BY <1>1 DEF Opened
<1> HIDE DEF opens
<1>8. CASE t.kind # "open"
  <2>1. Tags!Of({"open"}, n + 1)' = opens
    BY <1>3, <1>8
  <2> QED BY <1>2, <1>4, <1>6, <1>7, <1>8, <2>1
<1>9. CASE t.kind = "open"
  <2>1. Tags!Of({"open"}, n + 1)' = opens \cup {n + 1}
    BY <1>3, <1>9
  <2> SUFFICES ASSUME NEW j, NEW d
               PROVE  Opened(j, d)' <=> IF d = Tags!Depth(n) + 1 THEN j = n + 1 ELSE Opened(j, d)
    BY <1>2, <1>6, <1>9
  <2>2. \A k \in opens : k < n + 1 /\ k \in Int
    BY <1>1, <1>2
  <2>3. CASE d = Tags!Depth(n) + 1
    <3>1. j = n + 1 => Opened(j, d)'
      BY <1>1, <1>5, <1>7, <1>9, <2>1, <2>2, <2>3
    <3>2. Opened(j, d)' => j = n + 1
      <4> SUFFICES ASSUME Opened(j, d)' PROVE j = n + 1
        OBVIOUS
      <4>1. j \in opens \cup {n + 1} /\ n + 1 <= j
        BY <1>5, <1>7, <1>9, <2>1, <2>3
      <4> QED BY <1>1, <2>2, <4>1
    <3> QED BY <2>3, <3>1, <3>2
  <2>4. CASE d # Tags!Depth(n) + 1
    <3>1. \A k \in opens \cup {n + 1} : Tags!Depth(k)' = d <=> k \in opens /\ Tags!Depth(k) = d
      BY <1>4, <1>5, <1>9, <2>2, <2>4
    <3> QED BY <1>6, <1>7, <2>1, <2>4, <3>1
  <2> QED BY <2>3, <2>4
<1> QED BY <1>8, <1>9

-----------------------------------------------------------------------------
(* Sitemap: the inductive invariant.                                        *)

\* What the variables of the parser hold.
TagsTypes ==
    /\ file \in Seq(Tokens) /\ stack \in Seq(STRING)
    /\ rootClosed \in BOOLEAN /\ elements \in Nat /\ thrown \in BOOLEAN
    /\ locationText \in Seq(STRING) /\ locations \in Seq(Seq(STRING))

\* The stack holds the names of the elements that are open, outermost first.
Nested ==
    /\ Tags!Depth(Len(file)) = Len(stack)
    /\ \A d \in 1 .. Len(stack) : \E j \in 1 .. Len(file) : Opened(j, d) /\ file[j].name = stack[d]

\* Nothing read so far is wrong whatever follows.
Sound ==
    /\ \A i \in 0 .. Len(file) : Tags!Depth(i) \in 0 .. MaxStack
    /\ \A i \in Tags!Of({"close"}, Len(file)) :
         Tags!Opening(i) \in 1 .. i /\ file[Tags!Opening(i)].name = file[i].name
    /\ \A i \in Tags!Of({"text"}, Len(file)) : Tags!Depth(i) > 0
    /\ Tags!Of({"malformed"}, Len(file)) = {}
    /\ elements = Cardinality(Tags!Elements(Len(file))) /\ elements <= MaxElements

\* There is one root at most, and the parser knows whether it has ended and
\* which name comes first.
OneRoot ==
    /\ Tags!Roots = {} => stack = <<>> /\ ~ rootClosed /\ Tags!Elements(Len(file)) = {}
    /\ Tags!Roots # {} => Cardinality(Tags!Roots) = 1 /\ (rootClosed <=> stack = <<>>)
    /\ root = "" => \A i \in Tags!Elements(Len(file)) : file[i].name = ""
    /\ root # "" => \A K : "" \notin K => (Tags!KindIn(K) <=> root \in K)

\* The locations that have ended are read; the text at hand is that of the
\* innermost location that is open.
Reading ==
    /\ locations = Tags!Locations /\ Len(locations) <= MaxLocations
    /\ \A d \in 1 .. Len(stack) : \A j \in 1 .. Len(file) :
         /\ Opened(j, d) /\ stack[d] = "loc"
         /\ \A e \in 1 .. Len(stack) : stack[e] = "loc" => e <= d
         => locationText = Named(Tags!Own(j, Len(file)))

\* The parser has thrown for a file that is none, whatever follows.
Rejected == ~ (Tags!WellFormed /\ Len(Tags!Locations) <= MaxLocations)

\* The parser holds what the text says so far, or has thrown and is right to.
TagsInv ==
    /\ TagsTypes
    /\ IF thrown THEN Rejected ELSE Nested /\ Sound /\ OneRoot /\ Reading

\* What is known when a token is read.
Accepting(n, t) ==
    /\ Grown(n, t) /\ t.kind \in {"open", "empty", "close", "text", "blank", "malformed"}
    /\ t.name \in STRING
    /\ Tags!SitemapAssumption /\ TagsTypes /\ ~ thrown /\ Nested /\ Sound /\ OneRoot /\ Reading
    /\ Tags!Depth(n) = Len(stack) /\ Len(stack) \in Nat
    /\ Tags!Name = t.name /\ Tags!Last(file') = t /\ file' \in Seq(Tokens)

\* A token that is right where it stands leaves nothing wrong.
LEMMA SoundGrows ==
    ASSUME NEW n, NEW t, Grown(n, t), Sound, t.kind # "malformed",
           Tags!Depth(n + 1)' \in 0 .. MaxStack,
           t.kind = "text" => Tags!Depth(n) > 0,
           t.kind = "close" => \E j \in 1 .. n : Tags!Opening(n + 1)' = j /\ file[j].name = t.name,
           elements' = elements + (IF Element(t) THEN 1 ELSE 0), elements' <= MaxElements
    PROVE  Sound'
<1>1. /\ n \in Nat /\ n = Len(file) /\ Len(file') = n + 1 /\ file'[n + 1] = t
      /\ \A i \in 1 .. n : file'[i] = file[i]
      /\ \A i \in 0 .. n + 1 : i \in 0 .. n \/ i = n + 1
  BY DEF Grown
<1>2. \A K : Tags!Of(K, n + 1)' = IF t.kind \in K THEN Tags!Of(K, n) \cup {n + 1}
                                  ELSE Tags!Of(K, n)
  BY OfGrows
<1>3. \A K : Tags!Of(K, n) \in SUBSET (1 .. n)
  BY <1>1, OfIs
<1>4. \A i \in 1 .. n : Tags!Depth(i)' = Tags!Depth(i) /\ Tags!Opening(i)' = Tags!Opening(i)
  BY <1>1, DepthGrows, OpeningKept
<1>5. \A i \in 0 .. n + 1 : Tags!Depth(i)' \in 0 .. MaxStack
  BY <1>1, DepthGrows DEF Sound
<1>6. \A i \in Tags!Of({"close"}, n + 1)' :
        Tags!Opening(i)' \in 1 .. i /\ file'[Tags!Opening(i)'].name = file'[i].name
  <2> SUFFICES ASSUME NEW i \in Tags!Of({"close"}, n + 1)'
               PROVE  Tags!Opening(i)' \in 1 .. i /\ file'[Tags!Opening(i)'].name = file'[i].name
    OBVIOUS
  <2>1. CASE i \in Tags!Of({"close"}, n)
    <3>1. i \in 1 .. n /\ Tags!Opening(i)' = Tags!Opening(i)
      BY <1>3, <1>4, <2>1
    <3>2. Tags!Opening(i) \in 1 .. i /\ file[Tags!Opening(i)].name = file[i].name
      BY <1>1, <2>1 DEF Sound
    <3>3. Tags!Opening(i) \in 1 .. n
      BY <1>1, <3>1, <3>2
    <3> QED BY <1>1, <3>1, <3>2, <3>3
  <2>2. CASE i \notin Tags!Of({"close"}, n)
    <3>1. i = n + 1 /\ t.kind = "close"
      BY <1>2, <2>2
    <3>2. PICK j \in 1 .. n : Tags!Opening(n + 1)' = j /\ file[j].name = t.name
      BY <3>1
    <3>3. Tags!Opening(i)' = j
      BY <3>1, <3>2
    <3> QED BY <1>1, <3>1, <3>2, <3>3
  <2> QED BY <2>1, <2>2
<1>7. \A i \in Tags!Of({"text"}, n + 1)' : Tags!Depth(i)' > 0
  <2> SUFFICES ASSUME NEW i \in Tags!Of({"text"}, n + 1)' PROVE Tags!Depth(i)' > 0
    OBVIOUS
  <2>1. CASE i \in Tags!Of({"text"}, n)
    BY <1>1, <1>3, <1>4, <2>1 DEF Sound
  <2>2. CASE i \notin Tags!Of({"text"}, n)
    <3>1. i = n + 1 /\ t.kind = "text"
      BY <1>2, <2>2
    <3>2. Tags!Depth(n + 1)' = Tags!Depth(n)
      <4>1. Tags!Depth(n + 1)' = Tags!Depth(n) + 0
        BY <1>1, <3>1, DepthGrows
      <4>2. Tags!Depth(n) \in Int
        BY <1>1, OfIs
      <4> QED BY <4>1, <4>2
    <3>3. Tags!Depth(i)' = Tags!Depth(n)
      BY <3>1, <3>2
    <3> QED BY <3>1, <3>3
  <2> QED BY <2>1, <2>2
<1>8. Tags!Of({"malformed"}, n + 1)' = {}
  BY <1>1, <1>2 DEF Sound
<1>9. elements' = Cardinality(Tags!Elements(n + 1)') /\ elements' <= MaxElements
  BY <1>1, ElementsGrow DEF Sound
<1> QED BY <1>1, <1>5, <1>6, <1>7, <1>8, <1>9 DEF Sound

\* A file in which something is wrong for good.
LEMMA Wrong ==
    ASSUME Tags!SitemapAssumption, NEW n, NEW t, Grown(n, t),
           \/ t.kind = "malformed"
           \/ t.kind = "text" /\ Tags!Depth(n) = 0
           \/ Tags!Depth(n + 1)' \notin 0 .. MaxStack
           \/ /\ t.kind = "close"
              /\ \E j \in 1 .. n : Tags!Opening(n + 1)' = j /\ file[j].name # t.name
           \/ Cardinality(Tags!Elements(n + 1)') > MaxElements
           \/ Cardinality(Tags!Roots') # 1
           \/ Len(Tags!Locations') > MaxLocations
    PROVE  Rejected'
<1> SUFFICES ASSUME Tags!WellFormed', Len(Tags!Locations)' <= MaxLocations PROVE FALSE
  BY DEF Rejected
<1>1. /\ n \in Nat /\ n = Len(file) /\ Len(file') = n + 1 /\ file'[n + 1] = t
      /\ \A i \in 1 .. n : file'[i] = file[i]
  BY DEF Grown
<1>2. /\ \A i \in 1 .. n + 1 : Tags!Depth(i)' \in 0 .. MaxStack
      /\ Cardinality(Tags!Roots') = 1
      /\ \A i \in Tags!Of({"close"}, n + 1)' : file'[Tags!Opening(i)'].name = file'[i].name
      /\ \A i \in Tags!Of({"text"}, n + 1)' : Tags!Depth(i)' > 0
      /\ Tags!Of({"malformed"}, n + 1)' = {}
      /\ Cardinality(Tags!Elements(n + 1)') <= MaxElements
  <2>1. /\ \A i \in 1 .. Len(file') : Tags!Depth(i)' \in 0 .. MaxStack
        /\ Tags!Cardinality(Tags!Roots') = 1
        /\ \A i \in Tags!Of({"close"}, Len(file))' :
             file'[Tags!Opening(i)'].name = file'[i].name
        /\ \A i \in Tags!Of({"text"}, Len(file))' : Tags!Depth(i)' > 0
        /\ Tags!Of({"malformed"}, Len(file))' = {}
        /\ Tags!Cardinality(Tags!Elements(Len(file))') <= MaxElements
    BY DEF Tags!WellFormed
  <2>2. \A K : Tags!Of(K, Len(file))' = Tags!Of(K, n + 1)'
    BY <1>1 DEF Tags!Of
  <2>3. Tags!Elements(Len(file))' = Tags!Elements(n + 1)'
    BY <2>2 DEF Tags!Elements
  <2> QED BY <1>1, <2>1, <2>2, <2>3, SameOperators
<1>3. \A K : t.kind \in K => \A i : i = n + 1 => i \in Tags!Of(K, n + 1)'
  BY OfGrows
<1>4. t.kind # "malformed"
  BY <1>2, <1>3
<1>5. ~ (t.kind = "text" /\ Tags!Depth(n) = 0)
  <2> SUFFICES ASSUME t.kind = "text", Tags!Depth(n) = 0 PROVE FALSE
    OBVIOUS
  <2>1. \A i : i = n + 1 => Tags!Depth(i)' = 0
    BY DepthGrows
  <2> QED BY <1>2, <1>3, <2>1
<1>6. Tags!Depth(n + 1)' \in 0 .. MaxStack
  BY <1>1, <1>2
<1>7. ~ (/\ t.kind = "close"
         /\ \E j \in 1 .. n : Tags!Opening(n + 1)' = j /\ file[j].name # t.name)
  <2> SUFFICES ASSUME t.kind = "close", NEW j \in 1 .. n, Tags!Opening(n + 1)' = j,
                      file[j].name # t.name
               PROVE  FALSE
    OBVIOUS
  <2>1. \A i : i = n + 1 => /\ i \in Tags!Of({"close"}, n + 1)' /\ file'[i] = t
                            /\ Tags!Opening(i)' = j
    BY <1>1, <1>3
  <2> QED BY <1>1, <1>2, <2>1
<1>8. Cardinality(Tags!Elements(n + 1)') \in Nat /\ MaxElements \in Nat
  <2>1. MaxElements \in Nat
    BY DEF Tags!SitemapAssumption
  <2>2. /\ Cardinality(Tags!Elements(n)) \in Nat
        /\ Cardinality(Tags!Elements(n + 1)')
             = Cardinality(Tags!Elements(n)) + IF Element(t) THEN 1 ELSE 0
    BY ElementsGrow
  <2> QED BY <2>1, <2>2
<1>9. ~ (Len(Tags!Locations') > MaxLocations)
  BY DEF Tags!SitemapAssumption
<1> QED BY <1>2, <1>4, <1>5, <1>6, <1>7, <1>8, <1>9

\* Every step of a parser that has not thrown reads a token more.
LEMMA TokenAccepted ==
    ASSUME Tags!SitemapAssumption, TagsInv, NEW K, Tags!Token(K)
    PROVE  \E n \in Nat, t \in Tokens : Accepting(n, t) /\ t.kind \in K
<1>1. file \in Seq(Tokens) /\ TagsTypes /\ ~ thrown
  BY DEF TagsInv, TagsTypes, Tags!Token
<1>2. PICK n \in Nat, t \in Tokens : Grown(n, t) /\ t.kind \in K /\ Tags!Last(file') = t
  BY <1>1, TokenGrows
<1>3. t.kind \in {"open", "empty", "close", "text", "blank", "malformed"} /\ t.name \in STRING
  BY DEF Tags!SitemapAssumption
<1>4. Nested /\ Sound /\ OneRoot /\ Reading
  BY <1>1 DEF TagsInv
<1>5. Tags!Depth(n) = Len(stack) /\ Len(stack) \in Nat
  BY <1>1, <1>2, <1>4 DEF Nested, Grown, TagsTypes
<1>6. Tags!Name = t.name /\ file' \in Seq(Tokens)
  BY <1>2 DEF Tags!Name, Grown
<1> QED BY <1>1, <1>2, <1>3, <1>4, <1>5, <1>6 DEF Accepting

\* A token that opens and closes nothing leaves the tree as it is.
LEMMA NestedStays ==
    ASSUME NEW n, NEW t, Accepting(n, t), t.kind \notin {"open", "close"}, stack' = stack
    PROVE  Nested' /\ Tags!Depth(n + 1)' = Len(stack)
<1>1. /\ n \in Nat /\ n = Len(file) /\ Len(file') = n + 1 /\ Grown(n, t)
      /\ \A i \in 1 .. n : file'[i] = file[i]
      /\ Tags!Depth(n) = Len(stack) /\ Len(stack) \in Nat
  BY DEF Accepting, Grown
<1>2. Tags!Depth(n + 1)' = Len(stack)
  BY <1>1, DepthGrows
<1>3. \A j, d : Opened(j, d)' <=> Opened(j, d)
  BY <1>1, OpenedGrows
<1>4. \A d \in 1 .. Len(stack) : \E j \in 1 .. n : Opened(j, d) /\ file[j].name = stack[d]
  BY <1>1 DEF Accepting, Nested
<1>5. \A d \in 1 .. Len(stack) :
        \E j \in 1 .. n + 1 : Opened(j, d)' /\ file'[j].name = stack[d]
  <2>1. \A j \in 1 .. n : j \in 1 .. n + 1
    BY <1>1
  <2> QED BY <1>1, <1>3, <1>4, <2>1
<1> QED BY <1>1, <1>2, <1>5 DEF Nested

\* A token that begins no element leaves the root as it was.
LEMMA OneRootStays ==
    ASSUME NEW n, NEW t, Accepting(n, t), ~ Element(t), root' = root,
           \/ stack' = stack /\ rootClosed' = rootClosed
           \/ stack # <<>> /\ rootClosed' = (rootClosed \/ stack' = <<>>)
    PROVE  OneRoot'
<1>1. /\ n \in Nat /\ n = Len(file) /\ Len(file') = n + 1 /\ Grown(n, t)
      /\ \A i \in 1 .. n : file'[i] = file[i]
      /\ OneRoot
  BY DEF Accepting, Grown
<1>2. /\ Tags!Roots' = Tags!Roots /\ Tags!Elements(n + 1)' = Tags!Elements(n)
      /\ \A K : Tags!KindIn(K)' <=> Tags!KindIn(K)
  <2>1. Tags!Roots' = Tags!Roots
    BY <1>1, RootsGrow
  <2>2. Tags!Elements(n + 1)' = Tags!Elements(n)
    BY <1>1, ElementsGrow
  <2>3. \A K : Tags!KindIn(K)' <=> Tags!KindIn(K)
    BY <1>1, KindGrows
  <2> QED BY <2>1, <2>2, <2>3
<1>3. Tags!Roots = {} => stack' = <<>> /\ ~ rootClosed' /\ Tags!Elements(n) = {}
  BY <1>1 DEF OneRoot
<1>4. Tags!Roots # {} => Cardinality(Tags!Roots) = 1 /\ (rootClosed' <=> stack' = <<>>)
  BY <1>1 DEF OneRoot
<1>5. root = "" => \A i \in Tags!Elements(n) : file'[i].name = ""
  <2>1. \A i \in Tags!Elements(n) : file'[i] = file[i]
    BY <1>1, ElementsGrow
  <2> QED BY <1>1, <2>1 DEF OneRoot
<1>6. root # "" => \A K : "" \notin K => (Tags!KindIn(K)' <=> root \in K)
  BY <1>1, <1>2 DEF OneRoot
<1> QED BY <1>1, <1>2, <1>3, <1>4, <1>5, <1>6 DEF OneRoot

\* What an open location contains, after one more token.
LEMMA OwnNow ==
    ASSUME NEW n, NEW t, Accepting(n, t), NEW j \in 1 .. n
    PROVE  /\ t.kind = "text" /\ Tags!Depth(j) = Len(stack) =>
                Named(Tags!Own(j, Len(file)))' = Append(Named(Tags!Own(j, n)), t.name)
           /\ t.kind = "close" /\ t.name = "loc" => Named(Tags!Own(j, Len(file)))' = <<>>
           /\ \/ t.kind \notin {"text", "close"}
              \/ t.kind = "close" /\ t.name # "loc"
              \/ t.kind = "text" /\ Tags!Depth(j) # Len(stack)
              => Named(Tags!Own(j, Len(file)))' = Named(Tags!Own(j, n))
<1>1. /\ n \in Nat /\ n = Len(file) /\ Len(file') = n + 1 /\ Grown(n, t)
      /\ Tags!Depth(n) = Len(stack) /\ Tags!SitemapAssumption
  BY DEF Accepting, Grown
<1>2. PICK P : P = Tags!Own(j, n)
  OBVIOUS
<1>3. P \in SUBSET (1 .. n) /\ IsFiniteSet(P)
  BY <1>1, <1>2, OwnIs
<1>4. /\ Named(P)' = Named(P)
      /\ Named(P \cup {n + 1})' = Append(Named(P), t.name)
  BY <1>1, <1>3, NamedGrows
<1>5. Tags!Own(j, n + 1)' =
        IF t.kind = "text" /\ Tags!Depth(j) = Len(stack) THEN P \cup {n + 1}
        ELSE IF t.kind = "close" /\ t.name = "loc" THEN {} ELSE P
  <2>1. Tags!Own(j, n + 1)' =
          IF t.kind = "text" /\ Tags!Depth(j) = Tags!Depth(n) THEN Tags!Own(j, n) \cup {n + 1}
          ELSE IF t.kind = "close" /\ t.name = "loc" THEN {} ELSE Tags!Own(j, n)
    BY <1>1, OwnGrows
  <2> QED BY <1>1, <1>2, <2>1
<1>6. PICK Q : Q = Tags!Own(j, n + 1)'
  OBVIOUS
<1>7. Named(Tags!Own(j, Len(file)))' = Named(Q)'
  BY <1>1, <1>6 DEF Named
<1>8. \A R : R = {} => Named(R)' = <<>>
  <2>1. \A R : R = {} => Cardinality(R) = 0
    BY FS_EmptySet
  <2>2. \A f, c : c = 0 => [m \in 1 .. c |-> f[m]] = <<>>
    OBVIOUS
  <2> QED BY <2>1 DEF Named
<1>9. CASE t.kind = "text" /\ Tags!Depth(j) = Len(stack)
  <2>1. Q = P \cup {n + 1}
    BY <1>5, <1>6, <1>9
  <2>2. \A R : R = P \cup {n + 1} => Named(R)' = Append(Named(P), t.name)
    BY <1>4
  <2> QED BY <1>2, <1>7, <1>9, <2>1, <2>2
<1>10. CASE t.kind = "close" /\ t.name = "loc"
  BY <1>5, <1>6, <1>7, <1>8, <1>10
<1>11. CASE ~ (t.kind = "text" /\ Tags!Depth(j) = Len(stack)) /\ ~ (t.kind = "close" /\ t.name = "loc")
  <2>1. Q = P
    BY <1>5, <1>6, <1>11
  <2>2. \A R : R = P => Named(R)' = Named(P)
    BY <1>4
  <2> QED BY <1>2, <1>7, <1>11, <2>1, <2>2
<1> QED BY <1>9, <1>10, <1>11

\* A token that is no tag adds its text to an innermost open location.
LEMMA ReadingStays ==
    ASSUME NEW n, NEW t, Accepting(n, t), t.kind \notin {"open", "close"},
           stack' = stack, locations' = locations,
           locationText' = IF Tags!Top = "loc" /\ t.kind = "text"
                           THEN Append(locationText, t.name) ELSE locationText
    PROVE  Reading'
<1>1. /\ n \in Nat /\ n = Len(file) /\ Len(file') = n + 1 /\ Grown(n, t)
      /\ Len(stack) \in Nat /\ Tags!SitemapAssumption /\ Reading
      /\ stack \in Seq(STRING)
  BY DEF Accepting, Grown, TagsTypes
<1>2. Tags!Locations' = Tags!Locations
  <2>1. \A i \in Tags!Of({"close"}, n) : Tags!Opening(i) \in 1 .. i
    BY <1>1 DEF Accepting, Sound
  <2> QED BY <1>1, <2>1, LocationsGrow
<1>3. \A j, d : (Opened(j, d)' <=> Opened(j, d)) /\ (Opened(j, d) => j \in 1 .. n)
  BY <1>1, OpenedGrows
<1>4. ASSUME NEW d \in 1 .. Len(stack), NEW j, Opened(j, d), stack[d] = "loc",
             \A e \in 1 .. Len(stack) : stack[e] = "loc" => e <= d
      PROVE  locationText' = Named(Tags!Own(j, Len(file)))'
  <2>1. j \in 1 .. n /\ Tags!Depth(j) = d
    BY <1>3, <1>4 DEF Opened
  <2>2. locationText = Named(Tags!Own(j, n))
    BY <1>1, <1>4, <2>1 DEF Reading
  <2>3. Tags!Top = "loc" <=> d = Len(stack)
    <3>1. stack # <<>> /\ Tags!Top = stack[Len(stack)]
      <4>1. Len(stack) # 0
        BY <1>1
      <4>2. stack # <<>>
        BY <4>1, EmptySeq
      <4> QED BY <4>2 DEF Tags!Top, Tags!Last
    <3>2. Len(stack) \in 1 .. Len(stack)
      BY <1>1
    <3> QED BY <1>1, <1>4, <3>1, <3>2
  <2>4. CASE t.kind = "text" /\ d = Len(stack)
    BY <2>1, <2>2, <2>3, <2>4, OwnNow
  <2>5. CASE ~ (t.kind = "text" /\ d = Len(stack))
    BY <2>1, <2>2, <2>3, <2>5, OwnNow
  <2> QED BY <2>4, <2>5
<1>5. \A d \in 1 .. Len(stack) : \A j \in 1 .. n + 1 :
        /\ Opened(j, d)' /\ stack[d] = "loc"
        /\ \A e \in 1 .. Len(stack) : stack[e] = "loc" => e <= d
        => locationText' = Named(Tags!Own(j, Len(file)))'
  BY <1>3, <1>4
<1>6. locations' = Tags!Locations' /\ Len(locations') <= MaxLocations
  BY <1>1, <1>2 DEF Reading
<1> QED BY <1>1, <1>5, <1>6 DEF Reading

\* The parser throws at a malformed tag.
LEMMA MalformedStep == ASSUME Tags!SitemapAssumption, TagsInv, Tags!ReadMalformed PROVE TagsInv'
<1>1. Tags!Token({"malformed"}) /\ Tags!Throw
  BY DEF Tags!ReadMalformed
<1>2. PICK n \in Nat, t \in Tokens : Accepting(n, t) /\ t.kind = "malformed"
  BY <1>1, TokenAccepted
<1>3. Rejected'
  BY <1>2, Wrong DEF Accepting
<1>4. TagsTypes'
  BY <1>1, <1>2 DEF Accepting, TagsTypes, Tags!Throw, Tags!tree
<1> QED BY <1>1, <1>3, <1>4 DEF TagsInv, Tags!Throw

\* Text is kept inside a location and an error outside every element.
LEMMA TextStep == ASSUME Tags!SitemapAssumption, TagsInv, Tags!ReadText PROVE TagsInv'
<1>1. PICK n \in Nat, t \in Tokens : Accepting(n, t) /\ t.kind \in {"text", "blank"}
  BY TokenAccepted DEF Tags!ReadText
<1>2. /\ Grown(n, t) /\ Tags!Last(file') = t /\ Tags!Name = t.name /\ TagsTypes /\ Sound
      /\ Tags!Depth(n) = Len(stack) /\ Len(stack) \in Nat /\ ~ thrown /\ t.name \in STRING
      /\ n = Len(file) /\ file' \in Seq(Tokens) /\ Tags!SitemapAssumption
  BY <1>1 DEF Accepting, Grown
<1>3. CASE stack = <<>> /\ t.kind = "text"
  <2>1. Tags!Throw
    BY <1>2, <1>3 DEF Tags!ReadText
  <2>2. Rejected'
    BY <1>2, <1>3, Wrong, EmptySeq
  <2>3. TagsTypes'
    BY <1>2, <2>1 DEF TagsTypes, Tags!Throw, Tags!tree
  <2> QED BY <2>1, <2>2, <2>3 DEF TagsInv, Tags!Throw
<1>4. CASE ~ (stack = <<>> /\ t.kind = "text")
  <2>1. /\ locationText' = IF Tags!Top = "loc" /\ t.kind = "text"
                           THEN Append(locationText, t.name) ELSE locationText
        /\ stack' = stack /\ root' = root /\ rootClosed' = rootClosed /\ elements' = elements
        /\ locations' = locations /\ thrown' = thrown
    BY <1>2, <1>4 DEF Tags!ReadText, Tags!tree
  <2>2. Nested' /\ Tags!Depth(n + 1)' = Len(stack)
    BY <1>1, <2>1, NestedStays
  <2>3. Sound'
    <3>1. Len(stack) \in 0 .. MaxStack
      BY <1>2 DEF Sound
    <3>2. t.kind = "text" => Len(stack) > 0
      BY <1>2, <1>4, EmptySeq DEF TagsTypes
    <3>3. elements \in Nat /\ elements <= MaxElements
      BY <1>2 DEF Sound, TagsTypes
    <3>4. ~ Element(t) /\ t.kind # "malformed" /\ t.kind # "close"
      BY <1>1 DEF Element
    <3>5. elements' = elements + 0 /\ elements' <= MaxElements
      BY <2>1, <3>3
    <3> QED BY <1>2, <2>2, <3>1, <3>2, <3>4, <3>5, SoundGrows
  <2>4. OneRoot'
    BY <1>1, <2>1, OneRootStays DEF Element
  <2>5. Reading'
    BY <1>1, <2>1, ReadingStays
  <2>6. TagsTypes'
    <3>1. locationText' \in Seq(STRING)
      BY <1>2, <2>1, AppendProperties DEF TagsTypes
    <3> QED BY <1>2, <2>1, <3>1 DEF TagsTypes
  <2> QED BY <1>2, <2>1, <2>2, <2>3, <2>4, <2>5, <2>6 DEF TagsInv
<1> QED BY <1>3, <1>4

\* The element that is open at a depth, and the tag that opened it.
LEMMA OpenElement ==
    ASSUME NEW n, NEW t, Accepting(n, t), NEW d \in 1 .. Len(stack)
    PROVE  \E j \in 1 .. n : Opened(j, d) /\ file[j].name = stack[d]
  BY DEF Accepting, Nested, Grown

\* A close tag takes the innermost name off the stack.
LEMMA CloseNested ==
    ASSUME NEW n, NEW t, Accepting(n, t), t.kind = "close", stack # <<>>,
           stack' = Tags!Front(stack)
    PROVE  /\ Nested' /\ Tags!Depth(n + 1)' = Len(stack) - 1
           /\ Len(stack') = Len(stack) - 1 /\ stack' \in Seq(STRING)
           /\ \A d \in 1 .. Len(stack) - 1 : stack'[d] = stack[d]
           /\ Len(stack) \in 1 .. Len(stack)
<1>1. /\ n \in Nat /\ n = Len(file) /\ Len(file') = n + 1 /\ Grown(n, t)
      /\ \A i \in 1 .. n : file'[i] = file[i]
      /\ Tags!Depth(n) = Len(stack) /\ Len(stack) \in Nat /\ stack \in Seq(STRING)
  BY DEF Accepting, Grown, TagsTypes
<1>2. Len(stack) \in Nat \ {0}
  BY <1>1, EmptySeq
<1>3. Tags!Depth(n + 1)' = Len(stack) - 1
  BY <1>1, DepthGrows
<1>4. /\ Len(stack') = Len(stack) - 1 /\ stack' \in Seq(STRING)
      /\ \A d \in 1 .. Len(stack) - 1 : stack'[d] = stack[d]
  <2>1. stack' = SubSeq(stack, 1, Len(stack) - 1)
    BY DEF Tags!Front
  <2>2. \A d \in 1 .. Len(stack) - 1 : stack[d] \in STRING
    BY <1>1, <1>2, ElementOfSeq
  <2> DEFINE m == Len(stack) - 1
  <2>3. m \in Nat
    BY <1>2
  <2> HIDE DEF m
  <2>4. \A d \in 1 .. m : stack[d] \in STRING
    BY <2>2 DEF m
  <2>5. /\ SubSeq(stack, 1, m) \in Seq(STRING)
        /\ Len(SubSeq(stack, 1, m)) = IF 1 <= m THEN m - 1 + 1 ELSE 0
        /\ \A i \in 1 .. m - 1 + 1 : SubSeq(stack, 1, m)[i] = stack[1 + i - 1]
    BY <2>3, <2>4, SubSeqProperties
  <2>6. /\ SubSeq(stack, 1, m) \in Seq(STRING) /\ Len(SubSeq(stack, 1, m)) = m
        /\ \A i \in 1 .. m : SubSeq(stack, 1, m)[i] = stack[i]
    BY <2>3, <2>5
  <2> QED BY <2>1, <2>6 DEF m
<1>5. \A j, d : Opened(j, d)' <=> Opened(j, d)
  BY <1>1, OpenedGrows
<1>6. \A d \in 1 .. Len(stack) - 1 :
        \E j \in 1 .. n + 1 : Opened(j, d)' /\ file'[j].name = stack'[d]
  <2> SUFFICES ASSUME NEW d \in 1 .. Len(stack) - 1
               PROVE  \E j \in 1 .. n + 1 : Opened(j, d)' /\ file'[j].name = stack'[d]
    OBVIOUS
  <2>1. d \in 1 .. Len(stack)
    BY <1>2
  <2>2. PICK j \in 1 .. n : Opened(j, d) /\ file[j].name = stack[d]
    BY <2>1, OpenElement
  <2>3. j \in 1 .. n + 1 /\ Opened(j, d)' /\ file'[j].name = stack'[d]
    BY <1>1, <1>4, <1>5, <2>2
  <2> QED BY <2>3
<1>7. Nested'
  BY <1>1, <1>3, <1>4, <1>6 DEF Nested
<1> QED BY <1>2, <1>3, <1>4, <1>7

\* The innermost element is what a closing tag closes: its text, if it is a
\* location, is the text at hand.
LEMMA CloseTop ==
    ASSUME NEW n, NEW t, Accepting(n, t), t.kind = "close", stack # <<>>
    PROVE  /\ Tags!Top = stack[Len(stack)]
           /\ \E j \in 1 .. n : /\ Opened(j, Len(stack)) /\ Tags!Opening(n + 1)' = j
                                /\ file[j].name = Tags!Top
           /\ Tags!LocationOf(n + 1)' \in Seq(STRING)
           /\ Tags!Top = "loc" => Tags!LocationOf(n + 1)' = locationText
<1>1. /\ n \in Nat /\ n = Len(file) /\ Grown(n, t) /\ file \in Seq(Tokens)
      /\ Tags!Depth(n) = Len(stack) /\ Len(stack) \in Nat /\ stack \in Seq(STRING)
      /\ Tags!SitemapAssumption /\ Reading
  BY DEF Accepting, Grown, TagsTypes
<1>2. Tags!Top = stack[Len(stack)]
  BY DEF Tags!Top, Tags!Last
<1>3. Len(stack) \in 1 .. Len(stack)
  BY <1>1, EmptySeq
<1>4. PICK j \in 1 .. n : Opened(j, Len(stack)) /\ file[j].name = stack[Len(stack)]
  BY <1>3, OpenElement
<1>5. Tags!Opening(n + 1)' = j /\ Tags!LocationOf(n + 1)' = Named(Tags!Own(j, n))
  BY <1>1, <1>4, Answers, LocationEnds
<1>6. Named(Tags!Own(j, n)) \in Seq(STRING)
  <2>1. PICK P : P = Tags!Own(j, n)
    OBVIOUS
  <2>2. P \in SUBSET (1 .. n) /\ IsFiniteSet(P)
    BY <1>1, <2>1, OwnIs
  <2>3. Named(P) \in Seq(STRING)
    BY <1>1, <2>2, NamedIs
  <2> QED BY <2>1, <2>3
<1>7. Tags!Top = "loc" => locationText = Named(Tags!Own(j, n))
  <2>1. \A e \in 1 .. Len(stack) : e <= Len(stack)
    BY <1>1
  <2>2. Tags!Top = "loc" => /\ Opened(j, Len(stack)) /\ stack[Len(stack)] = "loc"
                            /\ \A e \in 1 .. Len(stack) : stack[e] = "loc" => e <= Len(stack)
    BY <1>2, <1>4, <2>1
  <2>3. j \in 1 .. Len(file)
    BY <1>1
  <2> QED BY <1>1, <1>3, <2>2, <2>3 DEF Reading
<1> QED BY <1>2, <1>4, <1>5, <1>6, <1>7

\* A close tag ends the element that is open, or the parser throws.
LEMMA CloseStep == ASSUME Tags!SitemapAssumption, TagsInv, Tags!ReadClose PROVE TagsInv'
<1>1. PICK n \in Nat, t \in Tokens : Accepting(n, t) /\ t.kind = "close"
  BY TokenAccepted DEF Tags!ReadClose
<1>2. /\ Grown(n, t) /\ Tags!Last(file') = t /\ Tags!Name = t.name /\ TagsTypes /\ Sound
      /\ Tags!Depth(n) = Len(stack) /\ Len(stack) \in Nat /\ ~ thrown /\ t.name \in STRING
      /\ n = Len(file) /\ Len(file') = n + 1 /\ file' \in Seq(Tokens) /\ Reading /\ Nested
      /\ stack \in Seq(STRING)
  BY <1>1 DEF Accepting, Grown, TagsTypes
<1>3. \A i \in Tags!Of({"close"}, n) : Tags!Opening(i) \in 1 .. i
  BY <1>2 DEF Sound
<1>4. locations = Tags!Locations /\ Len(locations) \in Nat /\ Len(locations) <= MaxLocations
      /\ MaxLocations \in Nat
  BY <1>2 DEF Reading, TagsTypes, Tags!SitemapAssumption
<1> DEFINE full == t.name = "loc" /\ locationText # <<>> /\ Len(locations) >= MaxLocations
<1>5. CASE stack = <<>> \/ Tags!Top # t.name \/ full
  <2>1. Tags!Throw
    BY <1>2, <1>5 DEF Tags!ReadClose
  <2>2. Rejected'
    <3>1. CASE stack = <<>>
      <4>1. Tags!Depth(n + 1)' = -1
        BY <1>1, <1>2, <3>1, EmptySeq, DepthGrows
      <4>2. Tags!Depth(n + 1)' \notin 0 .. MaxStack
        BY <4>1
      <4> QED BY <1>2, <4>2, Wrong
    <3>2. CASE stack # <<>> /\ Tags!Top # t.name
      <4>1. \E j \in 1 .. n : Tags!Opening(n + 1)' = j /\ file[j].name # t.name
        BY <1>1, <3>2, CloseTop
      <4> QED BY <1>1, <1>2, <4>1, Wrong
    <3>3. CASE stack # <<>> /\ Tags!Top = t.name /\ full
      <4>1. Tags!LocationOf(n + 1)' = locationText /\ Tags!LocationOf(n + 1)' \in Seq(STRING)
        BY <1>1, <3>3, CloseTop
      <4>2. Tags!Locations' = Append(locations, locationText)
        BY <1>1, <1>2, <1>3, <1>4, <3>3, <4>1, LocationsGrow
      <4>3. Len(Tags!Locations') = Len(locations) + 1
        BY <1>2, <4>2, AppendProperties DEF TagsTypes
      <4>4. Len(Tags!Locations') > MaxLocations
        BY <1>4, <3>3, <4>3
      <4> QED BY <1>2, <4>4, Wrong
    <3> QED BY <1>5, <3>1, <3>2, <3>3
  <2>3. TagsTypes'
    BY <1>2, <2>1 DEF TagsTypes, Tags!Throw, Tags!tree
  <2> QED BY <2>1, <2>2, <2>3 DEF TagsInv, Tags!Throw
<1>6. CASE stack # <<>> /\ Tags!Top = t.name /\ ~ full
  <2>1. /\ stack' = Tags!Front(stack) /\ rootClosed' = (rootClosed \/ stack' = <<>>)
        /\ root' = root /\ elements' = elements /\ thrown' = thrown
    BY <1>2, <1>6 DEF Tags!ReadClose
  <2>2. /\ t.name = "loc" => /\ locations' = IF locationText = <<>> THEN locations
                                             ELSE Append(locations, locationText)
                             /\ locationText' = <<>>
        /\ t.name # "loc" => locations' = locations /\ locationText' = locationText
    BY <1>2, <1>6 DEF Tags!ReadClose
  <2>3. /\ Nested' /\ Tags!Depth(n + 1)' = Len(stack) - 1
        /\ Len(stack') = Len(stack) - 1 /\ stack' \in Seq(STRING)
        /\ \A d \in 1 .. Len(stack) - 1 : stack'[d] = stack[d]
        /\ Len(stack) \in 1 .. Len(stack)
    BY <1>1, <1>6, <2>1, CloseNested
  <2>4. Sound'
    <3>1. Len(stack) \in 0 .. MaxStack
      BY <1>2 DEF Sound
    <3>2. Tags!Depth(n + 1)' \in 0 .. MaxStack
      BY <1>1, <1>2, <2>3, <3>1 DEF Accepting, Tags!SitemapAssumption
    <3>3. \E j \in 1 .. n : Tags!Opening(n + 1)' = j /\ file[j].name = t.name
      BY <1>1, <1>6, CloseTop
    <3>4. ~ Element(t) /\ t.kind # "malformed" /\ t.kind # "text"
      BY <1>1 DEF Element
    <3>5. elements' = elements + 0 /\ elements' <= MaxElements
      BY <1>2, <2>1 DEF Sound, TagsTypes
    <3> QED BY <1>2, <3>2, <3>3, <3>4, <3>5, SoundGrows
  <2>5. OneRoot'
    BY <1>1, <1>6, <2>1, OneRootStays DEF Element
  <2>6. locations' = Tags!Locations' /\ Len(locations') <= MaxLocations
    <3>1. Tags!LocationOf(n + 1)' \in Seq(STRING)
      BY <1>1, <1>6, CloseTop
    <3>2. CASE t.name = "loc" /\ locationText # <<>>
      <4>1. Tags!LocationOf(n + 1)' = locationText
        BY <1>1, <1>6, <3>2, CloseTop
      <4>2. Tags!Locations' = Append(locations, locationText)
        BY <1>1, <1>2, <1>3, <1>4, <3>1, <3>2, <4>1, LocationsGrow
      <4>3. Len(locations') = Len(locations) + 1
        BY <1>2, <2>2, <3>2, AppendProperties DEF TagsTypes
      <4> QED BY <1>4, <1>6, <2>2, <3>2, <4>2, <4>3
    <3>3. CASE ~ (t.name = "loc" /\ locationText # <<>>)
      <4>1. t.name = "loc" => Tags!LocationOf(n + 1)' = <<>>
        BY <1>1, <1>6, <3>3, CloseTop
      <4>2. Tags!Locations' = locations
        BY <1>1, <1>2, <1>3, <1>4, <3>1, <4>1, LocationsGrow
      <4> QED BY <1>4, <2>2, <3>3, <4>2
    <3> QED BY <3>2, <3>3
  <2>7. Reading'
    <3>1. \A j, d : (Opened(j, d)' <=> Opened(j, d)) /\ (Opened(j, d) => j \in 1 .. n)
      BY <1>1, <1>2, OpenedGrows
    <3>2. ASSUME NEW d \in 1 .. Len(stack) - 1, NEW j, Opened(j, d), stack[d] = "loc",
                 \A e \in 1 .. Len(stack) - 1 : stack[e] = "loc" => e <= d
          PROVE  locationText' = Named(Tags!Own(j, Len(file)))'
      <4>1. j \in 1 .. n
        BY <3>1, <3>2
      <4>2. CASE t.name = "loc"
        BY <1>1, <2>2, <4>1, <4>2, OwnNow
      <4>3. CASE t.name # "loc"
        <5>1. d \in 1 .. Len(stack) /\ \A e \in 1 .. Len(stack) : stack[e] = "loc" => e <= d
          <6>1. stack[Len(stack)] # "loc"
            BY <1>1, <1>6, <4>3, CloseTop
          <6>2. \A e \in 1 .. Len(stack) : e \in 1 .. Len(stack) - 1 \/ e = Len(stack)
            BY <1>2
          <6> QED BY <1>2, <3>2, <6>1, <6>2
        <5>2. locationText = Named(Tags!Own(j, n))
          BY <1>2, <3>2, <4>1, <5>1 DEF Reading
        <5>3. Named(Tags!Own(j, Len(file)))' = Named(Tags!Own(j, n))
          BY <1>1, <4>1, <4>3, OwnNow
        <5> QED BY <2>2, <4>3, <5>2, <5>3
      <4> QED BY <4>2, <4>3
    <3>3. \A d \in 1 .. Len(stack) - 1 : \A j \in 1 .. n + 1 :
            /\ Opened(j, d)' /\ stack'[d] = "loc"
            /\ \A e \in 1 .. Len(stack) - 1 : stack'[e] = "loc" => e <= d
            => locationText' = Named(Tags!Own(j, Len(file)))'
      BY <2>3, <3>1, <3>2
    <3> QED BY <1>2, <2>3, <2>6, <3>3 DEF Reading
  <2>8. TagsTypes'
    <3>1. locationText' \in Seq(STRING)
      BY <1>2, <2>2, EmptySeq DEF TagsTypes
    <3>2. locations' \in Seq(Seq(STRING))
      <4>1. locationText \in Seq(STRING) /\ locations \in Seq(Seq(STRING))
        BY <1>2 DEF TagsTypes
      <4>2. Append(locations, locationText) \in Seq(Seq(STRING))
        BY <4>1, AppendProperties
      <4> QED BY <2>2, <4>1, <4>2
    <3> QED BY <1>2, <2>1, <2>3, <3>1, <3>2 DEF TagsTypes
  <2> QED BY <1>2, <2>1, <2>3, <2>4, <2>5, <2>7, <2>8 DEF TagsInv
<1> QED BY <1>5, <1>6

\* An element opens: the stack grows with the tree.
LEMMA OpenNested ==
    ASSUME NEW n, NEW t, Accepting(n, t), t.kind = "open", stack' = Append(stack, t.name)
    PROVE  /\ Nested' /\ Tags!Depth(n + 1)' = Len(stack) + 1
           /\ Len(stack') = Len(stack) + 1 /\ stack' \in Seq(STRING)
           /\ stack'[Len(stack) + 1] = t.name
           /\ \A d \in 1 .. Len(stack) : stack'[d] = stack[d]
           /\ \A j, d : Opened(j, d)' <=> IF d = Len(stack) + 1 THEN j = n + 1 ELSE Opened(j, d)
<1>1. /\ n \in Nat /\ n = Len(file) /\ Len(file') = n + 1 /\ Grown(n, t) /\ file'[n + 1] = t
      /\ \A i \in 1 .. n : file'[i] = file[i]
      /\ Tags!Depth(n) = Len(stack) /\ Len(stack) \in Nat /\ stack \in Seq(STRING)
      /\ t.name \in STRING
  BY DEF Accepting, Grown, TagsTypes
<1>2. Tags!Depth(n + 1)' = Len(stack) + 1
  BY <1>1, DepthGrows
<1>3. /\ Len(stack') = Len(stack) + 1 /\ stack' \in Seq(STRING)
      /\ stack'[Len(stack) + 1] = t.name
      /\ \A d \in 1 .. Len(stack) : stack'[d] = stack[d]
  BY <1>1, AppendProperties
<1>4. \A j, d : Opened(j, d)' <=> IF d = Len(stack) + 1 THEN j = n + 1 ELSE Opened(j, d)
  BY <1>1, OpenedGrows
<1>5. \A d \in 1 .. Len(stack) + 1 :
        \E j \in 1 .. n + 1 : Opened(j, d)' /\ file'[j].name = stack'[d]
  <2> SUFFICES ASSUME NEW d \in 1 .. Len(stack) + 1
               PROVE  \E j \in 1 .. n + 1 : Opened(j, d)' /\ file'[j].name = stack'[d]
    OBVIOUS
  <2>1. CASE d = Len(stack) + 1
    <3>1. \E j \in 1 .. n + 1 : j = n + 1
      BY <1>1
    <3> QED BY <1>1, <1>3, <1>4, <2>1, <3>1
  <2>2. CASE d # Len(stack) + 1
    <3>1. d \in 1 .. Len(stack)
      BY <1>1, <2>2
    <3>2. PICK j \in 1 .. n : Opened(j, d) /\ file[j].name = stack[d]
      BY <3>1, OpenElement
    <3>3. j \in 1 .. n + 1 /\ Opened(j, d)' /\ file'[j].name = stack'[d]
      BY <1>1, <1>3, <1>4, <2>2, <3>1, <3>2
    <3> QED BY <3>3
  <2> QED BY <2>1, <2>2
<1>6. Nested'
  BY <1>1, <1>2, <1>3, <1>5 DEF Nested
<1> QED BY <1>2, <1>3, <1>4, <1>6

\* An element that comes is inside the root or is the root.
LEMMA ElementRoot ==
    ASSUME NEW n, NEW t, Accepting(n, t), Element(t),
           ~ (stack = <<>> /\ (root # "" \/ rootClosed)),
           root' = IF root = "" THEN t.name ELSE root,
           IF t.kind = "open" THEN stack' # <<>> /\ rootClosed' = rootClosed
           ELSE stack' = stack /\ rootClosed' = (rootClosed \/ stack = <<>>)
    PROVE  OneRoot'
<1> DEFINE E == Tags!Elements(n)
<1>1. /\ n \in Nat /\ n = Len(file) /\ Len(file') = n + 1 /\ Grown(n, t) /\ file'[n + 1] = t
      /\ \A i \in 1 .. n : file'[i] = file[i]
      /\ OneRoot /\ Tags!Depth(n) = Len(stack) /\ rootClosed \in BOOLEAN
      /\ stack \in Seq(STRING)
  BY DEF Accepting, Grown, TagsTypes
<1>2. /\ E \in SUBSET (1 .. n) /\ Tags!Elements(n + 1)' = E \cup {n + 1}
      /\ \A K : Tags!KindIn(K)' <=>
           Tags!KindIn(K) \/ (t.name \in K /\ \A j \in E : file[j].name = "")
  <2>1. E \in SUBSET (1 .. n) /\ Tags!Elements(n + 1)' = E \cup {n + 1}
    BY <1>1, ElementsGrow
  <2>2. \A K : Tags!KindIn(K)' <=>
          Tags!KindIn(K) \/ (t.name \in K /\ \A j \in E : file[j].name = "")
    BY <1>1, KindGrows
  <2> QED BY <2>1, <2>2
<1>3. Tags!Roots' # {} /\ Cardinality(Tags!Roots') = 1 /\ (rootClosed' <=> stack' = <<>>)
  <2>1. CASE stack = <<>>
    <3>1. Tags!Depth(n) = 0
      BY <1>1, <2>1, EmptySeq
    <3>2. Tags!Roots = {}
      BY <1>1, <2>1 DEF OneRoot
    <3>3. Tags!Roots' = {n + 1}
      BY <1>1, <3>1, <3>2, RootsGrow
    <3>4. Tags!Roots' # {} /\ Cardinality(Tags!Roots') = 1
      BY <3>3, FS_Singleton
    <3>5. rootClosed' <=> stack' = <<>>
      BY <1>1, <2>1
    <3> QED BY <3>4, <3>5
  <2>2. CASE stack # <<>>
    <3>1. Tags!Depth(n) # 0
      BY <1>1, <2>2, EmptySeq
    <3>2. Tags!Roots' = Tags!Roots
      BY <1>1, <3>1, RootsGrow
    <3>3. Tags!Roots # {} /\ Cardinality(Tags!Roots) = 1 /\ ~ rootClosed
      BY <1>1, <2>2 DEF OneRoot
    <3>4. rootClosed' <=> stack' = <<>>
      BY <1>1, <2>2, <3>3
    <3> QED BY <3>2, <3>3, <3>4
  <2> QED BY <2>1, <2>2
<1>4. \A i \in E : file'[i] = file[i]
  BY <1>1, <1>2
<1>5. root' = "" => \A i \in E \cup {n + 1} : file'[i].name = ""
  BY <1>1, <1>4 DEF OneRoot
<1>6. root' # "" => \A K : "" \notin K => (Tags!KindIn(K)' <=> root' \in K)
  <2> SUFFICES ASSUME root' # "", NEW K, "" \notin K PROVE Tags!KindIn(K)' <=> root' \in K
    OBVIOUS
  <2>1. CASE root # ""
    <3>1. Tags!KindIn({root}) /\ (Tags!KindIn(K) <=> root \in K)
      <4>1. "" \notin {root}
        BY <2>1
      <4> QED BY <1>1, <2>1, <4>1 DEF OneRoot
    <3>2. \E i \in E : file[i].name = root
      BY <1>1, <3>1 DEF Tags!KindIn
    <3> QED BY <1>2, <2>1, <3>1, <3>2
  <2>2. CASE root = ""
    <3>1. \A i \in E : file[i].name = ""
      BY <1>1, <2>2 DEF OneRoot
    <3>2. ~ Tags!KindIn(K)
      BY <1>1, <3>1 DEF Tags!KindIn
    <3> QED BY <1>2, <2>2, <3>1, <3>2
  <2> QED BY <2>1, <2>2
<1> HIDE DEF E
<1> QED BY <1>1, <1>2, <1>3, <1>5, <1>6 DEF OneRoot

\* Two roots are not one.
LEMMA OneMore ==
    ASSUME NEW n \in Nat, NEW S \in SUBSET (1 .. n), IsFiniteSet(S), Cardinality(S) = 1
    PROVE  Cardinality(S \cup {n + 1}) # 1
<1>1. n + 1 \notin S
  OBVIOUS
<1>2. Cardinality(S \cup {n + 1}) = 1 + 1
  BY <1>1, FS_AddElement
<1> QED BY <1>2

\* A second root is one too many.
LEMMA SecondRoot ==
    ASSUME NEW n, NEW t, Accepting(n, t), Element(t), stack = <<>>, root # "" \/ rootClosed
    PROVE  Cardinality(Tags!Roots') # 1
<1>1. /\ n \in Nat /\ n = Len(file) /\ Grown(n, t) /\ OneRoot /\ Tags!Depth(n) = Len(stack)
  BY DEF Accepting, Grown
<1>2. Tags!Depth(n) = 0
  BY <1>1, EmptySeq
<1>3. Tags!Roots # {}
  <2> SUFFICES ASSUME Tags!Roots = {} PROVE FALSE
    OBVIOUS
  <2>1. Tags!Elements(n) = {} /\ ~ rootClosed
    BY <1>1 DEF OneRoot
  <2>2. ~ Tags!KindIn({root})
    BY <1>1, <2>1 DEF Tags!KindIn
  <2>3. root # "" => Tags!KindIn({root})
    <3>1. root # "" => "" \notin {root}
      OBVIOUS
    <3> QED BY <1>1, <3>1 DEF OneRoot
  <2> QED BY <2>1, <2>2, <2>3
<1>4. Cardinality(Tags!Roots) = 1
  BY <1>1, <1>3 DEF OneRoot
<1>5. /\ Tags!Roots \in SUBSET (1 .. n) /\ IsFiniteSet(Tags!Roots)
      /\ Tags!Roots' = Tags!Roots \cup {n + 1}
  BY <1>1, <1>2, RootsGrow
<1>6. Cardinality(Tags!Roots \cup {n + 1}) # 1
  BY <1>1, <1>4, <1>5, OneMore
<1> QED BY <1>5, <1>6

\* An element begins, within the bounds, or the parser throws.
LEMMA OpenStep == ASSUME Tags!SitemapAssumption, TagsInv, Tags!ReadOpen PROVE TagsInv'
<1>1. PICK n \in Nat, t \in Tokens : Accepting(n, t) /\ t.kind \in {"open", "empty"}
  BY TokenAccepted DEF Tags!ReadOpen
<1>2. /\ Grown(n, t) /\ Tags!Last(file') = t /\ Tags!Name = t.name /\ TagsTypes /\ Sound
      /\ Tags!Depth(n) = Len(stack) /\ Len(stack) \in Nat /\ ~ thrown /\ t.name \in STRING
      /\ n = Len(file) /\ Len(file') = n + 1 /\ file' \in Seq(Tokens) /\ Reading
      /\ stack \in Seq(STRING) /\ Element(t)
  BY <1>1 DEF Accepting, Grown, TagsTypes, Element
<1>3. /\ elements \in Nat /\ elements = Cardinality(Tags!Elements(n)) /\ MaxElements \in Nat
      /\ Len(stack) \in 0 .. MaxStack /\ MaxStack \in Nat
  <2>1. elements \in Nat /\ MaxElements \in Nat /\ MaxStack \in Nat
    BY <1>1, <1>2 DEF TagsTypes, Accepting, Tags!SitemapAssumption
  <2>2. elements = Cardinality(Tags!Elements(n)) /\ Len(stack) \in 0 .. MaxStack
    BY <1>2 DEF Sound
  <2> QED BY <2>1, <2>2
<1> DEFINE refused == \/ stack = <<>> /\ (root # "" \/ rootClosed)
                      \/ elements >= MaxElements
                      \/ t.kind = "open" /\ Len(stack) >= MaxStack
<1>4. CASE refused
  <2>1. Tags!Throw
    BY <1>2, <1>4 DEF Tags!ReadOpen
  <2>2. Rejected'
    <3>1. CASE stack = <<>> /\ (root # "" \/ rootClosed)
      BY <1>1, <1>2, <3>1, SecondRoot, Wrong
    <3>2. CASE elements >= MaxElements
      <4>1. Cardinality(Tags!Elements(n + 1)') = elements + 1
        BY <1>2, <1>3, ElementsGrow
      <4>2. Cardinality(Tags!Elements(n + 1)') > MaxElements
        BY <1>3, <3>2, <4>1
      <4> QED BY <1>2, <4>2, Wrong
    <3>3. CASE t.kind = "open" /\ Len(stack) >= MaxStack
      <4>1. Tags!Depth(n + 1)' = Len(stack) + 1
        BY <1>2, <3>3, DepthGrows
      <4>2. Tags!Depth(n + 1)' \notin 0 .. MaxStack
        BY <1>2, <1>3, <3>3, <4>1
      <4> QED BY <1>2, <4>2, Wrong
    <3> QED BY <1>4, <3>1, <3>2, <3>3
  <2>3. TagsTypes'
    BY <1>2, <2>1 DEF TagsTypes, Tags!Throw, Tags!tree
  <2> QED BY <2>1, <2>2, <2>3 DEF TagsInv, Tags!Throw
<1>5. CASE ~ refused
  <2>1. /\ root' = (IF root = "" THEN t.name ELSE root) /\ elements' = elements + 1
        /\ locations' = locations /\ thrown' = thrown
        /\ t.kind = "open" => /\ stack' = Append(stack, t.name) /\ rootClosed' = rootClosed
                              /\ locationText' = IF t.name = "loc" THEN <<>> ELSE locationText
        /\ t.kind = "empty" => /\ stack' = stack /\ rootClosed' = (rootClosed \/ stack = <<>>)
                               /\ locationText' = locationText
    BY <1>1, <1>2, <1>5 DEF Tags!ReadOpen, Tags!StartLocation
  <2>2. elements + 1 <= MaxElements
    <3>1. ~ (elements >= MaxElements)
      BY <1>5
    <3> QED BY <1>3, <3>1
  <2>3. CASE t.kind = "empty"
    <3>1. Nested' /\ Tags!Depth(n + 1)' = Len(stack)
      BY <1>1, <2>1, <2>3, NestedStays
    <3>2. Sound'
      BY <1>2, <1>3, <2>1, <2>2, <2>3, <3>1, SoundGrows
    <3>3. OneRoot'
      BY <1>1, <1>2, <1>5, <2>1, <2>3, ElementRoot
    <3>4. Reading'
      BY <1>1, <2>1, <2>3, ReadingStays
    <3>5. TagsTypes'
      <4>1. elements' \in Nat
        <5>1. elements' = elements + 1
          BY <2>1
        <5> QED BY <1>3, <5>1
      <4>2. rootClosed' \in BOOLEAN
        BY <1>2, <2>1, <2>3 DEF TagsTypes
      <4> QED BY <1>2, <2>1, <2>3, <4>1, <4>2 DEF TagsTypes
    <3> QED BY <1>2, <2>1, <3>1, <3>2, <3>3, <3>4, <3>5 DEF TagsInv
  <2>4. CASE t.kind = "open"
    <3>1. /\ Nested' /\ Tags!Depth(n + 1)' = Len(stack) + 1
          /\ Len(stack') = Len(stack) + 1 /\ stack' \in Seq(STRING)
          /\ stack'[Len(stack) + 1] = t.name
          /\ \A d \in 1 .. Len(stack) : stack'[d] = stack[d]
          /\ \A j, d : Opened(j, d)' <=>
               IF d = Len(stack) + 1 THEN j = n + 1 ELSE Opened(j, d)
      BY <1>1, <2>1, <2>4, OpenNested
    <3>2. Sound'
      <4>1. Tags!Depth(n + 1)' \in 0 .. MaxStack
        <5>1. ~ (Len(stack) >= MaxStack)
          BY <1>5, <2>4
        <5>2. Len(stack) + 1 \in 0 .. MaxStack
          BY <1>3, <5>1
        <5> QED BY <3>1, <5>2
      <4> QED BY <1>2, <2>1, <2>2, <2>4, <4>1, SoundGrows
    <3>3. OneRoot'
      <4>1. stack' # <<>>
        BY <1>2, <3>1, EmptySeq
      <4> QED BY <1>1, <1>2, <1>5, <2>1, <2>4, <4>1, ElementRoot
    <3>4. Reading'
      <4>1. locations' = Tags!Locations' /\ Len(locations') <= MaxLocations
        <5>1. \A i \in Tags!Of({"close"}, n) : Tags!Opening(i) \in 1 .. i
          BY <1>2 DEF Sound
        <5>2. Tags!Locations' = Tags!Locations
          BY <1>1, <1>2, <2>4, <5>1, LocationsGrow DEF Accepting
        <5> QED BY <1>2, <2>1, <5>2 DEF Reading
      <4>2. ASSUME NEW d \in 1 .. Len(stack) + 1, NEW j \in 1 .. n + 1, Opened(j, d)',
                   stack'[d] = "loc",
                   \A e \in 1 .. Len(stack) + 1 : stack'[e] = "loc" => e <= d
            PROVE  locationText' = Named(Tags!Own(j, Len(file)))'
        <5>1. CASE d = Len(stack) + 1
          <6>1. j = n + 1 /\ locationText' = <<>>
            BY <2>1, <2>4, <3>1, <4>2, <5>1
          <6>2. Tags!Own(j, n + 1)' = {}
            <7>1. Tags!Of({"text"}, n + 1)' \in SUBSET (1 .. n)
              <8>1. Tags!Of({"text"}, n + 1)' = Tags!Of({"text"}, n)
                BY <1>2, <2>4, OfGrows
              <8>2. Tags!Of({"text"}, n) \in SUBSET (1 .. n)
                BY OfIs
              <8> QED BY <8>1, <8>2
            <7>2. \A i \in Tags!Of({"text"}, n + 1)' : ~ (j < i)
              BY <6>1, <7>1
            <7> QED BY <7>2 DEF Tags!Own
          <6>3. Named(Tags!Own(j, Len(file)))' = <<>>
            <7>1. Cardinality(Tags!Own(j, Len(file))') = 0
              BY <1>2, <6>2, FS_EmptySet
            <7>2. \A f, c : c = 0 => [m \in 1 .. c |-> f[m]] = <<>>
              OBVIOUS
            <7> QED BY <7>1 DEF Named
          <6> QED BY <6>1, <6>3
        <5>2. CASE d # Len(stack) + 1
          <6>1. d \in 1 .. Len(stack) /\ Opened(j, d) /\ Len(stack) + 1 \in 1 .. Len(stack) + 1
            BY <1>2, <3>1, <4>2, <5>2
          <6>2. t.name # "loc"
            BY <1>2, <3>1, <4>2, <6>1
          <6>3. /\ j \in 1 .. n /\ stack[d] = "loc"
                /\ \A e \in 1 .. Len(stack) : stack[e] = "loc" => e <= d
            <7>1. j \in 1 .. n
              BY <1>2, <6>1, OpenedGrows
            <7>2. \A e \in 1 .. Len(stack) : e \in 1 .. Len(stack) + 1
              BY <1>2
            <7> QED BY <3>1, <4>2, <6>1, <7>1, <7>2
          <6>4. locationText = Named(Tags!Own(j, n))
            BY <1>2, <6>1, <6>3 DEF Reading
          <6>5. Named(Tags!Own(j, Len(file)))' = Named(Tags!Own(j, n))
            BY <1>1, <2>4, <6>3, OwnNow
          <6> QED BY <2>1, <2>4, <6>2, <6>4, <6>5
        <5> QED BY <5>1, <5>2
      <4> QED BY <1>2, <3>1, <4>1, <4>2 DEF Reading
    <3>5. TagsTypes'
      <4>1. locationText' \in Seq(STRING)
        BY <1>2, <2>1, <2>4, EmptySeq DEF TagsTypes
      <4>2. elements' \in Nat
        <5>1. elements' = elements + 1
          BY <2>1
        <5> QED BY <1>3, <5>1
      <4> QED BY <1>2, <2>1, <2>4, <3>1, <4>1, <4>2 DEF TagsTypes
    <3> QED BY <1>2, <2>1, <3>1, <3>2, <3>3, <3>4, <3>5 DEF TagsInv
  <2> QED BY <1>1, <2>3, <2>4
<1> QED BY <1>4, <1>5

\* An empty text has no tags.
LEMMA TagsInit == Tags!SitemapAssumption /\ Tags!Init => TagsInv
<1> SUFFICES ASSUME Tags!SitemapAssumption, Tags!Init PROVE TagsInv
  OBVIOUS
<1>1. /\ file = <<>> /\ Len(file) = 0 /\ stack = <<>> /\ Len(stack) = 0 /\ root = ""
      /\ rootClosed = FALSE /\ elements = 0 /\ locationText = <<>> /\ locations = <<>>
      /\ Len(locations) = 0 /\ thrown = FALSE
  BY EmptySeq DEF Tags!Init
<1>2. TagsTypes
  <2>1. \A S : <<>> \in Seq(S)
    BY EmptySeq
  <2>2. file \in Seq(Tokens) /\ stack \in Seq(STRING) /\ locationText \in Seq(STRING)
    BY <1>1, <2>1
  <2>3. locations \in Seq(Seq(STRING))
    BY <1>1, <2>1
  <2>4. rootClosed \in BOOLEAN /\ thrown \in BOOLEAN
    BY <1>1
  <2>5. elements \in Nat
    <3>1. elements = 0
      BY <1>1
    <3> QED BY <3>1
  <2> QED BY <2>2, <2>3, <2>4, <2>5 DEF TagsTypes
<1>3. \A K : Tags!Of(K, 0) = {} /\ Tags!Elements(0) = {}
  BY DEF Tags!Of, Tags!Elements
<1>4. Tags!Depth(0) = 0
  BY <1>3, SameOperators, FS_EmptySet DEF Tags!Depth
<1>5. Nested
  <2>1. \A d : d \notin 1 .. 0
    OBVIOUS
  <2> QED BY <1>1, <1>4, <2>1 DEF Nested
<1>6. MaxStack \in Nat /\ MaxElements \in Nat /\ MaxLocations \in Nat
  BY DEF Tags!SitemapAssumption
<1>7. Sound
  <2>1. \A i \in 0 .. 0 : Tags!Depth(i) \in 0 .. MaxStack
    BY <1>4, <1>6
  <2>2. /\ Tags!Of({"close"}, 0) = {} /\ Tags!Of({"text"}, 0) = {}
        /\ Tags!Of({"malformed"}, 0) = {} /\ Tags!Elements(0) = {}
    BY <1>3
  <2>3. elements = Cardinality(Tags!Elements(0)) /\ elements <= MaxElements
    <3>1. elements = 0
      BY <1>1
    <3>2. Cardinality(Tags!Elements(0)) = 0
      BY <2>2, FS_EmptySet
    <3>3. MaxElements \in Nat
      BY <1>6
    <3> QED BY <3>1, <3>2, <3>3
  <2> QED BY <1>1, <2>1, <2>2, <2>3 DEF Sound
<1>8. OneRoot
  BY <1>1, <1>3 DEF OneRoot, Tags!Roots
<1>9. Reading
  <2>1. Tags!Ends = {}
    BY <1>1, <1>3 DEF Tags!Ends
  <2>2. Cardinality(Tags!Ends) = 0
    BY <2>1, FS_EmptySet
  <2>3. Tags!Locations = <<>>
    <3>1. file \in Seq(Tokens)
      BY <1>2 DEF TagsTypes
    <3>2. Tags!Locations \in Seq(Seq(STRING)) /\ Len(Tags!Locations) = 0
      BY <2>2, <3>1, LocationsType
    <3> QED BY <3>2, EmptySeq
  <2>4. \A d : d \notin 1 .. 0
    OBVIOUS
  <2>5. locations = Tags!Locations /\ Len(locations) = 0 /\ Len(stack) = 0
    BY <1>1, <2>3
  <2>6. Len(locations) <= MaxLocations
    BY <1>6, <2>5
  <2> QED BY <2>4, <2>5, <2>6 DEF Reading
<1> QED BY <1>1, <1>2, <1>5, <1>7, <1>8, <1>9 DEF TagsInv

\* parseSitemap: whatever it reads, it holds what the text says.
LEMMA TagsStep == Tags!SitemapAssumption /\ TagsInv /\ [Tags!Next]_Tags!vars => TagsInv'
<1> SUFFICES ASSUME Tags!SitemapAssumption, TagsInv, [Tags!Next]_Tags!vars PROVE TagsInv'
  OBVIOUS
<1>1. CASE Tags!ReadMalformed
  BY <1>1, MalformedStep
<1>2. CASE Tags!ReadText
  BY <1>2, TextStep
<1>3. CASE Tags!ReadClose
  BY <1>3, CloseStep
<1>4. CASE Tags!ReadOpen
  BY <1>4, OpenStep
<1>5. CASE UNCHANGED Tags!vars
  <2>1. /\ file' = file /\ stack' = stack /\ root' = root /\ rootClosed' = rootClosed
        /\ elements' = elements /\ locationText' = locationText /\ locations' = locations
        /\ thrown' = thrown
    BY <1>5 DEF Tags!vars, Tags!tree
  <2>2. TagsTypes' <=> TagsTypes
    BY <2>1 DEF TagsTypes
  <2>3. Nested' <=> Nested
    BY <2>1 DEF Nested, Opened, Tags!Depth, Tags!Of
  <2>4. Sound' <=> Sound
    BY <2>1 DEF Sound, Tags!Opening, Tags!Elements, Tags!Depth, Tags!Of
  <2>5. OneRoot' <=> OneRoot
    BY <2>1 DEF OneRoot, Tags!Roots, Tags!KindIn, Tags!Elements, Tags!Depth, Tags!Of
  <2>6. Tags!Locations' = Tags!Locations
    <3>1. /\ \A K, n : Tags!Of(K, n)' = Tags!Of(K, n)
          /\ \A n : Tags!Depth(n)' = Tags!Depth(n)
      BY <2>1 DEF Tags!Of, Tags!Depth
    <3>2. /\ \A i : Tags!Opening(i)' = Tags!Opening(i)
          /\ \A j, n : Tags!Own(j, n)' = Tags!Own(j, n)
      BY <2>1, <3>1 DEF Tags!Opening, Tags!Own
    <3>3. \A i : Tags!LocationOf(i)' = Tags!LocationOf(i)
      BY <2>1, <3>2 DEF Tags!LocationOf
    <3>4. Tags!Ends' = Tags!Ends
      BY <2>1, <3>1, <3>3 DEF Tags!Ends
    <3> QED BY <3>3, <3>4 DEF Tags!Locations
  <2>7. Reading' <=> Reading
    BY <2>1, <2>6 DEF Reading, Opened, Named, Tags!Own, Tags!Depth, Tags!Of
  <2>8. Rejected' <=> Rejected
    BY <2>1, <2>6 DEF Rejected, Tags!WellFormed, Tags!Roots, Tags!KindIn, Tags!Elements,
                      Tags!Opening, Tags!Depth, Tags!Of
  <2> QED BY <2>1, <2>2, <2>3, <2>4, <2>5, <2>7, <2>8 DEF TagsInv
<1> QED BY <1>1, <1>2, <1>3, <1>4, <1>5 DEF Tags!Next

\* What the invariant says of the verdict on the file.
LEMMA TagsVerdict == Tags!SitemapAssumption /\ TagsInv => SitemapsFollowTheFile
<1> SUFFICES ASSUME Tags!SitemapAssumption, TagsInv PROVE SitemapsFollowTheFile
  OBVIOUS
<1>1. CASE thrown
  BY <1>1 DEF TagsInv, Rejected, SitemapsFollowTheFile, Tags!SitemapsFollowTheFile,
              Tags!AcceptsSitemaps, Tags!LocationsOfLoc, Tags!Accepted
<1>2. CASE ~ thrown
  <2>1. TagsTypes /\ Nested /\ Sound /\ OneRoot /\ Reading
    BY <1>2 DEF TagsInv
  <2>2. Tags!Depth(Len(file)) = 0 <=> stack = <<>>
    BY <2>1, EmptySeq DEF Nested, TagsTypes
  <2>3. stack = <<>> => (Cardinality(Tags!Roots) = 1 <=> rootClosed)
    <3>1. CASE Tags!Roots = {}
      <4>1. Cardinality(Tags!Roots) # 1
        BY <3>1, FS_EmptySet
      <4> QED BY <2>1, <3>1, <4>1 DEF OneRoot
    <3>2. CASE Tags!Roots # {}
      BY <2>1, <3>2 DEF OneRoot
    <3> QED BY <3>1, <3>2
  <2>4. Tags!KindIn({"sitemapindex", "urlset"}) <=> root \in {"sitemapindex", "urlset"}
    <3>1. CASE root # ""
      <4>1. "" \notin {"sitemapindex", "urlset"}
        OBVIOUS
      <4> QED BY <2>1, <3>1, <4>1 DEF OneRoot
    <3>2. CASE root = ""
      <4>1. \A i \in Tags!Elements(Len(file)) : file[i].name = ""
        BY <2>1, <3>2 DEF OneRoot
      <4> QED BY <3>2, <4>1 DEF Tags!KindIn
    <3> QED BY <3>1, <3>2
  <2>5. /\ \A i \in 1 .. Len(file) : Tags!Depth(i) \in 0 .. MaxStack
        /\ \A i \in Tags!Of({"close"}, Len(file)) : file[Tags!Opening(i)].name = file[i].name
        /\ \A i \in Tags!Of({"text"}, Len(file)) : Tags!Depth(i) > 0
        /\ Tags!Of({"malformed"}, Len(file)) = {}
        /\ Cardinality(Tags!Elements(Len(file))) <= MaxElements
    <3>1. \A i \in 1 .. Len(file) : i \in 0 .. Len(file)
      BY <2>1 DEF TagsTypes
    <3> QED BY <2>1, <3>1 DEF Sound
  <2>6. Tags!WellFormed <=> /\ Tags!Depth(Len(file)) = 0
                            /\ Cardinality(Tags!Roots) = 1
                            /\ Tags!KindIn({"sitemapindex", "urlset"})
    BY <2>5, SameOperators DEF Tags!WellFormed
  <2>7. locations = Tags!Locations /\ Len(Tags!Locations) <= MaxLocations
    BY <2>1 DEF Reading
  <2>8. Tags!AcceptsSitemaps
    BY <1>2, <2>2, <2>3, <2>4, <2>6, <2>7 DEF Tags!AcceptsSitemaps, Tags!Accepted
  <2> QED BY <2>7, <2>8 DEF SitemapsFollowTheFile, Tags!SitemapsFollowTheFile, Tags!LocationsOfLoc
<1> QED BY <1>1, <1>2

THEOREM SitemapsReadAsWritten == Tags!Spec => []SitemapsFollowTheFile
<1>1. Tags!SitemapAssumption
  BY PartAssumptions
<1>2. Tags!Init => TagsInv
  BY <1>1, TagsInit
<1>3. TagsInv /\ [Tags!Next]_Tags!vars => TagsInv'
  BY <1>1, TagsStep
<1>4. TagsInv => SitemapsFollowTheFile
  BY <1>1, TagsVerdict
<1> QED BY <1>2, <1>3, <1>4, PTL DEF Tags!Spec

-----------------------------------------------------------------------------
(* Robots: the inductive invariant.                                         *)

\* The lines that end a group: lines left empty once a comment is cut off.
Separators == {"blank", "comment"}

\* A line whose value the parser does not discard.
Valued(line) == line.value # ""

\* The agent lines that would address a directive that came next, and the
\* agents they name.
Speakers ==
    {j \in 1 .. Len(text) :
       /\ text[j].name = "user-agent" /\ text[j].value # ""
       /\ \A k \in j .. Len(text) : text[k].name \notin Separators
       /\ ~ \E d, u \in j .. Len(text) : /\ d < u /\ text[d].name \in Policy!Directives
                                         /\ text[u].name = "user-agent"}

\* A directive stands between lines j and n.
Directed(j, n) == \E d \in j .. n : text[d].name \in Policy!Directives

\* Nothing between lines i and n ends the group of line i, a directive.
Joined(i, n) == \A k \in i .. n : text[k].name \notin Separators \cup {"user-agent"}

\* The group being read is that of the agents called last.
Speaking ==
    /\ agents = {text[j].value : j \in Speakers} /\ IsFiniteSet(agents)
    /\ agents = {} => rules = <<>> /\ delay = Policy!NoDelay /\ ~ directivesStarted
    /\ \A j \in Speakers : Directed(j, Len(text)) <=> directivesStarted

\* The group of each line: a directive has one if it is addressed to someone.
Homes(home) ==
    /\ home \in [1 .. Len(text) -> 0 .. Len(Policy!Grouped)]
    /\ \A i \in 1 .. Len(text) :
         IF text[i].name \in Policy!Directives
         THEN Policy!Addressees(i, Separators)
                = IF home[i] = 0 THEN {} ELSE Policy!Grouped[home[i]].agents
         ELSE home[i] = 0
    /\ \A i, j \in 1 .. Len(text) : i < j /\ home[i] # 0 /\ home[j] # 0 =>
         home[i] <= home[j] /\ (home[i] = home[j] <=> Joined(i, j))
    /\ \A i \in 1 .. Len(text) : home[i] # 0 =>
         (Joined(i, Len(text)) <=> agents # {} /\ home[i] = Len(Policy!Grouped))
    /\ agents # {} /\ ~ directivesStarted =>
         \A i \in 1 .. Len(text) : home[i] # Len(Policy!Grouped)

\* The directives that give a group a rule, and the one that gives it a delay.
RuleNames == {"allow", "disallow"}
DelayNames == {"crawl-delay"}

\* The lines of some names that give their value to group k.
Told(names, home, k) ==
    {i \in 1 .. Len(text) : text[i].name \in names /\ Valued(text[i]) /\ home[i] = k}

\* The rule that a line gives.
RuleOf(line) == [allow |-> line.name = "allow", pattern |-> line.value]

\* The rules of the lines at some positions.
Ruled(P) == [m \in 1 .. Cardinality(P) |-> RuleOf(text[Nth(P, m)])]

\* A group's delay is the one of its last delay line.
DelayTold(home, k, d) ==
    LET told == Told(DelayNames, home, k)
    IN  IF told = {} THEN d = Policy!NoDelay
        ELSE \E i \in told : /\ \A j \in told : j <= i
                             /\ d = Policy!Min({MaxDelay, Seconds[text[i].value]})

\* A group has the rules and the delay of its lines.
Holds(home) ==
    \A k \in 1 .. Len(Policy!Grouped) :
      /\ Policy!Grouped[k].agents # {} /\ IsFiniteSet(Policy!Grouped[k].agents)
      /\ Policy!Grouped[k].rules = Ruled(Told(RuleNames, home, k))
      /\ DelayTold(home, k, Policy!Grouped[k].delay)

\* The agents of the groups are those the file names.
NamedAgents == {text[i].value : i \in {j \in 1 .. Len(text) :
                                  text[j].name = "user-agent" /\ text[j].value # ""}}

Everyone ==
    \A a : a \in NamedAgents <=> \E k \in 1 .. Len(Policy!Grouped) : a \in Policy!Grouped[k].agents

\* A line more: l, after n lines.
Longer(n, l) ==
    /\ n = Len(text) /\ n \in Nat /\ l \in Lines
    /\ text \in Seq(Lines) /\ text' \in Seq(Lines) /\ Len(text') = n + 1
    /\ text'[n + 1] = l /\ \A i \in 1 .. n : text'[i] = text[i]

\* Reading a line makes the text one longer.
LEMMA LineLengthens ==
    ASSUME text \in Seq(Lines), NEW K, Policy!Line(K)
    PROVE  \E n \in Nat, l \in Lines : Longer(n, l) /\ l.name \in K /\ Policy!Last(text') = l
<1>1. PICK l \in Lines : l.name \in K /\ text' = Append(text, l)
  BY DEF Policy!Line
<1>2. PICK n \in Nat : n = Len(text)
  OBVIOUS
<1>3. /\ text' \in Seq(Lines) /\ Len(text') = n + 1 /\ text'[n + 1] = l
      /\ \A i \in 1 .. n : text'[i] = text[i]
  BY <1>1, <1>2, AppendProperties
<1>4. Policy!Last(text') = l
  BY <1>3 DEF Policy!Last
<1> QED BY <1>1, <1>2, <1>3, <1>4 DEF Longer

\* Whom a line is addressed to is settled when it is read.
LEMMA AddresseesKept ==
    ASSUME NEW n, NEW l, Longer(n, l)
    PROVE  \A i \in 1 .. n :
             Policy!Addressees(i, Separators)' = Policy!Addressees(i, Separators)
<1>1. /\ n = Len(text) /\ n \in Nat /\ DOMAIN text = 1 .. n /\ DOMAIN text' = 1 .. n + 1
      /\ \A i \in 1 .. n : text'[i] = text[i]
  BY DEF Longer
<1> SUFFICES ASSUME NEW i \in 1 .. n
             PROVE  Policy!Addressees(i, Separators)' = Policy!Addressees(i, Separators)
  OBVIOUS
<1>2. ASSUME NEW j \in 1 .. n
      PROVE  Policy!Addresses(j, i, Separators)' <=> Policy!Addresses(j, i, Separators)
  <2>1. \A k \in j .. i : text'[k] = text[k]
    BY <1>1
  <2>2. text'[j] = text[j]
    BY <1>1
  <2> QED BY <2>1, <2>2 DEF Policy!Addresses
<1>3. ASSUME NEW j \in 1 .. n + 1, j \notin 1 .. n PROVE ~ Policy!Addresses(j, i, Separators)'
  <2>1. ~ (j < i)
    BY <1>1, <1>3
  <2> QED BY <2>1 DEF Policy!Addresses
<1>4. {k \in DOMAIN text' : Policy!Addresses(k, i, Separators)'}
        = {k \in DOMAIN text : Policy!Addresses(k, i, Separators)}
  <2>1. \A j \in 1 .. n : j \in 1 .. n + 1
    BY <1>1
  <2> QED BY <1>1, <1>2, <1>3, <2>1
<1>5. \A j \in {k \in DOMAIN text : Policy!Addresses(k, i, Separators)} : text'[j] = text[j]
  BY <1>1
<1> QED BY <1>4, <1>5 DEF Policy!Addressees

\* A directive is addressed to those who are called before it.
LEMMA AddresseesNow ==
    ASSUME NEW n, NEW l, Longer(n, l), l.name \in Policy!Directives
    PROVE  \A i : i = n + 1 =>
             Policy!Addressees(i, Separators)' = {text[j].value : j \in Speakers}
<1>1. /\ n = Len(text) /\ n \in Nat /\ DOMAIN text' = 1 .. n + 1 /\ text'[n + 1] = l
      /\ \A i \in 1 .. n : text'[i] = text[i]
  BY DEF Longer
<1> SUFFICES ASSUME NEW i, i = n + 1
             PROVE  Policy!Addressees(i, Separators)' = {text[j].value : j \in Speakers}
  OBVIOUS
<1>2. l.name \notin Separators /\ l.name # "user-agent"
  BY DEF Separators, Policy!Directives
<1>3. ASSUME NEW j \in 1 .. n
      PROVE  Policy!Addresses(j, i, Separators)' <=> j \in Speakers
  <2>1. \A k \in j .. n + 1 : (k \in j .. n /\ text'[k] = text[k]) \/ (k = n + 1 /\ text'[k] = l)
    BY <1>1
  <2>2. \A k \in j .. n : k \in j .. n + 1 /\ text'[k] = text[k]
    BY <1>1
  <2>3. (\A k \in j .. n + 1 : text'[k].name \notin Separators)
          <=> \A k \in j .. n : text[k].name \notin Separators
    BY <1>2, <2>1, <2>2
  <2>4. (\E d, u \in j .. n + 1 : /\ d < u /\ text'[d].name \in Policy!Directives
                                  /\ text'[u].name = "user-agent")
          <=> \E d, u \in j .. n : /\ d < u /\ text[d].name \in Policy!Directives
                                   /\ text[u].name = "user-agent"
    <3>1. ASSUME NEW d \in j .. n + 1, NEW u \in j .. n + 1, d < u,
                 text'[d].name \in Policy!Directives, text'[u].name = "user-agent"
          PROVE  /\ d \in j .. n /\ u \in j .. n
                 /\ text[d].name \in Policy!Directives /\ text[u].name = "user-agent"
      <4>1. u # n + 1
        BY <1>1, <1>2, <3>1
      <4>2. u \in j .. n /\ d \in j .. n
        BY <1>1, <3>1, <4>1
      <4> QED BY <2>2, <3>1, <4>2
    <3> QED BY <2>2, <3>1
  <2>5. text'[j] = text[j] /\ j < i
    BY <1>1
  <2>6. Policy!Addresses(j, i, Separators)' <=>
          /\ text[j].name = "user-agent" /\ text[j].value # ""
          /\ \A k \in j .. n + 1 : text'[k].name \notin Separators
          /\ ~ \E d, u \in j .. n + 1 : /\ d < u /\ text'[d].name \in Policy!Directives
                                        /\ text'[u].name = "user-agent"
    BY <2>5 DEF Policy!Addresses
  <2> QED BY <1>1, <2>3, <2>4, <2>6 DEF Speakers
<1>4. {k \in DOMAIN text' : Policy!Addresses(k, i, Separators)'} = Speakers
  <2>1. ~ Policy!Addresses(i, i, Separators)'
    <3>1. ~ (i < i)
      BY <1>1
    <3> QED BY <3>1 DEF Policy!Addresses
  <2>2. Speakers \subseteq 1 .. n
    BY <1>1 DEF Speakers
  <2>3. \A j : j \in 1 .. n + 1 <=> j \in 1 .. n \/ j = i
    BY <1>1
  <2> QED BY <1>1, <1>3, <2>1, <2>2, <2>3
<1>5. \A j \in Speakers : text'[j] = text[j]
  BY <1>1 DEF Speakers
<1> QED BY <1>4, <1>5 DEF Policy!Addressees

\* A separator silences everybody; an agent line joins those that no directive
\* followed yet; nothing else changes who would be addressed next.
LEMMA SpeakersGrow ==
    ASSUME NEW n, NEW l, Longer(n, l)
    PROVE  /\ l.name \in Separators => Speakers' = {}
           /\ l.name \notin Separators \cup {"user-agent"} => Speakers' = Speakers
           /\ l.name = "user-agent" =>
                \A j : j \in Speakers' <=>
                  (j \in Speakers /\ ~ Directed(j, n)) \/ (j = n + 1 /\ l.value # "")
<1>1. /\ n = Len(text) /\ n \in Nat /\ text'[n + 1] = l /\ Len(text') = n + 1
      /\ \A i \in 1 .. n : text'[i] = text[i]
  BY DEF Longer
<1>2. "user-agent" \notin Separators /\ "user-agent" \notin Policy!Directives
  BY DEF Separators, Policy!Directives
<1> DEFINE Apart(j) == \A k \in j .. n : text[k].name \notin Separators
           Turned(j) == \E d, u \in j .. n : /\ d < u /\ text[d].name \in Policy!Directives
                                             /\ text[u].name = "user-agent"
<1>3. ASSUME NEW j \in 1 .. n
      PROVE  j \in Speakers' <=>
               /\ text[j].name = "user-agent" /\ text[j].value # ""
               /\ Apart(j) /\ l.name \notin Separators
               /\ ~ Turned(j) /\ ~ (l.name = "user-agent" /\ Directed(j, n))
  <2>1. \A k \in j .. n + 1 : (k \in j .. n /\ text'[k] = text[k]) \/ (k = n + 1 /\ text'[k] = l)
    BY <1>1
  <2>2. \A k \in j .. n : k \in j .. n + 1 /\ text'[k] = text[k] /\ k < n + 1
    BY <1>1
  <2>0. n + 1 \in j .. n + 1
    BY <1>1
  <2>3. (\A k \in j .. n + 1 : text'[k].name \notin Separators)
          <=> Apart(j) /\ l.name \notin Separators
    BY <1>1, <2>0, <2>1, <2>2
  <2>4. (\E d, u \in j .. n + 1 : /\ d < u /\ text'[d].name \in Policy!Directives
                                  /\ text'[u].name = "user-agent")
          <=> Turned(j) \/ (l.name = "user-agent" /\ Directed(j, n))
    <3>1. ASSUME NEW d \in j .. n + 1, NEW u \in j .. n + 1, d < u,
                 text'[d].name \in Policy!Directives, text'[u].name = "user-agent"
          PROVE  Turned(j) \/ (l.name = "user-agent" /\ Directed(j, n))
      <4>1. d \in j .. n /\ text[d].name \in Policy!Directives
        BY <1>1, <3>1, <2>2
      <4>2. CASE u = n + 1
        BY <1>1, <3>1, <4>1, <4>2 DEF Directed
      <4>3. CASE u # n + 1
        <5>1. u \in j .. n
          BY <1>1, <3>1, <4>3
        <5>2. text[u].name = "user-agent"
          BY <3>1, <2>2, <5>1
        <5> QED BY <3>1, <4>1, <5>1, <5>2
      <4> QED BY <4>2, <4>3
    <3>2. ASSUME Turned(j)
          PROVE \E d, u \in j .. n + 1 : /\ d < u /\ text'[d].name \in Policy!Directives
                                  /\ text'[u].name = "user-agent"
      BY <3>2, <2>2
    <3>3. ASSUME l.name = "user-agent", Directed(j, n)
          PROVE \E d, u \in j .. n + 1 : /\ d < u /\ text'[d].name \in Policy!Directives
                                  /\ text'[u].name = "user-agent"
      <4>1. PICK d \in j .. n : text[d].name \in Policy!Directives
        BY <3>3 DEF Directed
      <4>2. d \in j .. n + 1 /\ d < n + 1 /\ text'[d].name \in Policy!Directives
        BY <4>1, <2>2
      <4>3. text'[n + 1].name = "user-agent"
        BY <3>3, <1>1
      <4> QED BY <2>0, <4>2, <4>3
    <3> HIDE DEF Turned
    <3> QED BY <3>1, <3>2, <3>3
  <2>5. text'[j] = text[j] /\ j \in 1 .. n + 1
    BY <1>1
  <2>6. j \in Speakers' <=>
          /\ j \in 1 .. n + 1
          /\ text'[j].name = "user-agent" /\ text'[j].value # ""
          /\ \A k \in j .. n + 1 : text'[k].name \notin Separators
          /\ ~ \E d, u \in j .. n + 1 : /\ d < u /\ text'[d].name \in Policy!Directives
                                        /\ text'[u].name = "user-agent"
    BY <1>1 DEF Speakers
  <2> HIDE DEF Apart, Turned
  <2> QED BY <2>3, <2>4, <2>5, <2>6
<1>4. ASSUME NEW j \in 1 .. n
      PROVE  j \in Speakers <=>
               /\ text[j].name = "user-agent" /\ text[j].value # ""
               /\ Apart(j) /\ ~ Turned(j)
  BY <1>1 DEF Speakers
<1>5. n + 1 \in Speakers' <=> l.name = "user-agent" /\ l.value # ""
  <2>1. \A k \in n + 1 .. n + 1 : k = n + 1
    BY <1>1
  <2>2. ~ \E d, u \in n + 1 .. n + 1 : d < u
    BY <1>1
  <2>3. n + 1 \in 1 .. n + 1
    BY <1>1
  <2>4. \A j : j = n + 1 =>
         (j \in Speakers' <=>
          /\ j \in 1 .. n + 1
          /\ text'[j].name = "user-agent" /\ text'[j].value # ""
          /\ \A k \in j .. n + 1 : text'[k].name \notin Separators
          /\ ~ \E d, u \in j .. n + 1 : /\ d < u /\ text'[d].name \in Policy!Directives
                                        /\ text'[u].name = "user-agent")
    BY <1>1 DEF Speakers
  <2>5. (l.name = "user-agent") => \A k \in n + 1 .. n + 1 : text'[k].name \notin Separators
    BY <1>1, <1>2, <2>1
  <2> QED BY <1>1, <2>2, <2>3, <2>4, <2>5
<1>6. Speakers' \subseteq 1 .. n + 1 /\ Speakers \subseteq 1 .. n
  BY <1>1 DEF Speakers
<1>7. \A j : j \in 1 .. n + 1 <=> j \in 1 .. n \/ j = n + 1
  BY <1>1
<1>8. n + 1 \notin 1 .. n
  BY <1>1
<1> HIDE DEF Apart, Turned
<1>9. ASSUME l.name \in Separators PROVE Speakers' = {}
  BY <1>2, <1>3, <1>5, <1>6, <1>7, <1>9
<1>10. ASSUME l.name \notin Separators \cup {"user-agent"} PROVE Speakers' = Speakers
  <2> SUFFICES ASSUME NEW j PROVE j \in Speakers' <=> j \in Speakers
    OBVIOUS
  <2>1. CASE j \in 1 .. n
    BY <1>3, <1>4, <1>10, <2>1
  <2>2. CASE j \notin 1 .. n
    BY <1>5, <1>6, <1>7, <1>10, <2>2
  <2> QED BY <2>1, <2>2
<1>11. ASSUME l.name = "user-agent", NEW j
       PROVE  j \in Speakers' <=>
                (j \in Speakers /\ ~ Directed(j, n)) \/ (j = n + 1 /\ l.value # "")
  <2>1. CASE j \in 1 .. n
    BY <1>2, <1>3, <1>4, <1>8, <1>11, <2>1
  <2>2. CASE j \notin 1 .. n
    BY <1>5, <1>6, <1>7, <1>11, <2>2
  <2> QED BY <2>1, <2>2
<1> QED BY <1>9, <1>10, <1>11

\* A group goes on to the next line if that does not end it.
LEMMA JoinedGrows ==
    ASSUME NEW n, NEW l, Longer(n, l)
    PROVE  /\ \A i, j \in 1 .. n : Joined(i, j)' <=> Joined(i, j)
           /\ \A m : m = n + 1 => \A i \in 1 .. n :
                Joined(i, m)' <=> Joined(i, n) /\ l.name \notin Separators \cup {"user-agent"}
           /\ \A m : m = n + 1 => (Joined(m, m)' <=> l.name \notin Separators \cup {"user-agent"})
<1>1. /\ n \in Nat /\ text'[n + 1] = l /\ \A i \in 1 .. n : text'[i] = text[i]
  BY DEF Longer
<1>2. ASSUME NEW i \in 1 .. n, NEW j \in 1 .. n PROVE Joined(i, j)' <=> Joined(i, j)
  <2>1. \A k \in i .. j : text'[k] = text[k]
    BY <1>1
  <2> QED BY <2>1 DEF Joined
<1>3. ASSUME NEW m, m = n + 1, NEW i \in 1 .. n
      PROVE  Joined(i, m)' <=> Joined(i, n) /\ l.name \notin Separators \cup {"user-agent"}
  <2>1. \A k \in i .. m : (k \in i .. n /\ text'[k] = text[k]) \/ (k = m /\ text'[k] = l)
    BY <1>1, <1>3
  <2>2. \A k \in i .. n : k \in i .. m /\ text'[k] = text[k]
    BY <1>1, <1>3
  <2>3. m \in i .. m /\ text'[m] = l
    BY <1>1, <1>3
  <2> QED BY <2>1, <2>2, <2>3 DEF Joined
<1>4. ASSUME NEW m, m = n + 1
      PROVE  Joined(m, m)' <=> l.name \notin Separators \cup {"user-agent"}
  <2>1. \A k : k \in m .. m <=> k = m
    BY <1>1, <1>4
  <2> QED BY <1>1, <1>4, <2>1 DEF Joined
<1> QED BY <1>2, <1>3, <1>4

\* A line of agents names one agent more.
LEMMA NamedAgentsGrow ==
    ASSUME NEW n, NEW l, Longer(n, l)
    PROVE  \A a : a \in NamedAgents' <=>
             a \in NamedAgents \/ (a = l.value /\ l.name = "user-agent" /\ a # "")
<1>1. /\ n = Len(text) /\ Len(text') = n + 1
      /\ n \in Nat /\ text'[n + 1] = l /\ \A i \in 1 .. n : text'[i] = text[i]
  BY DEF Longer
<1>2. \A a : a \in NamedAgents' <=> \E i \in 1 .. n + 1 :
              text'[i].name = "user-agent" /\ text'[i].value # "" /\ a = text'[i].value
  BY <1>1 DEF NamedAgents
<1>3. \A a : a \in NamedAgents <=> \E i \in 1 .. n :
              text[i].name = "user-agent" /\ text[i].value # "" /\ a = text[i].value
  BY <1>1 DEF NamedAgents
<1>4. \A i : i \in 1 .. n + 1 <=> i \in 1 .. n \/ i = n + 1
  BY <1>1
<1>5. ASSUME NEW a
      PROVE  a \in NamedAgents' <=>
               a \in NamedAgents \/ (a = l.value /\ l.name = "user-agent" /\ a # "")
  <2>1. a \in NamedAgents' <=>
          \/ \E i \in 1 .. n : text'[i].name = "user-agent" /\ text'[i].value # "" /\ a = text'[i].value
          \/ text'[n + 1].name = "user-agent" /\ text'[n + 1].value # "" /\ a = text'[n + 1].value
    BY <1>2, <1>4
  <2>2. (\E i \in 1 .. n : text'[i].name = "user-agent" /\ text'[i].value # "" /\ a = text'[i].value)
          <=> a \in NamedAgents
    <3>1. \A i \in 1 .. n :
            (text'[i].name = "user-agent" /\ text'[i].value # "" /\ a = text'[i].value)
              <=> (text[i].name = "user-agent" /\ text[i].value # "" /\ a = text[i].value)
      <4> SUFFICES ASSUME NEW i \in 1 .. n PROVE text'[i] = text[i]
        OBVIOUS
      <4> QED BY <1>1
    <3> QED BY <1>3, <3>1
  <2> QED BY <1>1, <2>1, <2>2
<1> QED BY <1>5

\* The home of the next line.
Rehomed(home, n, h) == [i \in 1 .. n + 1 |-> IF i = n + 1 THEN h ELSE home[i]]

\* A line more tells its own home, if it is one that tells anything.
LEMMA ToldGrows ==
    ASSUME NEW n, NEW l, Longer(n, l), NEW home, NEW h, NEW names, NEW k,
           NEW home2, Rehomed(home, n, h) = home2
    PROVE  /\ Told(names, home, k) \in SUBSET (1 .. n)
           /\ IsFiniteSet(Told(names, home, k))
           /\ Told(names, home2, k)'
                = IF l.name \in names /\ Valued(l) /\ h = k
                  THEN Told(names, home, k) \cup {n + 1} ELSE Told(names, home, k)
<1> DEFINE before == Told(names, home, k)
           after == Told(names, home2, k)'
<1>1. /\ n = Len(text) /\ Len(text') = n + 1
      /\ n \in Nat /\ text'[n + 1] = l /\ \A i \in 1 .. n : text'[i] = text[i]
  BY DEF Longer
<1>2. before \in SUBSET (1 .. n)
  BY <1>1 DEF Told
<1>3. IsFiniteSet(before) /\ Cardinality(before) \in Nat
  <2> HIDE DEF before
  <2>1. IsFiniteSet(1 .. n)
    <3>1. n \in Nat
      BY <1>1
    <3> QED BY <3>1, FS_Interval
  <2> QED BY <1>2, <2>1, FS_Subset, FS_CardinalityType
<1>4. \A i : i \in before <=>
        i \in 1 .. n /\ text[i].name \in names /\ Valued(text[i]) /\ home[i] = k
  BY <1>1 DEF Told
<1>5. \A i : i \in after <=>
        /\ i \in 1 .. n + 1 /\ text'[i].name \in names /\ Valued(text'[i])
        /\ home2[i] = k
  BY <1>1 DEF Told
<1>6. /\ \A i : i \in 1 .. n + 1 <=> i \in 1 .. n \/ i = n + 1
      /\ n + 1 \notin 1 .. n
  BY <1>1
<1>7. /\ \A i \in 1 .. n : home2[i] = home[i]
      /\ home2[n + 1] = h
  BY <1>1, <1>6 DEF Rehomed
<1> HIDE DEF before, after
<1>8. \A i \in 1 .. n : i \in after <=> i \in before
  <2> SUFFICES ASSUME NEW i \in 1 .. n PROVE i \in after <=> i \in before
    OBVIOUS
  <2>1. text'[i] = text[i] /\ home2[i] = home[i] /\ i \in 1 .. n + 1
    BY <1>1, <1>6, <1>7
  <2> QED BY <1>4, <1>5, <2>1
<1>9. n + 1 \in after <=> l.name \in names /\ Valued(l) /\ h = k
  BY <1>1, <1>5, <1>6, <1>7
<1>10. after \subseteq 1 .. n + 1
  BY <1>5
<1>11. IF l.name \in names /\ Valued(l) /\ h = k
       THEN after = before \cup {n + 1} ELSE after = before
  <2> DEFINE m == n + 1
  <2>1. /\ before \subseteq 1 .. n /\ after \subseteq (1 .. n) \cup {m} /\ m \notin 1 .. n
        /\ \A i \in 1 .. n : i \in after <=> i \in before
        /\ m \in after <=> l.name \in names /\ Valued(l) /\ h = k
    BY <1>2, <1>6, <1>8, <1>9, <1>10
  <2> HIDE DEF m
  <2>2. CASE m \in after
    <3>1. after = before \cup {m}
      BY <2>1, <2>2
    <3> QED BY <2>1, <2>2, <3>1 DEF m
  <2>3. CASE m \notin after
    <3>1. after = before
      BY <2>1, <2>3
    <3> QED BY <2>1, <2>3, <3>1
  <2> QED BY <2>2, <2>3
<1> QED BY <1>2, <1>3, <1>11 DEF before, after

-----------------------------------------------------------------------------
(* Robots: what a line does to the groups.                                  *)

\* The values, rules and groups that can be made of the lines there are.
FileValues == {l.value : l \in Lines}
FileRules == {RuleOf(l) : l \in Lines}
AnyGroup == [agents : SUBSET FileValues, rules : Seq(FileRules),
             delay : Nat \cup {Policy!NoDelay}]

\* What the variables of the parser hold.
RobotsTypes ==
    /\ text \in Seq(Lines) /\ groups \in Seq(AnyGroup)
    /\ agents \in SUBSET FileValues /\ rules \in Seq(FileRules)
    /\ delay \in Nat \cup {Policy!NoDelay} /\ directivesStarted \in BOOLEAN

\* What a value is worth is a number.
LEMMA FileTypes ==
    ASSUME Policy!RobotsAssumption
    PROVE  /\ \A l \in Lines : l.name \in Policy!Names
           /\ \A l \in Lines : l.value # "" /\ l.name = "user-agent" =>
                Specificity[l.value] \in Nat \cup {-1}
           /\ \A l \in Lines : l.value # "" /\ l.name \in RuleNames => Length[l.value] \in Nat
           /\ \A l \in Lines : l.value # "" /\ l.name = "crawl-delay" => Seconds[l.value] \in Nat
           /\ MaxDelay \in Nat /\ MaxRules \in Nat /\ DefaultDelay \in Nat
  BY DEF Policy!RobotsAssumption, RuleNames

\* The smaller of two numbers.
LEMMA MinOfTwo ==
    ASSUME NEW a \in Int, NEW b \in Int
    PROVE  Policy!Min({a, b}) = IF a <= b THEN a ELSE b
<1> DEFINE m == IF a <= b THEN a ELSE b
           P(x) == \A y \in {a, b} : x <= y
<1>1. m \in {a, b} /\ P(m)
  OBVIOUS
<1>2. \A x \in {a, b} : P(x) => x = m
  OBVIOUS
<1>3. Policy!Min({a, b}) = CHOOSE x \in {a, b} : P(x)
  BY DEF Policy!Min
<1> QED BY <1>1, <1>2, <1>3

\* The groups, the one being read among them.
GroupOf(a, r, d) == [agents |-> a, rules |-> r, delay |-> d]

\* Grouped, of groups and a group being read that are given.
Together(found, a, r, d) == IF a = {} THEN found ELSE Append(found, GroupOf(a, r, d))

LEMMA GroupedTogether ==
    /\ Policy!Grouped = Together(groups, agents, rules, delay)
    /\ Policy!Grouped' = Together(groups', agents', rules', delay')
  BY DEF Policy!Grouped, Together, GroupOf

\* The group being read stands last, once it has an agent.
LEMMA TogetherIs ==
    ASSUME NEW f \in Seq(AnyGroup), NEW a \in SUBSET FileValues, NEW r \in Seq(FileRules),
           NEW d \in Nat \cup {Policy!NoDelay}
    PROVE  /\ Together(f, a, r, d) \in Seq(AnyGroup)
           /\ Len(f) \in Nat
           /\ a = {} => Together(f, a, r, d) = f
           /\ a # {} => /\ Len(Together(f, a, r, d)) = Len(f) + 1
                        /\ Together(f, a, r, d)[Len(f) + 1] = GroupOf(a, r, d)
                        /\ \A k \in 1 .. Len(f) : Together(f, a, r, d)[k] = f[k]
<1> DEFINE g == GroupOf(a, r, d)
<1>1. g \in AnyGroup
  BY DEF AnyGroup, GroupOf
<1>2. Len(f) \in Nat
  OBVIOUS
<1>3. CASE a = {}
  BY <1>2, <1>3 DEF Together
<1>4. CASE a # {}
  <2>1. Together(f, a, r, d) = Append(f, g)
    BY <1>4 DEF Together
  <2> HIDE DEF g
  <2>2. /\ Append(f, g) \in Seq(AnyGroup) /\ Len(Append(f, g)) = Len(f) + 1
        /\ Append(f, g)[Len(f) + 1] = g
        /\ \A k \in 1 .. Len(f) : Append(f, g)[k] = f[k]
    BY <1>1, AppendProperties
  <2> QED BY <1>2, <1>4, <2>1, <2>2 DEF g
<1> QED BY <1>3, <1>4

\* What a line does to the groups: nothing, one more, or a change of the last.
Added(g) ==
    LET N == Len(Policy!Grouped)
    IN  /\ N \in Nat /\ Len(Policy!Grouped') = N + 1 /\ Policy!Grouped'[N + 1] = g
        /\ \A k \in 1 .. N : Policy!Grouped'[k] = Policy!Grouped[k]

Changed(g) ==
    LET N == Len(Policy!Grouped)
    IN  /\ N \in Nat \ {0} /\ Len(Policy!Grouped') = N /\ Policy!Grouped'[N] = g
        /\ \A k \in 1 .. N : k # N => Policy!Grouped'[k] = Policy!Grouped[k]

\* The group of an agent called first.
NewGroup(v) == GroupOf({v}, <<>>, Policy!NoDelay)

\* The group being read.
Current == GroupOf(agents, rules, delay)

\* An empty line: the group being read is finished.
Ends(l) == l.name \in Separators /\ Policy!Grouped' = Policy!Grouped /\ agents' = {}

\* A line the parser passes over.
Passes(l) ==
    /\ l.name \in {"sitemap", "other"} /\ Policy!Grouped' = Policy!Grouped
    /\ agents' = agents /\ directivesStarted' = directivesStarted

\* An agent line: it calls no one, opens a group or joins the one being read.
Calls(l) ==
    /\ l.name = "user-agent" /\ ~ directivesStarted'
    /\ \/ /\ l.value = "" /\ Policy!Grouped' = Policy!Grouped
          /\ agents' = {} \/ (agents' = agents /\ ~ directivesStarted)
       \/ /\ l.value # "" /\ agents' = {l.value} /\ Added(NewGroup(l.value))
       \/ /\ l.value # "" /\ ~ directivesStarted /\ agents # {}
          /\ agents' = agents \cup {l.value}
          /\ Changed(GroupOf(agents', rules, delay))

\* What a directive adds to the group being read.
RulesWith(l) == IF l.name \in RuleNames /\ Valued(l) THEN Append(rules, RuleOf(l)) ELSE rules
DelayWith(l) == IF l.name = "crawl-delay" /\ Valued(l)
                THEN Policy!Min({MaxDelay, Seconds[l.value]}) ELSE delay

\* A directive: it changes the group being read, if there is one.
Directs(l) ==
    /\ l.name \in Policy!Directives /\ agents' = agents
    /\ IF agents = {} THEN Policy!Grouped' = Policy!Grouped
       ELSE directivesStarted'
            /\ Changed(GroupOf(agents, RulesWith(l), DelayWith(l)))

\* The groups are groups, and the one being read is the last of them.
LEMMA TypesNow ==
    ASSUME RobotsTypes
    PROVE  /\ Policy!Grouped \in Seq(AnyGroup) /\ Len(Policy!Grouped) \in Nat
           /\ agents # {} => /\ Policy!Grouped[Len(Policy!Grouped)] = Current
                             /\ Len(Policy!Grouped) # 0
<1>1. Policy!Grouped = Together(groups, agents, rules, delay)
  BY GroupedTogether
<1>2. /\ groups \in Seq(AnyGroup)
      /\ agents \in SUBSET FileValues /\ rules \in Seq(FileRules)
      /\ delay \in Nat \cup {Policy!NoDelay}
  BY DEF RobotsTypes
<1>3. Len(Policy!Grouped) \in Nat /\ Policy!Grouped \in Seq(AnyGroup)
  <2>1. Policy!Grouped \in Seq(AnyGroup)
    BY <1>1, <1>2, TogetherIs
  <2> QED BY <2>1
<1>4. ASSUME agents # {}
      PROVE  Policy!Grouped[Len(Policy!Grouped)] = Current /\ Len(Policy!Grouped) # 0
  <2>1. /\ Len(Policy!Grouped) = Len(groups) + 1 /\ Len(groups) \in Nat
        /\ Policy!Grouped[Len(groups) + 1] = Current
    BY <1>1, <1>2, <1>4, TogetherIs DEF Current
  <2> QED BY <2>1
<1> QED BY <1>3, <1>4

\* Appending a group.
LEMMA AddedIs ==
    ASSUME RobotsTypes, NEW v \in FileValues, agents' = {v}, rules' = <<>>,
           delay' = Policy!NoDelay, groups' = Policy!Grouped
    PROVE  Added(NewGroup(v))
<1>1. Policy!Grouped' = Together(Policy!Grouped, {v}, <<>>, Policy!NoDelay)
  BY GroupedTogether
<1>2. Policy!Grouped \in Seq(AnyGroup) /\ {v} \in SUBSET FileValues /\ {v} # {}
      /\ <<>> \in Seq(FileRules) /\ Policy!NoDelay \in Nat \cup {Policy!NoDelay}
  BY TypesNow
<1>3. /\ Len(Policy!Grouped) \in Nat
      /\ Len(Policy!Grouped') = Len(Policy!Grouped) + 1
      /\ Policy!Grouped'[Len(Policy!Grouped) + 1] = NewGroup(v)
      /\ \A k \in 1 .. Len(Policy!Grouped) : Policy!Grouped'[k] = Policy!Grouped[k]
  <2> DEFINE f == Policy!Grouped
             s == {v}
             e == <<>>
             d == Policy!NoDelay
  <2>1. f \in Seq(AnyGroup) /\ s \in SUBSET FileValues /\ e \in Seq(FileRules)
        /\ d \in Nat \cup {Policy!NoDelay} /\ s # {}
    BY <1>2
  <2>2. NewGroup(v) = GroupOf(s, e, d)
    BY DEF NewGroup
  <2>3. Policy!Grouped' = Together(f, s, e, d)
    BY <1>1
  <2> HIDE DEF f, s, e, d
  <2>4. /\ Len(f) \in Nat
        /\ Len(Policy!Grouped') = Len(f) + 1
        /\ Policy!Grouped'[Len(f) + 1] = NewGroup(v)
        /\ \A k \in 1 .. Len(f) : Policy!Grouped'[k] = f[k]
    BY <2>1, <2>2, <2>3, TogetherIs
  <2> QED BY <2>4 DEF f
<1> QED BY <1>3 DEF Added

\* Changing the group being read.
LEMMA ChangedIs ==
    ASSUME RobotsTypes, agents # {}, agents' # {}, groups' = groups, RobotsTypes'
    PROVE  Changed(GroupOf(agents', rules', delay'))
<1>1. /\ Policy!Grouped = Together(groups, agents, rules, delay)
      /\ Policy!Grouped' = Together(groups, agents', rules', delay')
  BY GroupedTogether
<1>2. /\ groups \in Seq(AnyGroup)
      /\ agents \in SUBSET FileValues /\ rules \in Seq(FileRules)
      /\ delay \in Nat \cup {Policy!NoDelay}
      /\ agents' \in SUBSET FileValues /\ rules' \in Seq(FileRules)
      /\ delay' \in Nat \cup {Policy!NoDelay}
  BY DEF RobotsTypes
<1>3. /\ Len(groups) \in Nat
      /\ Len(Policy!Grouped) = Len(groups) + 1
      /\ \A k \in 1 .. Len(groups) : Policy!Grouped[k] = groups[k]
  <2>1. PICK f, a, r, d : f = groups /\ a = agents /\ r = rules /\ d = delay
    OBVIOUS
  <2>2. /\ f \in Seq(AnyGroup) /\ a \in SUBSET FileValues /\ r \in Seq(FileRules)
        /\ d \in Nat \cup {Policy!NoDelay} /\ a # {}
    BY <1>2, <2>1
  <2>3. /\ Len(f) \in Nat /\ Len(Together(f, a, r, d)) = Len(f) + 1
        /\ \A k \in 1 .. Len(f) : Together(f, a, r, d)[k] = f[k]
    BY <2>2, TogetherIs
  <2> QED BY <1>1, <2>1, <2>3
<1>4. /\ Len(Policy!Grouped') = Len(groups) + 1
      /\ Policy!Grouped'[Len(groups) + 1] = GroupOf(agents', rules', delay')
      /\ \A k \in 1 .. Len(groups) : Policy!Grouped'[k] = groups[k]
  <2>1. PICK f, a, r, d : f = groups /\ a = agents' /\ r = rules' /\ d = delay'
    OBVIOUS
  <2>2. /\ f \in Seq(AnyGroup) /\ a \in SUBSET FileValues /\ r \in Seq(FileRules)
        /\ d \in Nat \cup {Policy!NoDelay} /\ a # {}
    BY <1>2, <2>1
  <2>3. /\ Len(Together(f, a, r, d)) = Len(f) + 1
        /\ Together(f, a, r, d)[Len(f) + 1] = GroupOf(a, r, d)
        /\ \A k \in 1 .. Len(f) : Together(f, a, r, d)[k] = f[k]
    BY <2>2, TogetherIs
  <2> QED BY <1>1, <2>1, <2>3
<1> DEFINE g == GroupOf(agents', rules', delay')
<1> HIDE DEF g
<1>5. /\ Len(groups) \in Nat
      /\ Len(Policy!Grouped') = Len(groups) + 1 /\ Len(Policy!Grouped) = Len(groups) + 1
      /\ Policy!Grouped'[Len(groups) + 1] = g
      /\ \A k \in 1 .. Len(groups) : Policy!Grouped'[k] = Policy!Grouped[k]
  BY <1>3, <1>4 DEF g
<1>6. PICK N : N = Len(Policy!Grouped)
  OBVIOUS
<1>7. N \in Nat \ {0} /\ \A k \in 1 .. N : k # N => k \in 1 .. Len(groups)
  BY <1>5, <1>6
<1>8. /\ Len(Policy!Grouped') = N /\ Policy!Grouped'[N] = g
      /\ \A k \in 1 .. N : k # N => Policy!Grouped'[k] = Policy!Grouped[k]
  BY <1>5, <1>6, <1>7
<1>9. Changed(g)
  BY <1>6, <1>7, <1>8 DEF Changed
<1> QED BY <1>9 DEF g

\* A step, with the line it reads.
Read(n, l) == Longer(n, l) /\ RobotsTypes' /\ (Ends(l) \/ Passes(l) \/ Calls(l) \/ Directs(l))

LEMMA FileMembers ==
    ASSUME NEW l \in Lines
    PROVE  l.value \in FileValues /\ RuleOf(l) \in FileRules
  BY DEF FileValues, FileRules

\* The actions of the parser are such steps, each of its own kind.
LEMMA EmptyLineStep ==
    ASSUME RobotsTypes, Policy!ReadEmptyLine
    PROVE  \E n \in Nat, l \in Lines :
             /\ Read(n, l) /\ Ends(l)
             /\ rules' = <<>> /\ delay' = Policy!NoDelay /\ ~ directivesStarted'
<1>1. PICK n \in Nat, l \in Lines : Longer(n, l) /\ l.name \in Separators
  BY LineLengthens DEF Policy!ReadEmptyLine, RobotsTypes, Separators
<1>2. /\ groups' = Policy!Grouped /\ rules' = <<>> /\ delay' = Policy!NoDelay
      /\ directivesStarted' = FALSE /\ agents' = {}
  BY DEF Policy!ReadEmptyLine, Policy!Flush
<1>3. Policy!Grouped \in Seq(AnyGroup)
  BY TypesNow
<1>4. RobotsTypes'
  <2>1. text' \in Seq(Lines)
    BY <1>1 DEF Longer
  <2>2. /\ groups' \in Seq(AnyGroup) /\ agents' \in SUBSET FileValues
        /\ rules' \in Seq(FileRules) /\ delay' \in Nat \cup {Policy!NoDelay}
    BY <1>2, <1>3
  <2>3. directivesStarted' \in BOOLEAN
    BY <1>2
  <2> QED BY <2>1, <2>2, <2>3 DEF RobotsTypes
<1>5. Policy!Grouped' = Policy!Grouped
  BY <1>2, GroupedTogether DEF Together
<1> QED BY <1>1, <1>2, <1>4, <1>5 DEF Read, Ends

LEMMA UngroupedStep ==
    ASSUME RobotsTypes, Policy!ReadUngrouped
    PROVE  \E n \in Nat, l \in Lines :
             Read(n, l) /\ Passes(l) /\ rules' = rules /\ delay' = delay
<1>1. PICK n \in Nat, l \in Lines : Longer(n, l) /\ l.name \in {"sitemap", "other"}
  BY LineLengthens DEF Policy!ReadUngrouped, RobotsTypes
<1>2. /\ groups' = groups /\ rules' = rules /\ delay' = delay
      /\ directivesStarted' = directivesStarted /\ agents' = agents
  BY DEF Policy!ReadUngrouped, Policy!group
<1>3. RobotsTypes'
  BY <1>1, <1>2 DEF RobotsTypes, Longer
<1>4. Policy!Grouped' = Policy!Grouped
  BY <1>2, GroupedTogether
<1> QED BY <1>1, <1>2, <1>3, <1>4 DEF Read, Passes

LEMMA AgentStep ==
    ASSUME RobotsTypes, Speaking, Policy!ReadAgent
    PROVE  \E n \in Nat, l \in Lines :
             /\ Read(n, l) /\ Calls(l)
             /\ agents' = (IF directivesStarted THEN {} ELSE agents)
                            \cup (IF l.value = "" THEN {} ELSE {l.value})
             /\ agents' = {} => rules' = <<>> /\ delay' = Policy!NoDelay
<1>1. PICK n \in Nat, l \in Lines : /\ Longer(n, l) /\ l.name \in {"user-agent"}
                                    /\ Policy!Last(text') = l
  BY LineLengthens DEF Policy!ReadAgent, RobotsTypes
<1>2. agents' = (IF directivesStarted THEN {} ELSE agents)
                   \cup (IF l.value = "" THEN {} ELSE {l.value})
  <2>1. agents' = (IF directivesStarted THEN {} ELSE agents) \cup ({l.value} \ {""})
    BY <1>1 DEF Policy!ReadAgent, Policy!Value
  <2> QED BY <2>1
<1>3. l.value \in FileValues
  BY FileMembers
<1>4. /\ groups \in Seq(AnyGroup) /\ agents \in SUBSET FileValues /\ rules \in Seq(FileRules)
      /\ delay \in Nat \cup {Policy!NoDelay}
  BY DEF RobotsTypes
<1>5. agents = {} => rules = <<>> /\ delay = Policy!NoDelay
  BY DEF Speaking
<1>6. agents' \in SUBSET FileValues
  BY <1>2, <1>3, <1>4
<1>7. text' \in Seq(Lines)
  BY <1>1 DEF Longer
<1>8. CASE directivesStarted
  <2>1. /\ groups' = Policy!Grouped /\ rules' = <<>> /\ delay' = Policy!NoDelay
        /\ directivesStarted' = FALSE
    BY <1>8 DEF Policy!ReadAgent, Policy!Flush
  <2>2. Policy!Grouped \in Seq(AnyGroup)
    BY TypesNow
  <2>3. RobotsTypes'
    <3>1. groups' \in Seq(AnyGroup) /\ rules' \in Seq(FileRules)
          /\ delay' \in Nat \cup {Policy!NoDelay}
      BY <2>1, <2>2
    <3>2. directivesStarted' \in BOOLEAN
      BY <2>1
    <3> QED BY <1>6, <1>7, <3>1, <3>2 DEF RobotsTypes
  <2>4. CASE l.value = ""
    <3>1. agents' = {}
      BY <1>2, <1>8, <2>4
    <3>2. Policy!Grouped' = Policy!Grouped
      BY <2>1, <3>1, GroupedTogether DEF Together
    <3>3. Calls(l)
      BY <1>1, <2>1, <2>4, <3>1, <3>2 DEF Calls
    <3> QED BY <1>1, <1>2, <2>1, <2>3, <3>3 DEF Read
  <2>5. CASE l.value # ""
    <3>1. agents' = {l.value}
      BY <1>2, <1>8, <2>5
    <3>2. Added(NewGroup(l.value))
      BY <1>3, <2>1, <3>1, AddedIs
    <3>3. Calls(l)
      BY <1>1, <2>1, <2>5, <3>1, <3>2 DEF Calls
    <3> QED BY <1>1, <1>2, <2>1, <2>3, <3>3 DEF Read
  <2> QED BY <2>4, <2>5
<1>9. CASE ~ directivesStarted
  <2>1. /\ groups' = groups /\ rules' = rules /\ delay' = delay
        /\ directivesStarted' = directivesStarted
    BY <1>9 DEF Policy!ReadAgent
  <2>2. RobotsTypes'
    BY <1>6, <1>7, <2>1 DEF RobotsTypes
  <2>3. agents' = {} => rules' = <<>> /\ delay' = Policy!NoDelay
    <3>1. agents' = {} => agents = {}
      BY <1>2, <1>9
    <3> QED BY <1>5, <2>1, <3>1
  <2>4. CASE l.value = ""
    <3>1. agents' = agents
      BY <1>2, <1>9, <2>4
    <3>2. Policy!Grouped' = Policy!Grouped
      BY <2>1, <3>1, GroupedTogether
    <3>3. Calls(l)
      BY <1>1, <1>9, <2>1, <2>4, <3>1, <3>2 DEF Calls
    <3> QED BY <1>1, <1>2, <2>2, <2>3, <3>3 DEF Read
  <2>5. CASE l.value # "" /\ agents = {}
    <3>1. agents' = {l.value}
      BY <1>2, <1>9, <2>5
    <3>2. groups' = Policy!Grouped
      BY <2>1, <2>5, GroupedTogether DEF Together
    <3>3. Added(NewGroup(l.value))
      BY <1>3, <1>5, <2>1, <2>5, <3>1, <3>2, AddedIs
    <3>4. Calls(l)
      BY <1>1, <1>9, <2>1, <2>5, <3>1, <3>3 DEF Calls
    <3> QED BY <1>1, <1>2, <2>2, <2>3, <3>4 DEF Read
  <2>6. CASE l.value # "" /\ agents # {}
    <3>1. agents' = agents \cup {l.value}
      BY <1>2, <1>9, <2>6
    <3>2. Changed(GroupOf(agents', rules', delay'))
      BY <2>1, <2>2, <2>6, <3>1, ChangedIs
    <3>3. Changed(GroupOf(agents', rules, delay))
      BY <2>1, <3>2
    <3>4. Calls(l)
      BY <1>1, <1>9, <2>1, <2>6, <3>1, <3>3 DEF Calls
    <3> QED BY <1>1, <1>2, <2>2, <2>3, <3>4 DEF Read
  <2> QED BY <2>4, <2>5, <2>6
<1> QED BY <1>8, <1>9

LEMMA DirectiveStep ==
    ASSUME Policy!RobotsAssumption, RobotsTypes, Policy!ReadRule \/ Policy!ReadDelay
    PROVE  \E n \in Nat, l \in Lines :
             /\ Read(n, l) /\ Directs(l)
             /\ directivesStarted' = (directivesStarted \/ agents # {})
             /\ agents = {} => rules' = rules /\ delay' = delay
<1>1. PICK n \in Nat, l \in Lines :
        /\ Longer(n, l) /\ Policy!Last(text') = l
        /\ l.name \in (IF Policy!ReadRule THEN RuleNames ELSE {"crawl-delay"})
  BY LineLengthens DEF Policy!ReadRule, Policy!ReadDelay, RobotsTypes, RuleNames
<1>2. Policy!Value = l.value
  BY <1>1 DEF Policy!Value
<1>3. /\ groups' = groups /\ agents' = agents
      /\ directivesStarted' = (directivesStarted \/ agents # {})
      /\ rules' = IF agents # {} THEN RulesWith(l) ELSE rules
      /\ delay' = IF agents # {} THEN DelayWith(l) ELSE delay
  <2>1. CASE Policy!ReadRule
    <3>1. l.name \in RuleNames /\ l.name # "crawl-delay"
      BY <1>1, <2>1 DEF RuleNames
    <3>2. /\ groups' = groups /\ agents' = agents /\ delay' = delay
          /\ directivesStarted' = (directivesStarted \/ agents # {})
          /\ rules' = IF agents # {} /\ Valued(l)
                      THEN Append(rules, [allow |-> l.name = "allow", pattern |-> l.value])
                      ELSE rules
      BY <1>1, <1>2, <2>1 DEF Policy!ReadRule, Valued
    <3>3. RulesWith(l) = (IF Valued(l) THEN Append(rules, RuleOf(l)) ELSE rules)
          /\ DelayWith(l) = delay
      BY <3>1 DEF RulesWith, DelayWith
    <3>4. RuleOf(l) = [allow |-> l.name = "allow", pattern |-> l.value]
      BY DEF RuleOf
    <3> QED BY <3>2, <3>3, <3>4
  <2>2. CASE ~ Policy!ReadRule
    <3>1. l.name \notin RuleNames /\ l.name = "crawl-delay"
      BY <1>1, <2>2 DEF RuleNames
    <3>2. /\ groups' = groups /\ agents' = agents /\ rules' = rules
          /\ directivesStarted' = (directivesStarted \/ agents # {})
          /\ delay' = IF agents # {} /\ Valued(l)
                      THEN Policy!Min({MaxDelay, Seconds[l.value]}) ELSE delay
      BY <1>2, <2>2 DEF Policy!ReadDelay, Valued
    <3>3. /\ DelayWith(l) = IF Valued(l) THEN Policy!Min({MaxDelay, Seconds[l.value]}) ELSE delay
          /\ RulesWith(l) = rules
      BY <3>1 DEF RulesWith, DelayWith
    <3> QED BY <3>2, <3>3
  <2> QED BY <2>1, <2>2
<1>4. l.name \in Policy!Directives
  BY <1>1 DEF RuleNames, Policy!Directives
<1>5. /\ groups \in Seq(AnyGroup) /\ agents \in SUBSET FileValues /\ rules \in Seq(FileRules)
      /\ delay \in Nat \cup {Policy!NoDelay} /\ directivesStarted \in BOOLEAN
  BY DEF RobotsTypes
<1>6. RulesWith(l) \in Seq(FileRules)
  <2>1. RuleOf(l) \in FileRules
    BY FileMembers
  <2>2. Append(rules, RuleOf(l)) \in Seq(FileRules)
    BY <1>5, <2>1, AppendProperties
  <2> QED BY <1>5, <2>2 DEF RulesWith
<1>7. DelayWith(l) \in Nat \cup {Policy!NoDelay}
  <2>1. CASE l.name = "crawl-delay" /\ Valued(l)
    <3>1. MaxDelay \in Nat /\ Seconds[l.value] \in Nat
      BY <2>1, FileTypes DEF Valued
    <3>2. Policy!Min({MaxDelay, Seconds[l.value]}) \in Nat
      BY <3>1, MinOfTwo
    <3> QED BY <2>1, <3>2 DEF DelayWith
  <2>2. CASE ~ (l.name = "crawl-delay" /\ Valued(l))
    BY <1>5, <2>2 DEF DelayWith
  <2> QED BY <2>1, <2>2
<1>8. RobotsTypes'
  <2>1. text' \in Seq(Lines)
    BY <1>1 DEF Longer
  <2>2. rules' \in Seq(FileRules) /\ delay' \in Nat \cup {Policy!NoDelay}
    BY <1>3, <1>5, <1>6, <1>7
  <2>3. directivesStarted' \in BOOLEAN
    BY <1>3
  <2> QED BY <1>3, <1>5, <2>1, <2>2, <2>3 DEF RobotsTypes
<1>9. Directs(l)
  <2>1. CASE agents = {}
    <3>1. Policy!Grouped' = Policy!Grouped
      BY <1>3, <2>1, GroupedTogether
    <3> QED BY <1>3, <1>4, <2>1, <3>1 DEF Directs
  <2>2. CASE agents # {}
    <3>1. Changed(GroupOf(agents', rules', delay'))
      BY <1>3, <1>8, <2>2, ChangedIs
    <3>2. Changed(GroupOf(agents, RulesWith(l), DelayWith(l)))
      BY <1>3, <2>2, <3>1
    <3> QED BY <1>3, <1>4, <2>2, <3>2 DEF Directs
  <2> QED BY <2>1, <2>2
<1>10. agents = {} => rules' = rules /\ delay' = delay
  BY <1>3
<1> QED BY <1>1, <1>3, <1>8, <1>9, <1>10 DEF Read

\* A directive has been read since an agent line, when the text grows.
LEMMA DirectedGrows ==
    ASSUME NEW n, NEW l, Longer(n, l), NEW m, m = n + 1
    PROVE  /\ \A j \in 1 .. n : Directed(j, m)' <=> Directed(j, n) \/ l.name \in Policy!Directives
           /\ Directed(m, m)' <=> l.name \in Policy!Directives
<1>1. /\ n \in Nat /\ text'[m] = l /\ \A i \in 1 .. n : text'[i] = text[i]
  BY DEF Longer
<1>2. ASSUME NEW j \in 1 .. n
      PROVE  Directed(j, m)' <=> Directed(j, n) \/ l.name \in Policy!Directives
  <2>1. \A k \in j .. m : (k \in j .. n /\ text'[k] = text[k]) \/ (k = m /\ text'[k] = l)
    BY <1>1
  <2>2. \A k \in j .. n : k \in j .. m /\ text'[k] = text[k]
    BY <1>1
  <2>3. m \in j .. m /\ text'[m] = l
    BY <1>1
  <2> QED BY <2>1, <2>2, <2>3 DEF Directed
<1>3. Directed(m, m)' <=> l.name \in Policy!Directives
  <2>1. \A k : k \in m .. m <=> k = m
    BY <1>1
  <2> QED BY <1>1, <2>1 DEF Directed
<1> QED BY <1>2, <1>3

\* The values of the speakers, and how far they have come.
LEMMA SpeakingIs ==
    ASSUME NEW n, NEW l, Longer(n, l), NEW S, S = Speakers',
           \A v : v \in agents' <=> \E j \in S : v = text'[j].value,
           IsFiniteSet(agents'),
           agents' = {} => rules' = <<>> /\ delay' = Policy!NoDelay /\ ~ directivesStarted',
           \A m : m = n + 1 => \A j \in S : Directed(j, m)' <=> directivesStarted'
    PROVE  Speaking'
<1>1. Len(text') = n + 1
  BY DEF Longer
<1>2. agents' = {text'[j].value : j \in S}
  OBVIOUS
<1>3. \A j \in S : Directed(j, Len(text))' <=> directivesStarted'
  <2> SUFFICES ASSUME NEW j \in S PROVE Directed(j, Len(text))' <=> directivesStarted'
    OBVIOUS
  <2>1. PICK m : m = n + 1
    OBVIOUS
  <2>2. Directed(j, m)' <=> \E d \in j .. m : text'[d].name \in Policy!Directives
    BY DEF Directed
  <2>3. Directed(j, Len(text))' <=> \E d \in j .. m : text'[d].name \in Policy!Directives
    BY <1>1, <2>1 DEF Directed
  <2> QED BY <2>1, <2>2, <2>3
<1> QED BY <1>2, <1>3 DEF Speaking

-----------------------------------------------------------------------------
(* Robots: the agents called last.                                          *)

\* The agents called last, before the step.
LEMMA SpeakersWere ==
    ASSUME NEW n, NEW l, Longer(n, l), Speaking
    PROVE  /\ Speakers \subseteq 1 .. n
           /\ \A v : v \in agents <=> \E j \in Speakers : v = text[j].value
           /\ IsFiniteSet(agents)
           /\ agents = {} => rules = <<>> /\ delay = Policy!NoDelay /\ ~ directivesStarted
           /\ \A j \in Speakers : Directed(j, n) <=> directivesStarted
           /\ \A j \in Speakers : text'[j] = text[j]
           /\ agents = {} <=> Speakers = {}
<1>1. /\ n = Len(text) /\ \A i \in 1 .. n : text'[i] = text[i]
  BY DEF Longer
<1>2. Speakers \subseteq 1 .. n
  BY <1>1 DEF Speakers
<1>3. /\ agents = {text[j].value : j \in Speakers} /\ IsFiniteSet(agents)
      /\ agents = {} => rules = <<>> /\ delay = Policy!NoDelay /\ ~ directivesStarted
      /\ \A j \in Speakers : Directed(j, n) <=> directivesStarted
  BY <1>1 DEF Speaking
<1>4. \A v : v \in agents <=> \E j \in Speakers : v = text[j].value
  BY <1>3
<1>5. agents = {} <=> Speakers = {}
  BY <1>4
<1> QED BY <1>1, <1>2, <1>3, <1>4, <1>5

\* An empty line silences every agent.
LEMMA EndsSpeaking ==
    ASSUME NEW n, NEW l, Longer(n, l), Ends(l), rules' = <<>>, delay' = Policy!NoDelay,
           ~ directivesStarted'
    PROVE  Speaking'
<1>1. l.name \in Separators /\ agents' = {}
  BY DEF Ends
<1>2. Speakers' = {}
  BY <1>1, SpeakersGrow
<1>3. IsFiniteSet(agents')
  BY <1>1, FS_EmptySet
<1> QED BY <1>1, <1>2, <1>3, SpeakingIs

\* Lines that are not for the agents: everything, or directives.
LEMMA OthersSpeaking ==
    ASSUME NEW n, NEW l, Longer(n, l), Speaking,
           l.name \notin Separators \cup {"user-agent"}, agents' = agents,
           l.name \in Policy!Directives => (agents # {} => directivesStarted'),
           l.name \notin Policy!Directives => directivesStarted' = directivesStarted,
           agents = {} => rules' = rules /\ delay' = delay /\ directivesStarted' = directivesStarted
    PROVE  Speaking'
<1>1. Speakers' = Speakers
  BY SpeakersGrow
<1>2. /\ Speakers \subseteq 1 .. n
      /\ \A v : v \in agents <=> \E j \in Speakers : v = text[j].value
      /\ IsFiniteSet(agents)
      /\ agents = {} => rules = <<>> /\ delay = Policy!NoDelay /\ ~ directivesStarted
      /\ \A j \in Speakers : Directed(j, n) <=> directivesStarted
      /\ \A j \in Speakers : text'[j] = text[j]
      /\ agents = {} <=> Speakers = {}
  BY SpeakersWere
<1>3. \A v : v \in agents' <=> \E j \in Speakers : v = text'[j].value
  BY <1>2
<1>4. \A m : m = n + 1 => \A j \in Speakers : Directed(j, m)' <=> directivesStarted'
  <2> SUFFICES ASSUME NEW m, m = n + 1, NEW j \in Speakers
               PROVE  Directed(j, m)' <=> directivesStarted'
    OBVIOUS
  <2>1. j \in 1 .. n /\ agents # {}
    BY <1>2
  <2>2. Directed(j, m)' <=> Directed(j, n) \/ l.name \in Policy!Directives
    BY <2>1, DirectedGrows
  <2>3. Directed(j, n) <=> directivesStarted
    BY <1>2
  <2> QED BY <2>1, <2>2, <2>3
<1>5. agents' = {} => rules' = <<>> /\ delay' = Policy!NoDelay /\ ~ directivesStarted'
  BY <1>2
<1>6. IsFiniteSet(agents')
  BY <1>2
<1> QED BY <1>1, <1>3, <1>4, <1>5, <1>6, SpeakingIs

\* An agent line adds its agent to those called last, or replaces them.
LEMMA CallsSpeaking ==
    ASSUME NEW n, NEW l, Longer(n, l), Speaking, Calls(l),
           agents' = (IF directivesStarted THEN {} ELSE agents)
                       \cup (IF l.value = "" THEN {} ELSE {l.value}),
           agents' = {} => rules' = <<>> /\ delay' = Policy!NoDelay
    PROVE  Speaking'
<1>1. l.name = "user-agent" /\ ~ directivesStarted' /\ n \in Nat /\ text'[n + 1] = l
  BY DEF Calls, Longer
<1>2. /\ Speakers \subseteq 1 .. n
      /\ \A v : v \in agents <=> \E j \in Speakers : v = text[j].value
      /\ IsFiniteSet(agents)
      /\ \A j \in Speakers : Directed(j, n) <=> directivesStarted
      /\ \A j \in Speakers : text'[j] = text[j]
  BY SpeakersWere
<1>3. \A j : j \in Speakers' <=>
               (j \in Speakers /\ ~ Directed(j, n)) \/ (j = n + 1 /\ l.value # "")
  BY <1>1, SpeakersGrow
<1>4. \A j : j \in Speakers' <=>
               (j \in Speakers /\ ~ directivesStarted) \/ (j = n + 1 /\ l.value # "")
  BY <1>2, <1>3
<1>5. IsFiniteSet(agents')
  <2>1. IsFiniteSet(agents \cup {l.value}) /\ IsFiniteSet({l.value}) /\ IsFiniteSet({})
    BY <1>2, FS_AddElement, FS_Singleton, FS_EmptySet
  <2>2. agents' \subseteq agents \cup {l.value}
    OBVIOUS
  <2> QED BY <2>1, <2>2, FS_Subset
<1>6. PICK S : S = Speakers'
  OBVIOUS
<1>7. \A v : v \in agents' <=> \E j \in S : v = text'[j].value
  <2> SUFFICES ASSUME NEW v PROVE v \in agents' <=> \E j \in S : v = text'[j].value
    OBVIOUS
  <2>1. v \in agents' <=> (v \in agents /\ ~ directivesStarted) \/ (v = l.value /\ l.value # "")
    OBVIOUS
  <2>2. ASSUME v \in agents, ~ directivesStarted PROVE \E j \in S : v = text'[j].value
    <3>1. PICK j \in Speakers : v = text[j].value
      BY <1>2, <2>2
    <3>2. j \in S /\ text'[j] = text[j]
      BY <1>2, <1>4, <1>6, <2>2
    <3> QED BY <3>1, <3>2
  <2>3. ASSUME v = l.value, l.value # "" PROVE \E j \in S : v = text'[j].value
    <3>1. n + 1 \in S
      BY <1>4, <1>6, <2>3
    <3> QED BY <1>1, <2>3, <3>1
  <2>4. ASSUME NEW j \in S, v = text'[j].value PROVE v \in agents'
    <3>1. CASE j \in Speakers /\ ~ directivesStarted
      <4>1. v = text[j].value
        BY <1>2, <2>4, <3>1
      <4> QED BY <1>2, <2>1, <3>1, <4>1
    <3>2. CASE j = n + 1 /\ l.value # ""
      BY <1>1, <2>1, <2>4, <3>2
    <3> QED BY <1>4, <1>6, <3>1, <3>2
  <2> QED BY <2>1, <2>2, <2>3, <2>4
<1>8. \A m : m = n + 1 => \A j \in S : Directed(j, m)' <=> directivesStarted'
  <2> SUFFICES ASSUME NEW m, m = n + 1, NEW j \in S PROVE ~ Directed(j, m)'
    BY <1>1
  <2>0. "user-agent" \notin Policy!Directives
    BY DEF Policy!Directives
  <2>1. /\ \A i \in 1 .. n : Directed(i, m)' <=> Directed(i, n) \/ l.name \in Policy!Directives
        /\ Directed(m, m)' <=> l.name \in Policy!Directives
    BY DirectedGrows
  <2>2. CASE j \in Speakers /\ ~ directivesStarted
    <3>1. j \in 1 .. n /\ ~ Directed(j, n)
      BY <1>2, <2>2
    <3> QED BY <1>1, <2>0, <2>1, <3>1
  <2>3. CASE j = m
    BY <1>1, <2>0, <2>1, <2>3
  <2> QED BY <1>4, <1>6, <2>2, <2>3
<1> QED BY <1>1, <1>5, <1>6, <1>7, <1>8, SpeakingIs

\* Every step reads a line, and knows who is spoken to.
LEMMA RobotsRead ==
    ASSUME Policy!RobotsAssumption, RobotsTypes, Speaking, Policy!Next
    PROVE  Speaking' /\ \E n \in Nat, l \in Lines : Read(n, l)
<1>1. CASE Policy!ReadEmptyLine
  <2>1. PICK n \in Nat, l \in Lines :
          /\ Read(n, l) /\ Ends(l)
          /\ rules' = <<>> /\ delay' = Policy!NoDelay /\ ~ directivesStarted'
    BY <1>1, EmptyLineStep
  <2>2. Longer(n, l)
    BY <2>1 DEF Read
  <2> QED BY <2>1, <2>2, EndsSpeaking
<1>2. CASE Policy!ReadUngrouped
  <2>1. PICK n \in Nat, l \in Lines :
          Read(n, l) /\ Passes(l) /\ rules' = rules /\ delay' = delay
    BY <1>2, UngroupedStep
  <2>2. Longer(n, l)
    BY <2>1 DEF Read
  <2>3. /\ l.name \notin Separators \cup {"user-agent"} /\ l.name \notin Policy!Directives
        /\ agents' = agents /\ directivesStarted' = directivesStarted
    BY <2>1 DEF Passes, Separators, Policy!Directives
  <2>4. Speaking'
    BY <2>1, <2>2, <2>3, OthersSpeaking
  <2> QED BY <2>1, <2>4
<1>3. CASE Policy!ReadAgent
  <2>1. PICK n \in Nat, l \in Lines :
             /\ Read(n, l) /\ Calls(l)
             /\ agents' = (IF directivesStarted THEN {} ELSE agents)
                            \cup (IF l.value = "" THEN {} ELSE {l.value})
             /\ agents' = {} => rules' = <<>> /\ delay' = Policy!NoDelay
    BY <1>3, AgentStep
  <2>2. Longer(n, l)
    BY <2>1 DEF Read
  <2>3. Speaking'
    BY <2>1, <2>2, CallsSpeaking
  <2> QED BY <2>1, <2>3
<1>4. CASE Policy!ReadRule \/ Policy!ReadDelay
  <2>1. PICK n \in Nat, l \in Lines :
             /\ Read(n, l) /\ Directs(l)
             /\ directivesStarted' = (directivesStarted \/ agents # {})
             /\ agents = {} => rules' = rules /\ delay' = delay
    BY <1>4, DirectiveStep
  <2>2. Longer(n, l)
    BY <2>1 DEF Read
  <2>3. /\ l.name \notin Separators \cup {"user-agent"} /\ l.name \in Policy!Directives
        /\ agents' = agents
    BY <2>1 DEF Directs, Separators, Policy!Directives
  <2>4. agents = {} => ~ directivesStarted
    BY DEF Speaking
  <2>5. /\ agents # {} => directivesStarted'
        /\ agents = {} => directivesStarted' = directivesStarted
    <3>1. directivesStarted \in BOOLEAN
      BY DEF RobotsTypes
    <3> QED BY <2>1, <2>4, <3>1
  <2>6. Speaking'
    BY <2>1, <2>2, <2>3, <2>5, OthersSpeaking
  <2> QED BY <2>1, <2>6
<1> QED BY <1>1, <1>2, <1>3, <1>4 DEF Policy!Next

-----------------------------------------------------------------------------
(* Robots: the home of each directive, and what a group is told.            *)

\* The rules of finitely many lines are a sequence.
LEMMA RuledIs ==
    ASSUME text \in Seq(Lines), NEW P \in SUBSET (1 .. Len(text)), IsFiniteSet(P)
    PROVE  /\ Ruled(P) \in Seq(FileRules) /\ Len(Ruled(P)) = Cardinality(P)
           /\ Cardinality(P) \in Nat
<1>1. Cardinality(P) \in Nat /\ Len(text) \in Nat
  BY FS_CardinalityType
<1>2. \A m \in 1 .. Cardinality(P) : Nth(P, m) \in 1 .. Len(text)
  <2>1. P \in SUBSET Nat
    BY <1>1
  <2> QED BY <2>1, NthIs
<1>3. \A i \in 1 .. Len(text) : RuleOf(text[i]) \in FileRules
  <2>1. \A i \in 1 .. Len(text) : text[i] \in Lines
    OBVIOUS
  <2> QED BY <2>1, FileMembers
<1>4. Ruled(P) \in [1 .. Cardinality(P) -> FileRules]
  BY <1>2, <1>3 DEF Ruled
<1> QED BY <1>1, <1>4, SeqDef

\* A line more adds its own rule at the end.
LEMMA RuledGrows ==
    ASSUME NEW n, NEW l, Longer(n, l), NEW P \in SUBSET (1 .. n), IsFiniteSet(P)
    PROVE  /\ Ruled(P)' = Ruled(P)
           /\ Ruled(P \cup {n + 1})' = Append(Ruled(P), RuleOf(l))
<1>1. /\ n = Len(text) /\ n \in Nat /\ text \in Seq(Lines) /\ text'[n + 1] = l
      /\ \A i \in 1 .. n : text'[i] = text[i]
      /\ l \in Lines
  BY DEF Longer
<1> DEFINE c == Cardinality(P)
<1>2. P \in SUBSET Nat
  BY <1>1
<1>3. c \in Nat /\ Ruled(P) \in Seq(FileRules) /\ Len(Ruled(P)) = c
  BY <1>1, RuledIs
<1>4. \A m \in 1 .. c : Nth(P, m) \in P
  BY <1>2, NthIs
<1>5. \A m \in 1 .. c : text'[Nth(P, m)] = text[Nth(P, m)]
  BY <1>1, <1>4
<1>6. Ruled(P)' = Ruled(P)
  BY <1>5 DEF Ruled
<1>7. /\ Cardinality(P \cup {n + 1}) = c + 1
      /\ \A m \in 1 .. c : Nth(P \cup {n + 1}, m) = Nth(P, m)
      /\ Nth(P \cup {n + 1}, c + 1) = n + 1
  <2>1. n + 1 \in Nat /\ \A i \in P : i < n + 1
    BY <1>1
  <2> HIDE DEF c
  <2>2. /\ Cardinality(P \cup {n + 1}) = Cardinality(P) + 1
        /\ \A m \in 1 .. Cardinality(P) : Nth(P \cup {n + 1}, m) = Nth(P, m)
        /\ Nth(P \cup {n + 1}, Cardinality(P) + 1) = n + 1
    BY <1>2, <2>1, NthLast
  <2> QED BY <2>2 DEF c
<1>8. Ruled(P \cup {n + 1})'
        = [m \in 1 .. c + 1 |-> RuleOf(text'[Nth(P \cup {n + 1}, m)])]
  BY <1>7 DEF Ruled
<1>9. \A m \in 1 .. c : RuleOf(text'[Nth(P \cup {n + 1}, m)]) = Ruled(P)[m]
  BY <1>5, <1>7 DEF Ruled
<1> HIDE DEF c
<1>10. Ruled(P \cup {n + 1})'
         = [m \in 1 .. c + 1 |-> IF m = c + 1 THEN RuleOf(l) ELSE Ruled(P)[m]]
  <2>1. \A m \in 1 .. c + 1 : m \in 1 .. c \/ m = c + 1
    BY <1>3
  <2>2. \A m \in 1 .. c + 1 : RuleOf(text'[Nth(P \cup {n + 1}, m)])
                                = IF m = c + 1 THEN RuleOf(l) ELSE Ruled(P)[m]
    BY <1>1, <1>3, <1>7, <1>9, <2>1
  <2> QED BY <1>8, <2>2
<1>11. Ruled(P \cup {n + 1})' = Append(Ruled(P), RuleOf(l))
  <2> DEFINE f == Ruled(P \cup {n + 1})'
             s == Ruled(P)
             r == RuleOf(l)
  <2>1. s \in Seq(FileRules) /\ Len(s) = c /\ r \in FileRules
    BY <1>1, <1>3, FileMembers
  <2>2. f = [m \in 1 .. c + 1 |-> IF m = c + 1 THEN r ELSE s[m]]
    BY <1>10
  <2> HIDE DEF f, s, r
  <2>3. f = Append(s, r)
    BY <1>3, <2>1, <2>2, AppendIs
  <2> QED BY <2>3 DEF f, s, r
<1> QED BY <1>6, <1>11

\* What a group is given by its lines.
Given(home, k, r, d) ==
    r = Ruled(Told(RuleNames, home, k)) /\ DelayTold(home, k, d)

\* A group that the next line is not in keeps its rules and its delay.
LEMMA GivenKept ==
    ASSUME NEW n, NEW l, Longer(n, l), NEW home, NEW h, NEW k, NEW r, NEW d,
           h # k \/ (l.name \notin RuleNames /\ l.name \notin DelayNames),
           Given(home, k, r, d), NEW home2, Rehomed(home, n, h) = home2
    PROVE  Given(home2, k, r, d)'
<1> DEFINE P == Told(RuleNames, home, k)
           D == Told(DelayNames, home, k)
<1>1. /\ P \in SUBSET (1 .. n) /\ IsFiniteSet(P) /\ D \in SUBSET (1 .. n)
      /\ Told(RuleNames, home2, k)' = P /\ Told(DelayNames, home2, k)' = D
  <2>1. /\ ~ (l.name \in RuleNames /\ Valued(l) /\ h = k)
        /\ ~ (l.name \in DelayNames /\ Valued(l) /\ h = k)
    OBVIOUS
  <2>2. P \in SUBSET (1 .. n) /\ IsFiniteSet(P) /\ Told(RuleNames, home2, k)' = P
    BY <2>1, ToldGrows
  <2>3. D \in SUBSET (1 .. n) /\ Told(DelayNames, home2, k)' = D
    BY <2>1, ToldGrows
  <2> QED BY <2>2, <2>3
<1>2. \A i \in 1 .. n : text'[i] = text[i]
  BY DEF Longer
<1>3. r = Ruled(P) /\ IF D = {} THEN d = Policy!NoDelay
                      ELSE \E i \in D : /\ \A j \in D : j <= i
                                        /\ d = Policy!Min({MaxDelay, Seconds[text[i].value]})
  BY DEF Given, DelayTold
<1> HIDE DEF P, D
<1>4. PICK Q : Q = P
  OBVIOUS
<1>5. Ruled(Q)' = Ruled(Q)
  BY <1>1, <1>4, RuledGrows
<1>6. Ruled(Told(RuleNames, home2, k))' = Ruled(Q)'
  BY <1>1, <1>4 DEF Ruled
<1>7. IF D = {} THEN d = Policy!NoDelay
      ELSE \E i \in D : /\ \A j \in D : j <= i
                        /\ d = Policy!Min({MaxDelay, Seconds[text'[i].value]})
  BY <1>1, <1>2, <1>3
<1>8. DelayTold(home2, k, d)'
  BY <1>1, <1>7 DEF DelayTold
<1> QED BY <1>3, <1>4, <1>5, <1>6, <1>8 DEF Given

\* The group that the next line is in is given what the line says.
LEMMA GivenMore ==
    ASSUME NEW n, NEW l, Longer(n, l), NEW home, NEW h,
           NEW r, r = RulesWith(l), NEW d, d = DelayWith(l),
           Given(home, h, rules, delay), NEW home2, Rehomed(home, n, h) = home2
    PROVE  Given(home2, h, r, d)'
<1> DEFINE P == Told(RuleNames, home, h)
           D == Told(DelayNames, home, h)
<1>1. /\ n \in Nat /\ text'[n + 1] = l /\ \A i \in 1 .. n : text'[i] = text[i]
  BY DEF Longer
<1>2. /\ rules = Ruled(P)
      /\ IF D = {} THEN delay = Policy!NoDelay
         ELSE \E i \in D : /\ \A j \in D : j <= i
                           /\ delay = Policy!Min({MaxDelay, Seconds[text[i].value]})
  BY DEF Given, DelayTold
<1>3. /\ P \in SUBSET (1 .. n) /\ IsFiniteSet(P)
      /\ Told(RuleNames, home2, h)'
           = IF l.name \in RuleNames /\ Valued(l) THEN P \cup {n + 1} ELSE P
  BY ToldGrows
<1>4. /\ D \in SUBSET (1 .. n)
      /\ Told(DelayNames, home2, h)'
           = IF l.name = "crawl-delay" /\ Valued(l) THEN D \cup {n + 1} ELSE D
  <2>1. /\ D \in SUBSET (1 .. n)
        /\ Told(DelayNames, home2, h)'
             = IF l.name \in DelayNames /\ Valued(l) THEN D \cup {n + 1} ELSE D
    BY ToldGrows
  <2> QED BY <2>1 DEF DelayNames
<1> HIDE DEF P, D
<1>5. r = Ruled(Told(RuleNames, home2, h))'
  <2>1. PICK Q : Q = P
    OBVIOUS
  <2>2. Ruled(Q)' = Ruled(Q) /\ Ruled(Q \cup {n + 1})' = Append(Ruled(Q), RuleOf(l))
    BY <1>3, <2>1, RuledGrows
  <2>3. CASE l.name \in RuleNames /\ Valued(l)
    <3>1. r = Append(Ruled(Q), RuleOf(l))
      BY <1>2, <2>1, <2>3 DEF RulesWith
    <3>2. Told(RuleNames, home2, h)' = Q \cup {n + 1}
      BY <1>3, <2>1, <2>3
    <3>3. Ruled(Told(RuleNames, home2, h))' = Ruled(Q \cup {n + 1})'
      BY <3>2 DEF Ruled
    <3> QED BY <2>2, <3>1, <3>3
  <2>4. CASE ~ (l.name \in RuleNames /\ Valued(l))
    <3>1. r = Ruled(Q)
      BY <1>2, <2>1, <2>4 DEF RulesWith
    <3>2. Told(RuleNames, home2, h)' = Q
      BY <1>3, <2>1, <2>4
    <3>3. Ruled(Told(RuleNames, home2, h))' = Ruled(Q)'
      BY <3>2 DEF Ruled
    <3> QED BY <2>2, <3>1, <3>3
  <2> QED BY <2>3, <2>4
<1>6. DelayTold(home2, h, d)'
  <2>1. PICK E : E = Told(DelayNames, home2, h)'
    OBVIOUS
  <2>2. SUFFICES IF E = {} THEN d = Policy!NoDelay
                 ELSE \E i \in E : /\ \A j \in E : j <= i
                                   /\ d = Policy!Min({MaxDelay, Seconds[text'[i].value]})
    BY <2>1 DEF DelayTold
  <2>3. CASE l.name = "crawl-delay" /\ Valued(l)
    <3>1. E = D \cup {n + 1}
      BY <1>4, <2>1, <2>3
    <3>2. \A j \in E : j <= n + 1
      <4>1. \A j \in 1 .. n : j <= n + 1
        BY <1>1
      <4> QED BY <1>1, <1>4, <3>1, <4>1
    <3>3. d = Policy!Min({MaxDelay, Seconds[l.value]})
      BY <2>3 DEF DelayWith
    <3> QED BY <1>1, <3>1, <3>2, <3>3
  <2>4. CASE ~ (l.name = "crawl-delay" /\ Valued(l))
    <3>1. E = D
      BY <1>4, <2>1, <2>4
    <3>2. d = delay
      BY <2>4 DEF DelayWith
    <3> QED BY <1>1, <1>2, <1>4, <3>1, <3>2
  <2> QED BY <2>3, <2>4
<1> QED BY <1>5, <1>6 DEF Given

\* The homes, before the step and after it.
LEMMA HomesAre ==
    ASSUME NEW n, NEW l, Longer(n, l), NEW home, Homes(home), NEW N, N = Len(Policy!Grouped)
    PROVE  /\ home \in [1 .. n -> 0 .. N]
           /\ \A i \in 1 .. n :
                IF text[i].name \in Policy!Directives
                THEN Policy!Addressees(i, Separators)
                       = IF home[i] = 0 THEN {} ELSE Policy!Grouped[home[i]].agents
                ELSE home[i] = 0
           /\ \A i, j \in 1 .. n : i < j /\ home[i] # 0 /\ home[j] # 0 =>
                home[i] <= home[j] /\ (home[i] = home[j] <=> Joined(i, j))
           /\ \A i \in 1 .. n : home[i] # 0 => (Joined(i, n) <=> agents # {} /\ home[i] = N)
           /\ agents # {} /\ ~ directivesStarted => \A i \in 1 .. n : home[i] # N
  BY DEF Homes, Longer

LEMMA HomesBe ==
    ASSUME NEW n, NEW l, Longer(n, l), Speaking, NEW home, Homes(home),
           NEW N \in Nat, N = Len(Policy!Grouped), NEW N2 \in Nat, N2 = Len(Policy!Grouped'),
           N <= N2, NEW h \in 0 .. N2, NEW home2, Rehomed(home, n, h) = home2,
           \A i \in 1 .. n : home[i] # 0 =>
             Policy!Grouped'[home[i]].agents = Policy!Grouped[home[i]].agents,
           IF l.name \in Policy!Directives
           THEN /\ l.name \notin Separators \cup {"user-agent"}
                /\ N2 = N /\ agents' = agents
                /\ h = (IF agents = {} THEN 0 ELSE N)
                /\ h # 0 => Policy!Grouped'[h].agents = agents
                /\ agents # {} => directivesStarted'
           ELSE h = 0,
           \A m : m = n + 1 => \A i \in 1 .. n : home[i] # 0 =>
             (Joined(i, m)' <=> agents' # {} /\ home[i] = N2),
           agents' # {} => N2 # 0,
           agents' # {} /\ ~ directivesStarted' => \A i \in 1 .. n : home[i] # N2
    PROVE  Homes(home2)'
<1>1. /\ n \in Nat /\ Len(text') = n + 1 /\ text'[n + 1] = l
      /\ \A i \in 1 .. n : text'[i] = text[i]
  BY DEF Longer
<1>2. /\ home \in [1 .. n -> 0 .. N]
      /\ \A i \in 1 .. n :
           IF text[i].name \in Policy!Directives
           THEN Policy!Addressees(i, Separators)
                  = IF home[i] = 0 THEN {} ELSE Policy!Grouped[home[i]].agents
           ELSE home[i] = 0
      /\ \A i, j \in 1 .. n : i < j /\ home[i] # 0 /\ home[j] # 0 =>
           home[i] <= home[j] /\ (home[i] = home[j] <=> Joined(i, j))
      /\ \A i \in 1 .. n : home[i] # 0 => (Joined(i, n) <=> agents # {} /\ home[i] = N)
  BY HomesAre
<1>3. PICK m : m = n + 1
  OBVIOUS
<1>4. /\ m \in Nat /\ m \notin 1 .. n /\ \A i : i \in 1 .. m <=> i \in 1 .. n \/ i = m
      /\ \A i \in 1 .. n : i \in Nat /\ i < m
  BY <1>1, <1>3
<1>5. /\ home2 = [i \in 1 .. m |-> IF i = m THEN h ELSE home[i]]
  BY <1>3 DEF Rehomed
<1>6. home2[m] = h /\ \A i \in 1 .. n : home2[i] = home[i]
  BY <1>4, <1>5
<1>7. home2 \in [1 .. m -> 0 .. N2]
  <2>1. \A i \in 1 .. m : (IF i = m THEN h ELSE home[i]) \in 0 .. N2
    <3>1. \A i \in 1 .. n : home[i] \in 0 .. N2
      <4>1. \A x \in 0 .. N : x \in 0 .. N2
        OBVIOUS
      <4> QED BY <1>2, <4>1
    <3> QED BY <1>4, <3>1
  <2> QED BY <1>5, <2>1
<1>8. ASSUME NEW i \in 1 .. m
      PROVE  IF text'[i].name \in Policy!Directives
             THEN Policy!Addressees(i, Separators)'
                    = IF home2[i] = 0 THEN {} ELSE Policy!Grouped'[home2[i]].agents
             ELSE home2[i] = 0
  <2>1. CASE i \in 1 .. n
    <3>1. Policy!Addressees(i, Separators)' = Policy!Addressees(i, Separators)
      BY <2>1, AddresseesKept
    <3>2. text'[i] = text[i] /\ home2[i] = home[i]
      BY <1>1, <1>6, <2>1
    <3> QED BY <1>2, <2>1, <3>1, <3>2
  <2>2. CASE i = m
    <3>1. text'[i] = l /\ home2[i] = h
      BY <1>1, <1>3, <1>6, <2>2
    <3>2. ASSUME l.name \in Policy!Directives
          PROVE  Policy!Addressees(i, Separators)' = agents
      <4>1. Policy!Addressees(i, Separators)' = {text[j].value : j \in Speakers}
        BY <1>3, <2>2, <3>2, AddresseesNow
      <4> QED BY <4>1 DEF Speaking
    <3>3. CASE l.name \in Policy!Directives
      <4>1. CASE agents = {}
        BY <3>1, <3>2, <3>3, <4>1
      <4>2. CASE agents # {}
        <5>1. h # 0
          BY <1>2, <3>3, <4>2
        <5> QED BY <3>1, <3>2, <3>3, <5>1
      <4> QED BY <4>1, <4>2
    <3>4. CASE l.name \notin Policy!Directives
      BY <3>1, <3>4
    <3> QED BY <3>3, <3>4
  <2> QED BY <1>4, <2>1, <2>2
<1>9. ASSUME NEW i \in 1 .. m, NEW j \in 1 .. m, i < j, home2[i] # 0, home2[j] # 0
      PROVE  home2[i] <= home2[j] /\ (home2[i] = home2[j] <=> Joined(i, j)')
  <2>1. i \in 1 .. n
    BY <1>3, <1>1, <1>9
  <2>2. home2[i] = home[i] /\ home[i] \in 0 .. N
    BY <1>2, <1>6, <2>1
  <2>3. CASE j \in 1 .. n
    <3>1. Joined(i, j)' <=> Joined(i, j)
      BY <2>1, <2>3, JoinedGrows
    <3> QED BY <1>2, <1>6, <1>9, <2>1, <2>3, <3>1
  <2>4. CASE j = m
    <3>1. home2[j] = h /\ h # 0
      BY <1>6, <1>9, <2>4
    <3>2. N2 = N /\ agents' = agents /\ agents # {} /\ h = N
      BY <3>1
    <3>3. Joined(i, j)' <=> home[i] = N2
      BY <1>3, <1>9, <2>1, <2>2, <2>4, <3>2
    <3> QED BY <2>2, <3>1, <3>2, <3>3
  <2> QED BY <1>4, <2>3, <2>4
<1>10. ASSUME NEW i \in 1 .. m, home2[i] # 0
       PROVE  Joined(i, m)' <=> agents' # {} /\ home2[i] = N2
  <2>1. CASE i \in 1 .. n
    BY <1>3, <1>6, <1>10, <2>1
  <2>2. CASE i = m
    <3>1. home2[i] = h /\ h # 0
      BY <1>6, <1>10, <2>2
    <3>2. N2 = N /\ agents' = agents /\ agents # {} /\ h = N
          /\ l.name \notin Separators \cup {"user-agent"}
      BY <3>1
    <3>3. Joined(m, m)'
      BY <1>3, <3>2, JoinedGrows
    <3> QED BY <2>2, <3>1, <3>2, <3>3
  <2> QED BY <1>4, <2>1, <2>2
<1>11. ASSUME agents' # {}, ~ directivesStarted', NEW i \in 1 .. m PROVE home2[i] # N2
  <2>1. CASE i \in 1 .. n
    BY <1>6, <1>11, <2>1
  <2>2. CASE i = m
    <3>1. l.name \notin Policy!Directives
      BY <1>11
    <3> QED BY <1>6, <1>11, <2>2, <3>1
  <2> QED BY <1>4, <2>1, <2>2
<1>12. m = Len(text')
  BY <1>1, <1>3
<1>13. \A i \in 1 .. m : home2[i] # 0 => (Joined(i, Len(text))' <=> agents' # {} /\ home2[i] = N2)
  <2> SUFFICES ASSUME NEW i \in 1 .. m, home2[i] # 0
               PROVE  Joined(i, Len(text))' <=> agents' # {} /\ home2[i] = N2
    OBVIOUS
  <2>1. Joined(i, Len(text))' <=> Joined(i, m)'
    BY <1>12 DEF Joined
  <2> QED BY <1>10, <2>1
<1>14. /\ home2 \in [1 .. Len(text') -> 0 .. Len(Policy!Grouped')]
       /\ \A i \in 1 .. Len(text') :
             IF text'[i].name \in Policy!Directives
             THEN Policy!Addressees(i, Separators)'
                    = IF home2[i] = 0 THEN {} ELSE Policy!Grouped'[home2[i]].agents
             ELSE home2[i] = 0
       /\ \A i, j \in 1 .. Len(text') : i < j /\ home2[i] # 0 /\ home2[j] # 0 =>
            home2[i] <= home2[j] /\ (home2[i] = home2[j] <=> Joined(i, j)')
  BY <1>7, <1>8, <1>9, <1>12
<1>15. /\ \A i \in 1 .. Len(text') : home2[i] # 0 =>
            (Joined(i, Len(text))' <=> agents' # {} /\ home2[i] = Len(Policy!Grouped'))
       /\ agents' # {} /\ ~ directivesStarted' =>
            \A i \in 1 .. Len(text') : home2[i] # Len(Policy!Grouped')
  BY <1>11, <1>12, <1>13
<1> QED BY <1>14, <1>15 DEF Homes

\* What the groups hold, before the step and after it.
LEMMA HoldsAre ==
    ASSUME NEW home, Holds(home), NEW N, N = Len(Policy!Grouped)
    PROVE  \A k \in 1 .. N :
             /\ Policy!Grouped[k].agents # {} /\ IsFiniteSet(Policy!Grouped[k].agents)
             /\ Given(home, k, Policy!Grouped[k].rules, Policy!Grouped[k].delay)
  BY DEF Holds, Given

LEMMA HoldsBe ==
    ASSUME NEW N, N = Len(Policy!Grouped'), NEW home,
           \A k \in 1 .. N :
             /\ Policy!Grouped'[k].agents # {} /\ IsFiniteSet(Policy!Grouped'[k].agents)
             /\ \E r, d : /\ r = Policy!Grouped'[k].rules /\ d = Policy!Grouped'[k].delay
                          /\ Given(home, k, r, d)'
    PROVE  Holds(home)'
<1> SUFFICES ASSUME NEW k \in 1 .. N
             PROVE  /\ Policy!Grouped'[k].agents # {} /\ IsFiniteSet(Policy!Grouped'[k].agents)
                    /\ Policy!Grouped'[k].rules = Ruled(Told(RuleNames, home, k))'
                    /\ DelayTold(home, k, Policy!Grouped[k].delay)'
  BY DEF Holds
<1>1. PICK r, d : /\ r = Policy!Grouped'[k].rules /\ d = Policy!Grouped'[k].delay
                  /\ Given(home, k, r, d)'
  OBVIOUS
<1>2. r = Ruled(Told(RuleNames, home, k))' /\ DelayTold(home, k, d)'
  BY <1>1 DEF Given
<1>3. DelayTold(home, k, Policy!Grouped[k].delay)'
  BY <1>1, <1>2 DEF DelayTold
<1> QED BY <1>1, <1>2, <1>3

\* A group without lines has no rules and no delay.
LEMMA GivenNothing ==
    ASSUME NEW home, NEW k, \A i \in 1 .. Len(text) : home[i] # k
    PROVE  Given(home, k, <<>>, Policy!NoDelay)
<1>1. Told(RuleNames, home, k) = {} /\ Told(DelayNames, home, k) = {}
  BY DEF Told
<1>2. Cardinality({}) = 0
  BY FS_EmptySet
<1>3. Ruled({}) = <<>>
  <2>1. Ruled({}) = [m \in 1 .. 0 |-> RuleOf(text[Nth({}, m)])]
    BY <1>2 DEF Ruled
  <2>2. 1 .. 0 = {}
    OBVIOUS
  <2>3. Ruled({}) \in [1 .. 0 -> {}]
    BY <2>1, <2>2
  <2>4. Ruled({}) \in Seq({}) /\ Len(Ruled({})) = 0
    BY <2>3
  <2> QED BY <2>4
<1> QED BY <1>1, <1>3 DEF Given, DelayTold

\* The lines that are not of a group leave the groups as they are given.
LEMMA HoldsKept ==
    ASSUME NEW n, NEW l, Longer(n, l), NEW home, Holds(home),
           NEW N, N = Len(Policy!Grouped), NEW home2, Rehomed(home, n, 0) = home2, N \in Nat
    PROVE  \A k \in 1 .. N : \E r, d : /\ r = Policy!Grouped[k].rules
                                       /\ d = Policy!Grouped[k].delay
                                       /\ Given(home2, k, r, d)'
<1> SUFFICES ASSUME NEW k \in 1 .. N
             PROVE  \E r, d : /\ r = Policy!Grouped[k].rules /\ d = Policy!Grouped[k].delay
                              /\ Given(home2, k, r, d)'
  OBVIOUS
<1>1. PICK r, d : r = Policy!Grouped[k].rules /\ d = Policy!Grouped[k].delay
  OBVIOUS
<1>2. Given(home, k, r, d) /\ 0 # k
  BY <1>1, HoldsAre
<1>3. Given(home2, k, r, d)'
  BY <1>2, GivenKept
<1> QED BY <1>1, <1>3

\* A line that changes no group.
LEMMA PlainStep ==
    ASSUME RobotsTypes, NEW n, NEW l, Longer(n, l), Speaking, Everyone,
           NEW home, Homes(home), Holds(home),
           Policy!Grouped' = Policy!Grouped, l.name = "user-agent" => ~ Valued(l),
           \/ agents' = {} /\ l.name \in Separators \cup {"user-agent"}
           \/ agents' = agents /\ ~ directivesStarted /\ l.name = "user-agent"
           \/ /\ agents' = agents /\ l.name \notin Separators \cup {"user-agent"}
              /\ agents # {} => directivesStarted' = directivesStarted
              /\ l.name \in Policy!Directives => agents = {}
    PROVE  Everyone' /\ \E home2 : Homes(home2)' /\ Holds(home2)'
<1>1. PICK N \in Nat : N = Len(Policy!Grouped)
  BY TypesNow
<1>2. N = Len(Policy!Grouped') /\ N <= N /\ 0 \in 0 .. N
  BY <1>1
<1>3. agents # {} => N # 0
  BY <1>1, TypesNow
<1>4. PICK home2 : Rehomed(home, n, 0) = home2
  OBVIOUS
<1>5. Holds(home2)'
  <2>1. \A k \in 1 .. N :
             /\ Policy!Grouped[k].agents # {} /\ IsFiniteSet(Policy!Grouped[k].agents)
    BY <1>1, HoldsAre
  <2>2. \A k \in 1 .. N : \E r, d : /\ r = Policy!Grouped[k].rules
                                       /\ d = Policy!Grouped[k].delay
                                       /\ Given(home2, k, r, d)'
    BY <1>1, <1>4, HoldsKept
  <2> QED BY <1>2, <2>1, <2>2, HoldsBe
<1>6. /\ \A i \in 1 .. n : home[i] # 0 => (Joined(i, n) <=> agents # {} /\ home[i] = N)
      /\ agents # {} /\ ~ directivesStarted => \A i \in 1 .. n : home[i] # N
  BY <1>1, HomesAre
<1>7. \A m : m = n + 1 => \A i \in 1 .. n : home[i] # 0 =>
             (Joined(i, m)' <=> agents' # {} /\ home[i] = N)
  <2> SUFFICES ASSUME NEW m, m = n + 1, NEW i \in 1 .. n, home[i] # 0
               PROVE  Joined(i, m)' <=> agents' # {} /\ home[i] = N
    OBVIOUS
  <2>1. Joined(i, m)' <=> Joined(i, n) /\ l.name \notin Separators \cup {"user-agent"}
    BY JoinedGrows
  <2> QED BY <1>6, <2>1
<1>8. "user-agent" \notin Policy!Directives /\ \A s \in Separators : s \notin Policy!Directives
  BY DEF Policy!Directives, Separators
<1>9. IF l.name \in Policy!Directives
      THEN /\ l.name \notin Separators \cup {"user-agent"}
           /\ N = N /\ agents' = agents
           /\ 0 = (IF agents = {} THEN 0 ELSE N)
           /\ 0 # 0 => Policy!Grouped'[0].agents = agents
           /\ agents # {} => directivesStarted'
      ELSE 0 = 0
  BY <1>8
<1>10. Homes(home2)'
  <2>1. \A i \in 1 .. n : home[i] # 0 =>
             Policy!Grouped'[home[i]].agents = Policy!Grouped[home[i]].agents
    OBVIOUS
  <2>2. agents' # {} => N # 0
    BY <1>3
  <2>3. agents' # {} /\ ~ directivesStarted' => \A i \in 1 .. n : home[i] # N
    BY <1>6
  <2> QED BY <1>1, <1>2, <1>4, <1>7, <1>9, <2>1, <2>2, <2>3, HomesBe
<1>11. Everyone'
  <2>1. \A a : a \in NamedAgents' <=> a \in NamedAgents
    BY NamedAgentsGrow DEF Valued
  <2>2. \A a : a \in NamedAgents <=> \E k \in 1 .. N : a \in Policy!Grouped[k].agents
    BY <1>1 DEF Everyone
  <2>3. \A a : a \in NamedAgents' <=> \E k \in 1 .. N : a \in Policy!Grouped'[k].agents
    BY <2>1, <2>2
  <2> QED BY <1>2, <2>3 DEF Everyone
<1> QED BY <1>5, <1>10, <1>11

\* A line that opens a group.
LEMMA AddedStep ==
    ASSUME RobotsTypes, NEW n, NEW l, Longer(n, l), Speaking, Everyone,
           NEW home, Homes(home), Holds(home),
           l.name = "user-agent", Valued(l), agents' = {l.value}, Added(NewGroup(l.value))
    PROVE  Everyone' /\ \E home2 : Homes(home2)' /\ Holds(home2)'
<1>1. PICK N \in Nat : N = Len(Policy!Grouped)
  BY TypesNow
<1>2. PICK N2 \in Nat : N2 = N + 1
  OBVIOUS
<1>3. /\ N2 = Len(Policy!Grouped') /\ Policy!Grouped'[N2] = NewGroup(l.value)
      /\ \A k \in 1 .. N : Policy!Grouped'[k] = Policy!Grouped[k]
  BY <1>1, <1>2 DEF Added
<1>4. /\ Policy!Grouped'[N2].agents = {l.value} /\ Policy!Grouped'[N2].rules = <<>>
      /\ Policy!Grouped'[N2].delay = Policy!NoDelay
  BY <1>3 DEF NewGroup, GroupOf
<1>5. N <= N2 /\ 0 \in 0 .. N2 /\ N2 # 0 /\ N2 # N
      /\ \A k \in 1 .. N2 : k \in 1 .. N \/ k = N2
  BY <1>2
<1>6. PICK home2 : Rehomed(home, n, 0) = home2
  OBVIOUS
<1>7. /\ home \in [1 .. n -> 0 .. N] /\ n = Len(text)
  BY <1>1, HomesAre DEF Longer
<1>8. \A i \in 1 .. n : home[i] # N2
  <2>1. N2 \notin 0 .. N
    BY <1>2
  <2> QED BY <1>7, <2>1
<1>9. Holds(home2)'
  <2> SUFFICES ASSUME NEW k \in 1 .. N2
               PROVE  /\ Policy!Grouped'[k].agents # {} /\ IsFiniteSet(Policy!Grouped'[k].agents)
                      /\ \E r, d : /\ r = Policy!Grouped'[k].rules
                                   /\ d = Policy!Grouped'[k].delay
                                   /\ Given(home2, k, r, d)'
    BY <1>3, HoldsBe
  <2>1. CASE k \in 1 .. N
    <3>1. Policy!Grouped[k].agents # {} /\ IsFiniteSet(Policy!Grouped[k].agents)
      BY <1>1, <2>1, HoldsAre
    <3>2. \E r, d : /\ r = Policy!Grouped[k].rules /\ d = Policy!Grouped[k].delay
                    /\ Given(home2, k, r, d)'
      BY <1>1, <1>6, <2>1, HoldsKept
    <3>3. Policy!Grouped'[k] = Policy!Grouped[k]
      BY <1>3, <2>1
    <3> QED BY <3>1, <3>2, <3>3
  <2>2. CASE k = N2
    <3>1. Policy!Grouped'[k].agents # {} /\ IsFiniteSet(Policy!Grouped'[k].agents)
      BY <1>4, <2>2, FS_Singleton
    <3>2. PICK r, d : r = <<>> /\ d = Policy!NoDelay
      OBVIOUS
    <3>3. Given(home, k, r, d)
      BY <1>7, <1>8, <2>2, <3>2, GivenNothing
    <3>4. Given(home2, k, r, d)'
      BY <1>5, <1>6, <2>2, <3>3, GivenKept
    <3> QED BY <1>4, <2>2, <3>1, <3>2, <3>4
  <2> QED BY <1>5, <2>1, <2>2
<1>10. Homes(home2)'
  <2>1. \A i \in 1 .. n : home[i] # 0 =>
             Policy!Grouped'[home[i]].agents = Policy!Grouped[home[i]].agents
    <3> SUFFICES ASSUME NEW i \in 1 .. n, home[i] # 0
                 PROVE  Policy!Grouped'[home[i]] = Policy!Grouped[home[i]]
      OBVIOUS
    <3>1. home[i] \in 1 .. N
      <4>1. home[i] \in 0 .. N
        BY <1>7
      <4> QED BY <4>1
    <3> QED BY <1>3, <3>1
  <2>2. \A m : m = n + 1 => \A i \in 1 .. n : home[i] # 0 =>
             (Joined(i, m)' <=> agents' # {} /\ home[i] = N2)
    <3> SUFFICES ASSUME NEW m, m = n + 1, NEW i \in 1 .. n
                 PROVE  ~ Joined(i, m)' /\ home[i] # N2
      OBVIOUS
    <3>1. Joined(i, m)' <=> Joined(i, n) /\ l.name \notin Separators \cup {"user-agent"}
      BY JoinedGrows
    <3> QED BY <1>8, <3>1
  <2>3. l.name \notin Policy!Directives
    BY DEF Policy!Directives
  <2> QED BY <1>1, <1>3, <1>5, <1>6, <1>8, <2>1, <2>2, <2>3, HomesBe
<1>11. Everyone'
  <2>1. \A a : a \in NamedAgents' <=> a \in NamedAgents \/ a = l.value
    BY NamedAgentsGrow DEF Valued
  <2>2. \A a : a \in NamedAgents <=> \E k \in 1 .. N : a \in Policy!Grouped[k].agents
    BY <1>1 DEF Everyone
  <2>3. /\ N2 \in 1 .. N2 /\ \A k \in 1 .. N : k \in 1 .. N2
    BY <1>2
  <2>4. \A a : a \in NamedAgents' <=> \E k \in 1 .. N2 : a \in Policy!Grouped'[k].agents
    <3> SUFFICES ASSUME NEW a
                 PROVE  a \in NamedAgents' <=> \E k \in 1 .. N2 : a \in Policy!Grouped'[k].agents
      OBVIOUS
    <3>1. (\E k \in 1 .. N2 : a \in Policy!Grouped'[k].agents)
            <=> (\E k \in 1 .. N : a \in Policy!Grouped[k].agents) \/ a = l.value
      BY <1>3, <1>4, <1>5, <2>3
    <3> QED BY <2>1, <2>2, <3>1
  <2> QED BY <1>3, <2>4 DEF Everyone
<1> QED BY <1>9, <1>10, <1>11

\* A line that adds an agent to the group being read, whose directives are
\* still to come.
LEMMA AgentAddedStep ==
    ASSUME RobotsTypes, NEW n, NEW l, Longer(n, l), Speaking, Everyone,
           NEW home, Homes(home), Holds(home),
           l.name = "user-agent", Valued(l), ~ directivesStarted, agents # {},
           agents' = agents \cup {l.value}, Changed(GroupOf(agents', rules, delay))
    PROVE  Everyone' /\ \E home2 : Homes(home2)' /\ Holds(home2)'
<1>1. PICK N \in Nat : N = Len(Policy!Grouped)
  BY TypesNow
<1>2. /\ N = Len(Policy!Grouped') /\ N # 0 /\ Policy!Grouped'[N] = GroupOf(agents', rules, delay)
      /\ \A k \in 1 .. N : k # N => Policy!Grouped'[k] = Policy!Grouped[k]
  BY <1>1 DEF Changed
<1>3. Policy!Grouped[N] = GroupOf(agents, rules, delay)
  BY <1>1, TypesNow DEF Current
<1>4. /\ Policy!Grouped'[N].agents = agents'
      /\ Policy!Grouped[N].agents = agents
      /\ Policy!Grouped'[N].rules = Policy!Grouped[N].rules
      /\ Policy!Grouped'[N].delay = Policy!Grouped[N].delay
  BY <1>2, <1>3 DEF GroupOf
<1>5. N <= N /\ 0 \in 0 .. N /\ N \in 1 .. N
  BY <1>2
<1>6. PICK home2 : Rehomed(home, n, 0) = home2
  OBVIOUS
<1>7. /\ home \in [1 .. n -> 0 .. N] /\ \A i \in 1 .. n : home[i] # N
  BY <1>1, HomesAre
<1>8. Holds(home2)'
  <2> SUFFICES ASSUME NEW k \in 1 .. N
               PROVE  /\ Policy!Grouped'[k].agents # {} /\ IsFiniteSet(Policy!Grouped'[k].agents)
                      /\ \E r, d : /\ r = Policy!Grouped'[k].rules
                                   /\ d = Policy!Grouped'[k].delay
                                   /\ Given(home2, k, r, d)'
    BY <1>2, HoldsBe
  <2>1. /\ Policy!Grouped'[k].rules = Policy!Grouped[k].rules
        /\ Policy!Grouped'[k].delay = Policy!Grouped[k].delay
    BY <1>2, <1>4
  <2>2. \E r, d : /\ r = Policy!Grouped[k].rules /\ d = Policy!Grouped[k].delay
                  /\ Given(home2, k, r, d)'
    BY <1>1, <1>6, HoldsKept
  <2>3. Policy!Grouped[k].agents # {} /\ IsFiniteSet(Policy!Grouped[k].agents)
    BY <1>1, HoldsAre
  <2>4. Policy!Grouped'[k].agents # {} /\ IsFiniteSet(Policy!Grouped'[k].agents)
    <3>1. CASE k = N
      <4>1. IsFiniteSet(agents \cup {l.value})
        BY <1>4, <2>3, <3>1, FS_AddElement
      <4> QED BY <1>4, <3>1, <4>1
    <3> QED BY <1>2, <2>3, <3>1
  <2> QED BY <2>1, <2>2, <2>4
<1>9. Homes(home2)'
  <2>1. \A i \in 1 .. n : home[i] # 0 =>
             Policy!Grouped'[home[i]].agents = Policy!Grouped[home[i]].agents
    <3> SUFFICES ASSUME NEW i \in 1 .. n, home[i] # 0
                 PROVE  Policy!Grouped'[home[i]] = Policy!Grouped[home[i]]
      OBVIOUS
    <3>1. home[i] \in 1 .. N
      <4>1. home[i] \in 0 .. N
        BY <1>7
      <4> QED BY <4>1
    <3> QED BY <1>2, <1>7, <3>1
  <2>2. \A m : m = n + 1 => \A i \in 1 .. n : home[i] # 0 =>
             (Joined(i, m)' <=> agents' # {} /\ home[i] = N)
    <3> SUFFICES ASSUME NEW m, m = n + 1, NEW i \in 1 .. n
                 PROVE  ~ Joined(i, m)' /\ home[i] # N
      OBVIOUS
    <3>1. Joined(i, m)' <=> Joined(i, n) /\ l.name \notin Separators \cup {"user-agent"}
      BY JoinedGrows
    <3> QED BY <1>7, <3>1
  <2>3. l.name \notin Policy!Directives
    BY DEF Policy!Directives
  <2>4. agents' # {} /\ ~ directivesStarted' => \A i \in 1 .. n : home[i] # N
    BY <1>7
  <2>5. agents' # {} => N # 0
    BY <1>2
  <2>6. N = Len(Policy!Grouped')
    BY <1>2
  <2> QED BY <1>1, <1>5, <1>6, <2>1, <2>2, <2>3, <2>4, <2>5, <2>6, HomesBe
<1>10. Everyone'
  <2>1. \A a : a \in NamedAgents' <=> a \in NamedAgents \/ a = l.value
    BY NamedAgentsGrow DEF Valued
  <2>2. \A a : a \in NamedAgents <=> \E k \in 1 .. N : a \in Policy!Grouped[k].agents
    BY <1>1 DEF Everyone
  <2>3. \A a : a \in NamedAgents' <=> \E k \in 1 .. N : a \in Policy!Grouped'[k].agents
    <3> SUFFICES ASSUME NEW a
                 PROVE  a \in NamedAgents' <=> \E k \in 1 .. N : a \in Policy!Grouped'[k].agents
      OBVIOUS
    <3>1. \A k \in 1 .. N : a \in Policy!Grouped'[k].agents
            <=> a \in Policy!Grouped[k].agents \/ (k = N /\ a = l.value)
      BY <1>2, <1>4
    <3> QED BY <1>5, <2>1, <2>2, <3>1
  <2> QED BY <1>2, <2>3 DEF Everyone
<1> QED BY <1>8, <1>9, <1>10

\* A directive of the group being read.
LEMMA DirectedStep ==
    ASSUME RobotsTypes, NEW n, NEW l, Longer(n, l), Speaking, Everyone,
           NEW home, Homes(home), Holds(home),
           l.name \in Policy!Directives, agents # {}, agents' = agents, directivesStarted',
           Changed(GroupOf(agents, RulesWith(l), DelayWith(l)))
    PROVE  Everyone' /\ \E home2 : Homes(home2)' /\ Holds(home2)'
<1>1. PICK N \in Nat : N = Len(Policy!Grouped)
  BY TypesNow
<1>0. PICK r, d : r = RulesWith(l) /\ d = DelayWith(l)
  OBVIOUS
<1>2. /\ N = Len(Policy!Grouped') /\ N # 0 /\ Policy!Grouped'[N] = GroupOf(agents, r, d)
      /\ \A k \in 1 .. N : k # N => Policy!Grouped'[k] = Policy!Grouped[k]
  BY <1>0, <1>1 DEF Changed
<1>3. Policy!Grouped[N] = GroupOf(agents, rules, delay)
  BY <1>1, TypesNow DEF Current
<1>4. /\ Policy!Grouped'[N].agents = agents /\ Policy!Grouped'[N].rules = r
      /\ Policy!Grouped'[N].delay = d
      /\ Policy!Grouped[N].agents = agents /\ Policy!Grouped[N].rules = rules
      /\ Policy!Grouped[N].delay = delay
  BY <1>2, <1>3 DEF GroupOf
<1>5. N <= N /\ N \in 0 .. N /\ N \in 1 .. N
  BY <1>2
<1>6. PICK home2 : Rehomed(home, n, N) = home2
  OBVIOUS
<1>7. /\ home \in [1 .. n -> 0 .. N]
      /\ \A i \in 1 .. n : home[i] # 0 => (Joined(i, n) <=> agents # {} /\ home[i] = N)
  BY <1>1, HomesAre
<1>8. l.name \notin Separators \cup {"user-agent"}
  BY DEF Policy!Directives, Separators
<1>9. Holds(home2)'
  <2> SUFFICES ASSUME NEW k \in 1 .. N
               PROVE  /\ Policy!Grouped'[k].agents # {} /\ IsFiniteSet(Policy!Grouped'[k].agents)
                      /\ \E rs, dl : /\ rs = Policy!Grouped'[k].rules
                                     /\ dl = Policy!Grouped'[k].delay
                                     /\ Given(home2, k, rs, dl)'
    BY <1>2, HoldsBe
  <2>1. /\ Policy!Grouped[k].agents # {} /\ IsFiniteSet(Policy!Grouped[k].agents)
        /\ Given(home, k, Policy!Grouped[k].rules, Policy!Grouped[k].delay)
    BY <1>1, HoldsAre
  <2>2. Policy!Grouped'[k].agents = Policy!Grouped[k].agents
    BY <1>2, <1>4
  <2>3. CASE k = N
    <3>1. Given(home, N, rules, delay)
      BY <1>4, <2>1, <2>3
    <3>2. Given(home2, N, r, d)'
      BY <1>0, <1>6, <3>1, GivenMore
    <3> QED BY <1>4, <2>1, <2>2, <2>3, <3>2
  <2>4. CASE k # N
    <3>1. PICK rs, dl : rs = Policy!Grouped[k].rules /\ dl = Policy!Grouped[k].delay
      OBVIOUS
    <3>2. Given(home, k, rs, dl)
      BY <2>1, <3>1
    <3>3. Given(home2, k, rs, dl)'
      BY <1>6, <2>4, <3>2, GivenKept
    <3>4. Policy!Grouped'[k] = Policy!Grouped[k]
      BY <1>2, <2>4
    <3> QED BY <2>1, <2>2, <3>1, <3>3, <3>4
  <2> QED BY <2>3, <2>4
<1>10. Homes(home2)'
  <2>1. \A i \in 1 .. n : home[i] # 0 =>
             Policy!Grouped'[home[i]].agents = Policy!Grouped[home[i]].agents
    <3> SUFFICES ASSUME NEW i \in 1 .. n, home[i] # 0
                 PROVE  Policy!Grouped'[home[i]].agents = Policy!Grouped[home[i]].agents
      OBVIOUS
    <3>1. home[i] \in 1 .. N
      <4>1. home[i] \in 0 .. N
        BY <1>7
      <4> QED BY <4>1
    <3> QED BY <1>2, <1>4, <3>1
  <2>2. \A m : m = n + 1 => \A i \in 1 .. n : home[i] # 0 =>
             (Joined(i, m)' <=> agents' # {} /\ home[i] = N)
    <3> SUFFICES ASSUME NEW m, m = n + 1, NEW i \in 1 .. n, home[i] # 0
                 PROVE  Joined(i, m)' <=> agents' # {} /\ home[i] = N
      OBVIOUS
    <3>1. Joined(i, m)' <=> Joined(i, n) /\ l.name \notin Separators \cup {"user-agent"}
      BY JoinedGrows
    <3> QED BY <1>7, <1>8, <3>1
  <2> QED BY <1>1, <1>2, <1>4, <1>5, <1>6, <1>8, <2>1, <2>2, HomesBe
<1>11. Everyone'
  <2>1. \A a : a \in NamedAgents' <=> a \in NamedAgents
    BY <1>8, NamedAgentsGrow
  <2>2. \A a : a \in NamedAgents <=> \E k \in 1 .. N : a \in Policy!Grouped[k].agents
    BY <1>1 DEF Everyone
  <2>3. \A k \in 1 .. N : Policy!Grouped'[k].agents = Policy!Grouped[k].agents
    BY <1>2, <1>4
  <2>4. \A a : a \in NamedAgents' <=> \E k \in 1 .. N : a \in Policy!Grouped'[k].agents
    BY <2>1, <2>2, <2>3
  <2> QED BY <1>2, <2>4 DEF Everyone
<1> QED BY <1>9, <1>10, <1>11

\* Each directive of the text has a home, which holds just what it was told.
RobotsInv ==
    /\ RobotsTypes /\ Speaking /\ Everyone
    /\ \E home : Homes(home) /\ Holds(home)

\* parseRobots: whatever line it reads, every directive has its home.
LEMMA RobotsStep ==
    ASSUME Policy!RobotsAssumption, RobotsInv, Policy!Next
    PROVE  RobotsInv'
<1>1. PICK home : Homes(home) /\ Holds(home)
  BY DEF RobotsInv
<1>2. RobotsTypes /\ Speaking /\ Everyone
  BY DEF RobotsInv
<1>3. Speaking' /\ \E n \in Nat, l \in Lines : Read(n, l)
  BY <1>2, RobotsRead
<1>4. PICK n \in Nat, l \in Lines : Read(n, l)
  BY <1>3
<1>5. Longer(n, l) /\ RobotsTypes' /\ (Ends(l) \/ Passes(l) \/ Calls(l) \/ Directs(l))
  BY <1>4 DEF Read
<1>6. Everyone' /\ \E home2 : Homes(home2)' /\ Holds(home2)'
  <2>1. CASE Ends(l)
    <3>1. l.name \in Separators /\ l.name # "user-agent" /\ Policy!Grouped' = Policy!Grouped
          /\ agents' = {}
      BY <2>1 DEF Ends, Separators
    <3> QED BY <1>1, <1>2, <1>5, <3>1, PlainStep
  <2>2. CASE Passes(l)
    <3>1. /\ l.name \notin Separators \cup {"user-agent"} /\ l.name \notin Policy!Directives
          /\ Policy!Grouped' = Policy!Grouped
          /\ agents' = agents /\ directivesStarted' = directivesStarted
      BY <2>2 DEF Passes, Separators, Policy!Directives
    <3> QED BY <1>1, <1>2, <1>5, <3>1, PlainStep
  <2>3. CASE Calls(l)
    <3>1. /\ l.name = "user-agent"
          /\ \/ /\ ~ Valued(l) /\ Policy!Grouped' = Policy!Grouped
                /\ agents' = {} \/ (agents' = agents /\ ~ directivesStarted)
             \/ Valued(l) /\ agents' = {l.value} /\ Added(NewGroup(l.value))
             \/ /\ Valued(l) /\ ~ directivesStarted /\ agents # {}
                /\ agents' = agents \cup {l.value} /\ Changed(GroupOf(agents', rules, delay))
      BY <2>3 DEF Calls, Valued
    <3>2. CASE /\ ~ Valued(l) /\ Policy!Grouped' = Policy!Grouped
               /\ agents' = {} \/ (agents' = agents /\ ~ directivesStarted)
      BY <1>1, <1>2, <1>5, <3>1, <3>2, PlainStep
    <3>3. CASE Valued(l) /\ agents' = {l.value} /\ Added(NewGroup(l.value))
      BY <1>1, <1>2, <1>5, <3>1, <3>3, AddedStep
    <3>4. CASE /\ Valued(l) /\ ~ directivesStarted /\ agents # {}
               /\ agents' = agents \cup {l.value} /\ Changed(GroupOf(agents', rules, delay))
      BY <1>1, <1>2, <1>5, <3>1, <3>4, AgentAddedStep
    <3> QED BY <3>1, <3>2, <3>3, <3>4
  <2>4. CASE Directs(l)
    <3>1. l.name \in Policy!Directives /\ l.name \notin Separators \cup {"user-agent"}
          /\ agents' = agents
      BY <2>4 DEF Directs, Policy!Directives, Separators
    <3>2. CASE agents = {}
      <4>1. Policy!Grouped' = Policy!Grouped
        BY <2>4, <3>2 DEF Directs
      <4> QED BY <1>1, <1>2, <1>5, <3>1, <3>2, <4>1, PlainStep
    <3>3. CASE agents # {}
      <4>1. directivesStarted' /\ Changed(GroupOf(agents, RulesWith(l), DelayWith(l)))
        BY <2>4, <3>3 DEF Directs
      <4> QED BY <1>1, <1>2, <1>5, <3>1, <3>3, <4>1, DirectedStep
    <3> QED BY <3>2, <3>3
  <2> QED BY <1>5, <2>1, <2>2, <2>3, <2>4
<1> QED BY <1>3, <1>5, <1>6 DEF RobotsInv

\* An empty text has no directives and no groups.
LEMMA RobotsInit == Policy!Init => RobotsInv
<1> SUFFICES ASSUME Policy!Init PROVE RobotsInv
  OBVIOUS
<1>1. /\ text = <<>> /\ groups = <<>> /\ agents = {} /\ rules = <<>>
      /\ delay = Policy!NoDelay /\ directivesStarted = FALSE
  BY DEF Policy!Init
<1>2. RobotsTypes
  <2>1. /\ text \in Seq(Lines) /\ groups \in Seq(AnyGroup) /\ agents \in SUBSET FileValues
        /\ rules \in Seq(FileRules) /\ delay \in Nat \cup {Policy!NoDelay}
    BY <1>1
  <2>2. directivesStarted \in BOOLEAN
    BY <1>1
  <2> QED BY <2>1, <2>2 DEF RobotsTypes
<1>3. Len(text) = 0 /\ 1 .. Len(text) = {}
  BY <1>1
<1>4. Speaking
  <2>1. Speakers = {}
    BY <1>3 DEF Speakers
  <2> QED BY <1>1, <2>1, FS_EmptySet DEF Speaking
<1>5. Policy!Grouped = <<>>
  BY <1>1, GroupedTogether DEF Together
<1>6. Len(Policy!Grouped) = 0 /\ 1 .. Len(Policy!Grouped) = {}
  BY <1>5
<1>7. Everyone
  <2>1. NamedAgents = {}
    BY <1>3 DEF NamedAgents
  <2> QED BY <1>6, <2>1 DEF Everyone
<1>8. \E home : Homes(home) /\ Holds(home)
  <2> DEFINE home == [i \in 1 .. Len(text) |-> 0]
  <2>1. home \in [1 .. Len(text) -> 0 .. Len(Policy!Grouped)]
    BY <1>6
  <2> HIDE DEF home
  <2>2. Homes(home)
    BY <1>1, <1>3, <2>1 DEF Homes
  <2>3. Holds(home)
    BY <1>6 DEF Holds
  <2> QED BY <2>2, <2>3
<1> QED BY <1>2, <1>4, <1>7, <1>8 DEF RobotsInv

-----------------------------------------------------------------------------
(* Robots: the groups the crawler goes by, and the lines that are theirs.   *)

\* A finite set of numbers has a greatest.
LEMMA Greatest ==
    ASSUME NEW S \in SUBSET (Nat \cup {-1}), IsFiniteSet(S), S # {}
    PROVE  \E m \in S : \A y \in S : y <= m
<1> DEFINE T == S \ {-1}
<1>1. T \in SUBSET Nat /\ IsFiniteSet(T)
  <2>1. T \in SUBSET Nat /\ T \in SUBSET S
    OBVIOUS
  <2> HIDE DEF T
  <2> QED BY <2>1, FS_Subset
<1>2. CASE T = {}
  <2>1. S = {-1}
    BY <1>2
  <2> QED BY <2>1
<1>3. CASE T # {}
  <2> HIDE DEF T
  <2>1. PICK c : c = Cardinality(T)
    OBVIOUS
  <2>2. c \in Nat /\ c # 0
    BY <1>1, <1>3, <2>1, FS_CardinalityType, FS_EmptySet
  <2>3. PICK m : m = Nth(T, c)
    OBVIOUS
  <2>4. m \in T /\ Cardinality({j \in T : j <= m}) = c
    BY <1>1, <2>1, <2>2, <2>3, NthIs
  <2>5. {j \in T : j <= m} = T
    <3>1. {j \in T : j <= m} \in SUBSET T
      OBVIOUS
    <3> QED BY <1>1, <2>1, <2>4, <3>1, FS_Subset
  <2>6. \A y \in T : y <= m
    BY <2>5
  <2>7. m \in Nat /\ m \in S
    BY <1>1, <2>4 DEF T
  <2>8. \A y \in S : y \in T \/ y = -1
    BY DEF T
  <2>9. -1 <= m
    BY <2>7
  <2> QED BY <2>6, <2>7, <2>8, <2>9
<1> QED BY <1>2, <1>3

\* The values of a function on a finite set are finitely many.
LEMMA FiniteImage ==
    ASSUME NEW S, IsFiniteSet(S), NEW f
    PROVE  IsFiniteSet({f[x] : x \in S})
<1> DEFINE T == {f[x] : x \in S}
           g == [x \in S |-> f[x]]
<1>1. g \in Surjection(S, T)
  BY DEF Surjection
<1> HIDE DEF T, g
<1>2. IsFiniteSet(T)
  BY <1>1, FS_Surjection
<1> QED BY <1>2 DEF T

\* A file names finitely many agents, each as specific as some number.
LEMMA NamedAgentsAre ==
    ASSUME Policy!RobotsAssumption, RobotsTypes
    PROVE  /\ IsFiniteSet(NamedAgents)
           /\ \A a \in NamedAgents : Specificity[a] \in Nat \cup {-1}
<1>1. PICK n \in Nat : n = Len(text)
  BY DEF RobotsTypes
<1>2. \A i \in 1 .. n : text[i] \in Lines
  BY <1>1 DEF RobotsTypes
<1> DEFINE P == {j \in 1 .. n : text[j].name = "user-agent" /\ text[j].value # ""}
           f == [i \in 1 .. n |-> text[i].value]
<1>3. P \subseteq 1 .. n
  OBVIOUS
<1>4. NamedAgents = {f[i] : i \in P}
  BY <1>1 DEF NamedAgents
<1>5. IsFiniteSet(P)
  <2> HIDE DEF P
  <2>1. IsFiniteSet(1 .. n)
    BY FS_Interval
  <2> QED BY <1>3, <2>1, FS_Subset
<1>6. IsFiniteSet(NamedAgents)
  <2> HIDE DEF P, f
  <2> QED BY <1>4, <1>5, FiniteImage
<1>7. ASSUME NEW a \in NamedAgents PROVE Specificity[a] \in Nat \cup {-1}
  <2>1. PICK i \in 1 .. n : a = text[i].value /\ text[i].name = "user-agent" /\ text[i].value # ""
    BY <1>4
  <2>2. PICK l \in Lines : l = text[i]
    BY <1>2
  <2>3. l.value # "" /\ l.name = "user-agent" /\ a = l.value
    BY <2>1, <2>2
  <2> QED BY <2>3, FileTypes
<1> QED BY <1>6, <1>7

\* A group's score is that of its most specific agent, and the best of the
\* groups that of the most specific agent of the file.
LEMMA Scores ==
    ASSUME Policy!RobotsAssumption, RobotsTypes, Everyone,
           NEW home, Holds(home), NEW N \in Nat, N = Len(Policy!Grouped)
    PROVE  Policy!Best(Policy!Grouped) = Policy!Strictest
<1>1. IsFiniteSet(NamedAgents) /\ \A a \in NamedAgents : Specificity[a] \in Nat \cup {-1}
  BY NamedAgentsAre
<1>2. \A a : a \in NamedAgents <=> \E k \in 1 .. N : a \in Policy!Grouped[k].agents
  BY DEF Everyone
<1>3. \A k \in 1 .. N : Policy!Grouped[k].agents # {} /\ IsFiniteSet(Policy!Grouped[k].agents)
  BY HoldsAre
<1> DEFINE V == {Specificity[a] : a \in NamedAgents}
           B == {-1} \cup V
<1>4. V \in SUBSET (Nat \cup {-1}) /\ B \in SUBSET (Nat \cup {-1}) /\ B # {}
  BY <1>1
<1>5. IsFiniteSet(B)
  <2>1. IsFiniteSet(V)
    BY <1>1, FiniteImage
  <2>2. B = V \cup {-1}
    OBVIOUS
  <2> HIDE DEF V, B
  <2> QED BY <2>1, <2>2, FS_AddElement
<1>6. PICK m \in B : \A y \in B : y <= m
  <2> HIDE DEF B
  <2> QED BY <1>4, <1>5, Greatest
<1>7. Policy!Strictest = m
  <2>1. {Specificity[line.value] :
           line \in {l \in Policy!ToSet(text) : l.name = "user-agent" /\ l.value # ""}} = V
    <3>0. DOMAIN text = 1 .. Len(text)
      BY DEF RobotsTypes
    <3>1. \A v : v \in {Specificity[line.value] :
              line \in {l \in Policy!ToSet(text) : l.name = "user-agent" /\ l.value # ""}}
            <=> \E i \in 1 .. Len(text) : /\ text[i].name = "user-agent" /\ text[i].value # ""
                                          /\ v = Specificity[text[i].value]
      BY <3>0 DEF Policy!ToSet
    <3>2. \A v : v \in V
            <=> \E i \in 1 .. Len(text) : /\ text[i].name = "user-agent" /\ text[i].value # ""
                                          /\ v = Specificity[text[i].value]
      BY DEF NamedAgents
    <3> QED BY <3>1, <3>2
  <2>2. Policy!Strictest = Policy!Max(B)
    BY <2>1 DEF Policy!Strictest
  <2>3. B \in SUBSET Int
    BY <1>4
  <2> HIDE DEF B
  <2> QED BY <1>6, <2>2, <2>3, MaxIs
<1>8. ASSUME NEW k \in 1 .. N
      PROVE  /\ Policy!Score(Policy!Grouped[k]) \in V
             /\ \A a \in Policy!Grouped[k].agents : Specificity[a] <= Policy!Score(Policy!Grouped[k])
  <2> DEFINE A == Policy!Grouped[k].agents
             W == {Specificity[a] : a \in A}
  <2>1. A \in SUBSET NamedAgents /\ A # {} /\ IsFiniteSet(A)
    BY <1>2, <1>3
  <2> HIDE DEF A
  <2>2. W \in SUBSET V /\ W # {} /\ \A a \in A : Specificity[a] \in W
    BY <2>1
  <2>3. IsFiniteSet(W)
    BY <2>1, FiniteImage
  <2>4. Policy!Score(Policy!Grouped[k]) = Policy!Max(W)
    BY DEF Policy!Score, A
  <2> HIDE DEF V, W
  <2>5. W \in SUBSET (Nat \cup {-1}) /\ W \in SUBSET Int
    BY <1>4, <2>2
  <2>6. PICK w \in W : \A y \in W : y <= w
    BY <2>2, <2>3, <2>5, Greatest
  <2>7. Policy!Max(W) = w
    BY <2>5, <2>6, MaxIs
  <2> QED BY <2>2, <2>4, <2>6, <2>7 DEF A
<1>9. Policy!Best(Policy!Grouped) = m
  <2> DEFINE C == {-1} \cup {Policy!Score(Policy!Grouped[i]) : i \in DOMAIN Policy!Grouped}
  <2>1. DOMAIN Policy!Grouped = 1 .. N
    <3>1. Policy!Grouped \in Seq(AnyGroup)
      BY TypesNow
    <3> QED BY <3>1
  <2>2. \A x : x \in C <=> x = -1 \/ \E k \in 1 .. N : x = Policy!Score(Policy!Grouped[k])
    BY <2>1
  <2>3. Policy!Best(Policy!Grouped) = Policy!Max(C)
    BY DEF Policy!Best
  <2>4. \A x : x \in B <=> x = -1 \/ x \in V
    OBVIOUS
  <2> HIDE DEF C, V, B
  <2>5. C \in SUBSET B
    BY <1>8, <2>2, <2>4
  <2>6. m \in C
    <3>1. CASE m = -1
      BY <2>2, <3>1
    <3>2. CASE m # -1
      <4>1. PICK a \in NamedAgents : m = Specificity[a]
        BY <1>6, <2>4, <3>2 DEF V
      <4>2. PICK k \in 1 .. N : a \in Policy!Grouped[k].agents
        BY <1>2, <4>1
      <4>3. m <= Policy!Score(Policy!Grouped[k]) /\ Policy!Score(Policy!Grouped[k]) \in B
        BY <1>8, <2>4, <4>1, <4>2
      <4>4. Policy!Score(Policy!Grouped[k]) <= m
        BY <1>6, <4>3
      <4>5. m \in Int /\ Policy!Score(Policy!Grouped[k]) \in Int
        <5>1. \A x \in B : x \in Int
          <6>1. \A x \in Nat \cup {-1} : x \in Int
            OBVIOUS
          <6> QED BY <1>4, <6>1
        <5> QED BY <1>6, <4>3, <5>1
      <4>6. m = Policy!Score(Policy!Grouped[k])
        BY <4>3, <4>4, <4>5
      <4> QED BY <2>2, <4>6
    <3> QED BY <3>1, <3>2
  <2>7. C \in SUBSET Int /\ \A y \in C : y <= m
    BY <1>4, <1>6, <2>5
  <2> QED BY <2>3, <2>6, <2>7, MaxIs
<1> QED BY <1>7, <1>9

\* A directive is ours if its group is selected.
LEMMA OursAre ==
    ASSUME Policy!RobotsAssumption, RobotsTypes, Everyone,
           NEW home, Homes(home), Holds(home), NEW n \in Nat, n = Len(text),
           NEW names \in SUBSET Policy!Directives
    PROVE  \A i : i \in Policy!OurLines(names, Separators) <=>
             /\ i \in 1 .. n /\ text[i].name \in names /\ Valued(text[i])
             /\ home[i] \in Policy!Selected
<1>1. PICK N \in Nat : N = Len(Policy!Grouped)
  BY TypesNow
<1>2. Policy!Best(Policy!Grouped) = Policy!Strictest
  BY <1>1, Scores
<1>3. DOMAIN Policy!Grouped = 1 .. N /\ DOMAIN text = 1 .. n
  <2>1. Policy!Grouped \in Seq(AnyGroup)
    BY TypesNow
  <2> QED BY <1>1, <2>1 DEF RobotsTypes
<1>4. \A k : k \in Policy!Selected <=>
        k \in 1 .. N /\ Policy!Strictest >= 0 /\ Policy!Score(Policy!Grouped[k]) = Policy!Strictest
  BY <1>2, <1>3 DEF Policy!Selected
<1>5. /\ home \in [1 .. n -> 0 .. N]
      /\ \A i \in 1 .. n : text[i].name \in Policy!Directives =>
           Policy!Addressees(i, Separators)
             = IF home[i] = 0 THEN {} ELSE Policy!Grouped[home[i]].agents
  BY <1>1 DEF Homes
<1>6. ASSUME NEW i \in 1 .. n, text[i].name \in Policy!Directives
      PROVE  Policy!Ours(i, Separators) <=> home[i] \in Policy!Selected
  <2>1. Policy!Ours(i, Separators) <=>
          /\ {Specificity[a] : a \in Policy!Addressees(i, Separators)} # {}
          /\ Policy!Max({Specificity[a] : a \in Policy!Addressees(i, Separators)})
               = Policy!Strictest
          /\ Policy!Strictest >= 0
    BY DEF Policy!Ours
  <2>2. CASE home[i] = 0
    <3>1. Policy!Addressees(i, Separators) = {}
      BY <1>5, <1>6, <2>2
    <3>2. home[i] \notin 1 .. N
      BY <2>2
    <3> QED BY <1>4, <2>1, <3>1, <3>2
  <2>3. CASE home[i] # 0
    <3>1. PICK k : k = home[i]
      OBVIOUS
    <3>2. k \in 1 .. N
      <4>1. k \in 0 .. N
        BY <1>5, <3>1
      <4> QED BY <2>3, <3>1, <4>1
    <3>3. Policy!Addressees(i, Separators) = Policy!Grouped[k].agents
      BY <1>5, <1>6, <2>3, <3>1
    <3>4. Policy!Grouped[k].agents # {}
      BY <1>1, <3>2, HoldsAre
    <3>5. {Specificity[a] : a \in Policy!Grouped[k].agents} # {}
      BY <3>4
    <3>6. Policy!Score(Policy!Grouped[k])
            = Policy!Max({Specificity[a] : a \in Policy!Grouped[k].agents})
      BY DEF Policy!Score
    <3> QED BY <1>4, <2>1, <3>1, <3>2, <3>3, <3>5, <3>6
  <2> QED BY <2>2, <2>3
<1>7. \A i : i \in Policy!OurLines(names, Separators) <=>
        /\ i \in 1 .. n /\ text[i].name \in names /\ Valued(text[i])
        /\ Policy!Ours(i, Separators)
  BY <1>3 DEF Policy!OurLines, Valued
<1> QED BY <1>6, <1>7

\* Numbering positions of which some come before the others.
LEMMA NthJoin ==
    ASSUME NEW P \in SUBSET Nat, IsFiniteSet(P), NEW Q \in SUBSET Nat, IsFiniteSet(Q),
           \A p \in P, q \in Q : p < q
    PROVE  /\ IsFiniteSet(P \cup Q)
           /\ Cardinality(P) \in Nat /\ Cardinality(Q) \in Nat
           /\ Cardinality(P \cup Q) = Cardinality(P) + Cardinality(Q)
           /\ \A m \in 1 .. Cardinality(P) : Nth(P \cup Q, m) = Nth(P, m)
           /\ \A m \in 1 .. Cardinality(Q) : Nth(P \cup Q, Cardinality(P) + m) = Nth(Q, m)
<1> DEFINE R == P \cup Q
<1>1. P \cap Q = {}
  <2> SUFFICES ASSUME NEW x \in P, x \in Q PROVE FALSE
    OBVIOUS
  <2>1. x < x /\ x \in Nat
    OBVIOUS
  <2> QED BY <2>1
<1>2. /\ IsFiniteSet(R) /\ Cardinality(R) = Cardinality(P) + Cardinality(Q)
      /\ Cardinality(P) \in Nat /\ Cardinality(Q) \in Nat
  <2>1. IsFiniteSet(R) /\ Cardinality(R) = Cardinality(P) + Cardinality(Q) - Cardinality(P \cap Q)
    BY FS_Union
  <2>2. Cardinality(P \cap Q) = 0
    BY <1>1, FS_EmptySet
  <2>3. Cardinality(P) \in Nat /\ Cardinality(Q) \in Nat
    BY FS_CardinalityType
  <2> HIDE DEF R
  <2> QED BY <2>1, <2>2, <2>3
<1>3. /\ R \in SUBSET Nat
      /\ \A i \in R : Nth(R, Cardinality({j \in R : j <= i})) = i
  <2>1. R \in SUBSET Nat
    OBVIOUS
  <2> HIDE DEF R
  <2> QED BY <1>2, <2>1, NthIs
<1>4. ASSUME NEW m \in 1 .. Cardinality(P) PROVE Nth(R, m) = Nth(P, m)
  <2>1. PICK i : i = Nth(P, m)
    OBVIOUS
  <2>2. i \in P /\ Cardinality({j \in P : j <= i}) = m
    BY <2>1, NthIs
  <2>3. {j \in R : j <= i} = {j \in P : j <= i}
    <3> SUFFICES ASSUME NEW j \in Q, j <= i PROVE FALSE
      OBVIOUS
    <3>1. i < j /\ i \in Nat /\ j \in Nat
      BY <2>2
    <3> QED BY <3>1
  <2> QED BY <1>3, <2>1, <2>2, <2>3
<1>5. ASSUME NEW m \in 1 .. Cardinality(Q) PROVE Nth(R, Cardinality(P) + m) = Nth(Q, m)
  <2>1. PICK i : i = Nth(Q, m)
    OBVIOUS
  <2>2. PICK S : S = {j \in Q : j <= i}
    OBVIOUS
  <2>3. i \in Q /\ Cardinality(S) = m
    BY <2>1, <2>2, NthIs
  <2>4. {j \in R : j <= i} = P \cup S
    <3>1. \A j \in P : j <= i
      <4> SUFFICES ASSUME NEW j \in P PROVE j <= i
        OBVIOUS
      <4>1. j < i /\ j \in Nat /\ i \in Nat
        BY <2>3
      <4> QED BY <4>1
    <3> QED BY <2>2, <3>1
  <2>5. S \in SUBSET Q /\ P \cap S = {}
    BY <1>1, <2>2
  <2>6. IsFiniteSet(S)
    BY <2>5, FS_Subset
  <2>7. Cardinality(P \cup S) = Cardinality(P) + m
    <3>1. Cardinality(P \cup S) = Cardinality(P) + Cardinality(S) - Cardinality(P \cap S)
      BY <2>6, FS_Union
    <3>2. Cardinality(P \cap S) = 0
      BY <2>5, FS_EmptySet
    <3> QED BY <1>2, <2>3, <3>1, <3>2
  <2>8. Nth(R, Cardinality({j \in R : j <= i})) = i
    BY <1>3, <2>3
  <2> QED BY <2>1, <2>4, <2>7, <2>8
<1> QED BY <1>2, <1>4, <1>5

\* The rules of lines and of later lines, in a row.
LEMMA RuledJoin ==
    ASSUME text \in Seq(Lines), NEW n \in Nat, n = Len(text),
           NEW P \in SUBSET (1 .. n), NEW Q \in SUBSET (1 .. n), \A p \in P, q \in Q : p < q
    PROVE  Ruled(P \cup Q) = Ruled(P) \o Ruled(Q)
<1>1. IsFiniteSet(1 .. n) /\ P \in SUBSET Nat /\ Q \in SUBSET Nat /\ P \cup Q \in SUBSET (1 .. n)
  <2>1. IsFiniteSet(1 .. n)
    BY FS_Interval
  <2>2. P \in SUBSET Nat /\ Q \in SUBSET Nat /\ P \cup Q \in SUBSET (1 .. n)
    OBVIOUS
  <2> QED BY <2>1, <2>2
<1>2. IsFiniteSet(P) /\ IsFiniteSet(Q)
  BY <1>1, FS_Subset
<1>3. PICK p, q : p = Cardinality(P) /\ q = Cardinality(Q)
  OBVIOUS
<1>4. /\ p \in Nat /\ q \in Nat /\ IsFiniteSet(P \cup Q) /\ Cardinality(P \cup Q) = p + q
      /\ \A m \in 1 .. p : Nth(P \cup Q, m) = Nth(P, m)
      /\ \A m \in 1 .. q : Nth(P \cup Q, p + m) = Nth(Q, m)
  BY <1>1, <1>2, <1>3, NthJoin
<1>5. PICK s, t, u : s = Ruled(P) /\ t = Ruled(Q) /\ u = Ruled(P \cup Q)
  OBVIOUS
<1>6. /\ s \in Seq(FileRules) /\ Len(s) = p /\ t \in Seq(FileRules) /\ Len(t) = q
      /\ u \in Seq(FileRules) /\ Len(u) = p + q
  BY <1>1, <1>2, <1>3, <1>4, <1>5, RuledIs
<1>7. \A m \in 1 .. p : u[m] = s[m]
  <2> SUFFICES ASSUME NEW m \in 1 .. p PROVE u[m] = s[m]
    OBVIOUS
  <2>1. m \in 1 .. p + q
    BY <1>4
  <2> QED BY <1>3, <1>4, <1>5, <2>1 DEF Ruled
<1>8. \A m \in 1 .. q : u[p + m] = t[m]
  <2> SUFFICES ASSUME NEW m \in 1 .. q PROVE u[p + m] = t[m]
    OBVIOUS
  <2>1. p + m \in 1 .. p + q
    BY <1>4
  <2> QED BY <1>3, <1>4, <1>5, <2>1 DEF Ruled
<1>9. /\ s \o t \in Seq(FileRules) /\ Len(s \o t) = p + q
      /\ \A m \in 1 .. p + q : (s \o t)[m] = IF m <= p THEN s[m] ELSE t[m - p]
  BY <1>6, ConcatProperties
<1>10. \A m \in 1 .. p + q : u[m] = (s \o t)[m]
  <2> SUFFICES ASSUME NEW m \in 1 .. p + q PROVE u[m] = (s \o t)[m]
    OBVIOUS
  <2>1. CASE m <= p
    <3>1. m \in 1 .. p
      BY <1>4, <2>1
    <3> QED BY <1>7, <1>9, <2>1, <3>1
  <2>2. CASE ~ (m <= p)
    <3>1. m - p \in 1 .. q /\ p + (m - p) = m
      BY <1>4, <2>2
    <3>2. (s \o t)[m] = t[m - p]
      BY <1>9, <2>2
    <3>3. PICK x : x = m - p
      OBVIOUS
    <3>4. u[p + x] = t[x]
      BY <1>8, <3>1, <3>3
    <3> QED BY <3>1, <3>2, <3>3, <3>4
  <2> QED BY <2>1, <2>2
<1>11. u = s \o t
  <2>1. PICK v : v = s \o t
    OBVIOUS
  <2>2. v \in Seq(FileRules) /\ Len(v) = Len(u) /\ \A m \in 1 .. Len(u) : v[m] = u[m]
    BY <1>6, <1>9, <1>10, <2>1
  <2> QED BY <1>6, <2>1, <2>2, SeqEqual
<1> QED BY <1>5, <1>11

\* The rules found in the selected groups, one group after the other.
LEMMA PolicyRulesAre ==
    ASSUME NEW N \in Nat, N = Len(Policy!Grouped), NEW F,
           \A k \in 0 .. N : F[k] = IF k = 0 THEN <<>>
                                    ELSE IF k \in Policy!Selected
                                         THEN F[k - 1] \o Policy!Grouped[k].rules ELSE F[k - 1],
           F = [k \in 0 .. N |-> F[k]]
    PROVE  Policy!PolicyRules = SubSeq(F[N], 1, Policy!Min({Len(F[N]), MaxRules}))
<1> DEFINE step(f) == [k \in 0 .. N |-> IF k = 0 THEN <<>>
                                        ELSE IF k \in Policy!Selected
                                             THEN f[k - 1] \o Policy!Grouped[k].rules
                                             ELSE f[k - 1]]
           c == CHOOSE f : f = step(f)
<1>1. F = step(F)
  OBVIOUS
<1>2. c = step(c)
  <2>1. \E f : f = step(f)
    <3> HIDE DEF step
    <3> QED BY <1>1
  <2> HIDE DEF step
  <2> QED BY <2>1
<1>3. Policy!PolicyRules = SubSeq(c[N], 1, Policy!Min({Len(c[N]), MaxRules}))
  BY DEF Policy!PolicyRules
<1> HIDE DEF c
<1>4. \A k \in 0 .. N : c[k] = IF k = 0 THEN <<>>
                               ELSE IF k \in Policy!Selected
                                    THEN c[k - 1] \o Policy!Grouped[k].rules ELSE c[k - 1]
  BY <1>2
<1> HIDE DEF step
<1> DEFINE U == {k \in 0 .. N : c[k] # F[k]}
<1>5. U = {}
  <2> SUFFICES ASSUME U # {} PROVE FALSE
    OBVIOUS
  <2>1. U \in SUBSET Nat
    OBVIOUS
  <2>2. PICK k \in U : \A m \in U : k <= m
    <3> HIDE DEF U
    <3> QED BY <2>1, Smallest
  <2>3. k \in 0 .. N /\ c[k] # F[k]
    OBVIOUS
  <2>4. k # 0
    BY <1>4, <2>3
  <2>5. k - 1 \in 0 .. N /\ ~ (k <= k - 1)
    BY <2>3, <2>4
  <2>6. c[k - 1] = F[k - 1]
    BY <2>2, <2>5
  <2> QED BY <1>4, <2>3, <2>4, <2>6
<1>6. c[N] = F[N]
  <2>1. N \in 0 .. N
    OBVIOUS
  <2> QED BY <1>5, <2>1
<1> QED BY <1>3, <1>6

\* The rules kept are those of the first lines of ours, in their order.
LEMMA RulesAre ==
    ASSUME Policy!RobotsAssumption, RobotsTypes, Everyone,
           NEW home, Homes(home), Holds(home), NEW ours,
           ours = Policy!OurLines(RuleNames, Separators)
    PROVE  /\ ours \in SUBSET (1 .. Len(text))
           /\ IsFiniteSet(ours)
           /\ Policy!PolicyRules
                = SubSeq(Ruled(ours), 1, Policy!Min({Cardinality(ours), MaxRules}))
<1>1. PICK N \in Nat : N = Len(Policy!Grouped)
  BY TypesNow
<1>2. PICK n \in Nat : n = Len(text)
  BY DEF RobotsTypes
<1>3. text \in Seq(Lines)
  BY DEF RobotsTypes
<1>4. \A i : i \in ours <=>
             /\ i \in 1 .. n /\ text[i].name \in RuleNames /\ Valued(text[i])
             /\ home[i] \in Policy!Selected
  <2>1. RuleNames \in SUBSET Policy!Directives
    BY DEF RuleNames, Policy!Directives
  <2> QED BY <1>2, <2>1, OursAre
<1>5. ours \in SUBSET (1 .. n) /\ IsFiniteSet(ours)
  <2>1. ours \in SUBSET (1 .. n)
    BY <1>4
  <2>2. IsFiniteSet(1 .. n)
    BY FS_Interval
  <2> QED BY <2>1, <2>2, FS_Subset
<1>6. /\ home \in [1 .. n -> 0 .. N]
      /\ \A i, j \in 1 .. n : i < j /\ home[i] # 0 /\ home[j] # 0 => home[i] <= home[j]
  BY <1>1, <1>2 DEF Homes
<1>7. Policy!Selected \in SUBSET (1 .. N)
  <2>1. DOMAIN Policy!Grouped = 1 .. N
    <3>1. Policy!Grouped \in Seq(AnyGroup)
      BY TypesNow
    <3> QED BY <1>1, <3>1
  <2> QED BY <2>1 DEF Policy!Selected
<1> DEFINE L(k) == {i \in ours : home[i] <= k}
           F == [k \in 0 .. N |-> Ruled(L(k))]
<1>8. L(0) = {}
  <2> SUFFICES ASSUME NEW i \in ours PROVE ~ (home[i] <= 0)
    OBVIOUS
  <2>1. home[i] \in 1 .. N
    BY <1>4, <1>7
  <2> QED BY <2>1
<1>9. L(N) = ours
  <2> SUFFICES ASSUME NEW i \in ours PROVE home[i] <= N
    OBVIOUS
  <2>1. home[i] \in 1 .. N
    BY <1>4, <1>7
  <2> QED BY <2>1
<1>10. ASSUME NEW k \in 1 .. N
       PROVE  Ruled(L(k)) = IF k \in Policy!Selected
                            THEN Ruled(L(k - 1)) \o Policy!Grouped[k].rules
                            ELSE Ruled(L(k - 1))
  <2> DEFINE T == Told(RuleNames, home, k)
  <2>1. \A i : i \in T <=> i \in 1 .. n /\ text[i].name \in RuleNames /\ Valued(text[i])
                           /\ home[i] = k
    BY <1>2 DEF Told
  <2>2. \A i \in ours : home[i] \in 1 .. N
    BY <1>4, <1>7
  <2>3. \A i \in ours : home[i] <= k <=> home[i] <= k - 1 \/ home[i] = k
    BY <2>2
  <2> HIDE DEF T
  <2>4. CASE k \in Policy!Selected
    <3>1. L(k) = L(k - 1) \cup T
      <4>1. \A i : i \in T => i \in ours /\ home[i] = k
        BY <1>4, <2>1, <2>4
      <4>2. \A i \in ours : home[i] = k => i \in T
        BY <1>4, <2>1
      <4>3. \A i \in T : i \in ours /\ home[i] <= k
        BY <2>3, <4>1
      <4> QED BY <2>3, <4>2, <4>3
    <3>2. PICK P : P = L(k - 1)
      OBVIOUS
    <3>3. P \in SUBSET (1 .. n) /\ T \in SUBSET (1 .. n)
      BY <1>5, <2>1, <3>2
    <3>4. \A p \in P, q \in T : p < q
      <4> SUFFICES ASSUME NEW p \in P, NEW q \in T PROVE p < q
        OBVIOUS
      <4>1. p \in 1 .. n /\ q \in 1 .. n /\ home[q] = k
        BY <2>1, <3>3
      <4>2. home[p] \in 1 .. N /\ home[p] <= k - 1
        BY <2>2, <3>2
      <4>3. home[p] # 0 /\ home[q] # 0 /\ ~ (home[q] <= home[p])
        BY <4>1, <4>2
      <4>4. ~ (q < p) /\ q # p
        BY <1>6, <4>1, <4>3, <4>2
      <4> QED BY <4>1, <4>4
    <3>5. Ruled(P \cup T) = Ruled(P) \o Ruled(T)
      BY <1>2, <1>3, <3>3, <3>4, RuledJoin
    <3>6. Policy!Grouped[k].rules = Ruled(T)
      BY <1>1, HoldsAre DEF Given, T
    <3> QED BY <2>4, <3>1, <3>2, <3>5, <3>6
  <2>5. CASE k \notin Policy!Selected
    <3>1. \A i \in ours : home[i] # k
      BY <1>4, <2>5
    <3>2. L(k) = L(k - 1)
      BY <2>3, <3>1
    <3> QED BY <2>5, <3>2
  <2> QED BY <2>4, <2>5
<1>11. Ruled({}) = <<>>
  <2>1. {} \in SUBSET (1 .. Len(text)) /\ IsFiniteSet({}) /\ Cardinality({}) = 0
    BY FS_EmptySet
  <2>2. Ruled({}) \in Seq(FileRules) /\ Len(Ruled({})) = 0
    BY <1>3, <2>1, RuledIs
  <2> QED BY <2>2
<1>12. \A k \in 0 .. N : F[k] = IF k = 0 THEN <<>>
                                    ELSE IF k \in Policy!Selected
                                         THEN F[k - 1] \o Policy!Grouped[k].rules ELSE F[k - 1]
  <2> SUFFICES ASSUME NEW k \in 0 .. N
               PROVE  F[k] = IF k = 0 THEN <<>>
                                    ELSE IF k \in Policy!Selected
                                         THEN F[k - 1] \o Policy!Grouped[k].rules ELSE F[k - 1]
    OBVIOUS
  <2> HIDE DEF L
  <2>1. CASE k = 0
    BY <1>8, <1>11, <2>1
  <2>2. CASE k # 0
    <3>1. k \in 1 .. N /\ k - 1 \in 0 .. N
      BY <2>2
    <3>2. F[k] = Ruled(L(k)) /\ F[k - 1] = Ruled(L(k - 1))
      BY <3>1
    <3> HIDE DEF F
    <3> QED BY <1>10, <2>2, <3>1, <3>2
  <2> QED BY <2>1, <2>2
<1>13. F[N] = Ruled(ours) /\ F = [k \in 0 .. N |-> F[k]]
  <2>1. N \in 0 .. N
    OBVIOUS
  <2> HIDE DEF L
  <2> QED BY <1>9, <2>1
<1> HIDE DEF F
<1>14. Policy!PolicyRules = SubSeq(F[N], 1, Policy!Min({Len(F[N]), MaxRules}))
  BY <1>1, <1>12, <1>13, PolicyRulesAre
<1>15. Len(Ruled(ours)) = Cardinality(ours)
  BY <1>2, <1>3, <1>5, RuledIs
<1> QED BY <1>2, <1>5, <1>13, <1>14, <1>15

-----------------------------------------------------------------------------
(* Robots: the strongest of the rules kept, and the delay.                  *)

\* The rules are as long as their patterns, and a set of them speaks for a path.
Weighed(kept, M) ==
    \A m \in 1 .. M : Length[kept[m].pattern] \in Nat /\ kept[m].allow \in BOOLEAN

Hits(kept, M, path) == {m \in 1 .. M : <<kept[m].pattern, path>> \in Matches}

Favour(kept, hits) ==
    \/ hits = {}
    \/ \E i \in hits : /\ kept[i].allow
                       /\ \A j \in hits : Length[kept[j].pattern] <= Length[kept[i].pattern]

\* The verdict of a list of rules: the longest that matches, and among the
\* longest one that allows.
LEMMA StrongestIs ==
    ASSUME NEW kept, kept = Policy!PolicyRules, NEW M \in Nat, M = Len(kept), NEW path,
           Weighed(kept, M), NEW hits, hits = Hits(kept, M, path)
    PROVE  Policy!Allowed(path) = Favour(kept, hits)
<1> DEFINE none == [allow |-> TRUE, length |-> -1]
           step(f) == [k \in 0 .. M |-> IF k = 0 THEN none
                                        ELSE Policy!Stronger(f[k - 1], kept[k], path)]
           Runs(f, k) == /\ f = [j \in 0 .. k |-> f[j]] /\ f[0] = none
                         /\ \A j \in 1 .. k : f[j] = Policy!Stronger(f[j - 1], kept[j], path)
           U == {k \in 0 .. M : ~ \E f : Runs(f, k)}
           c == CHOOSE f : f = step(f)
<1> HIDE DEF none
<1>1. U = {}
  <2> SUFFICES ASSUME U # {} PROVE FALSE
    OBVIOUS
  <2>1. U \in SUBSET Nat
    OBVIOUS
  <2>2. PICK k \in U : \A m \in U : k <= m
    <3> HIDE DEF U
    <3> QED BY <2>1, Smallest
  <2>3. k \in 0 .. M /\ ~ \E f : Runs(f, k)
    OBVIOUS
  <2>4. CASE k = 0
    <3> DEFINE f == [j \in 0 .. 0 |-> none]
    <3>1. Runs(f, 0)
      OBVIOUS
    <3> QED BY <2>3, <2>4, <3>1
  <2>5. CASE k # 0
    <3>1. k - 1 \in 0 .. M /\ ~ (k <= k - 1) /\ k \in 1 .. M
      BY <2>3, <2>5
    <3>2. PICK f : Runs(f, k - 1)
      <4> HIDE DEF Runs
      <4> QED BY <2>2, <3>1
    <3> DEFINE g == [j \in 0 .. k |-> IF j = k THEN Policy!Stronger(f[k - 1], kept[k], path)
                                      ELSE f[j]]
    <3>3. g = [j \in 0 .. k |-> g[j]] /\ g[0] = none
      BY <2>5, <3>1, <3>2
    <3>4. ASSUME NEW j \in 1 .. k PROVE g[j] = Policy!Stronger(g[j - 1], kept[j], path)
      <4>1. j \in 0 .. k /\ j - 1 \in 0 .. k /\ j - 1 # k
        BY <3>1
      <4>2. g[j - 1] = f[j - 1]
        BY <4>1
      <4>3. CASE j = k
        BY <4>1, <4>2, <4>3
      <4>4. CASE j # k
        <5>1. j \in 1 .. (k - 1)
          BY <3>1, <4>4
        <5>2. f[j] = Policy!Stronger(f[j - 1], kept[j], path)
          BY <3>2, <5>1
        <5> QED BY <4>1, <4>2, <4>4, <5>2
      <4> QED BY <4>3, <4>4
    <3>5. Runs(g, k)
      <4> HIDE DEF g
      <4> QED BY <3>3, <3>4
    <3> HIDE DEF g, Runs
    <3> QED BY <2>3, <3>5
  <2> QED BY <2>4, <2>5
<1>2. PICK F : Runs(F, M)
  <2>1. M \in 0 .. M
    OBVIOUS
  <2> HIDE DEF Runs
  <2> QED BY <1>1, <2>1
<1>3. F = step(F)
  <2>1. \A k \in 0 .. M : F[k] = IF k = 0 THEN none
                                 ELSE Policy!Stronger(F[k - 1], kept[k], path)
    <3> SUFFICES ASSUME NEW k \in 0 .. M
                 PROVE  F[k] = IF k = 0 THEN none
                               ELSE Policy!Stronger(F[k - 1], kept[k], path)
      OBVIOUS
    <3>1. k # 0 => k \in 1 .. M
      OBVIOUS
    <3> QED BY <1>2, <3>1
  <2>2. F = [k \in 0 .. M |-> F[k]]
    BY <1>2
  <2> HIDE DEF Runs
  <2> QED BY <2>1, <2>2
<1>4. c = step(c)
  <2>1. \E f : f = step(f)
    <3> HIDE DEF step, Runs
    <3> QED BY <1>3
  <2> HIDE DEF step
  <2> QED BY <2>1
<1>5. Policy!Allowed(path) = c[M].allow
  BY DEF Policy!Allowed, none
<1> HIDE DEF c, Runs, U
<1>6. \A k \in 0 .. M : c[k] = IF k = 0 THEN none
                               ELSE Policy!Stronger(c[k - 1], kept[k], path)
  BY <1>4
<1> HIDE DEF step
<1> DEFINE hit(m) == <<kept[m].pattern, path>> \in Matches
           len(m) == Length[kept[m].pattern]
           Strong(k, x) ==
             \/ /\ \A m \in 1 .. k : ~ hit(m)
                /\ x.allow = TRUE /\ x.length = -1
             \/ \E m \in 1 .. k : /\ hit(m) /\ x.length = len(m) /\ x.allow = kept[m].allow
                                  /\ \A j \in 1 .. k : hit(j) =>
                                       /\ len(j) <= len(m)
                                       /\ len(j) = len(m) /\ kept[j].allow => x.allow
           V == {k \in 0 .. M : ~ Strong(k, c[k])}
<1>7. \A m \in 1 .. M : len(m) \in Nat /\ kept[m].allow \in BOOLEAN
  BY DEF Weighed
<1>8. ASSUME NEW x, NEW k \in 1 .. M
      PROVE  /\ hit(k) /\ (len(k) > x.length \/ (len(k) = x.length /\ kept[k].allow)) =>
                  /\ Policy!Stronger(x, kept[k], path).allow = kept[k].allow
                  /\ Policy!Stronger(x, kept[k], path).length = len(k)
             /\ ~ (hit(k) /\ (len(k) > x.length \/ (len(k) = x.length /\ kept[k].allow))) =>
                  Policy!Stronger(x, kept[k], path) = x
  BY DEF Policy!Stronger
<1> HIDE DEF hit, len
<1>9. ASSUME NEW k \in 1 .. M, NEW x, Strong(k - 1, x), NEW y,
             y = Policy!Stronger(x, kept[k], path)
      PROVE  Strong(k, y)
  <2>1. /\ \A m \in 1 .. k : m \in 1 .. k - 1 \/ m = k
        /\ \A m \in 1 .. k - 1 : m \in 1 .. k /\ m \in 1 .. M
        /\ k \in 1 .. k
    OBVIOUS
  <2>2. CASE hit(k) /\ (len(k) > x.length \/ (len(k) = x.length /\ kept[k].allow))
    <3>1. y.allow = kept[k].allow /\ y.length = len(k)
      BY <1>8, <1>9, <2>2
    <3>2. ASSUME NEW j \in 1 .. k, hit(j)
          PROVE  len(j) <= len(k) /\ (len(j) = len(k) /\ kept[j].allow => y.allow)
      <4>1. CASE j = k
        BY <1>7, <3>1, <4>1
      <4>2. CASE j # k
        <5>1. j \in 1 .. k - 1
          BY <2>1, <4>2
        <5>2. PICK m \in 1 .. k - 1 :
                hit(m) /\ x.length = len(m) /\ len(j) <= len(m)
                /\ (len(j) = len(m) /\ kept[j].allow => x.allow)
          BY <1>9, <3>2, <5>1
        <5>3. len(m) \in Nat /\ len(j) \in Nat /\ len(k) \in Nat
          BY <1>7, <2>1, <5>1
        <5>4. len(j) <= len(k)
          BY <2>2, <5>2, <5>3
        <5>5. ASSUME len(j) = len(k) PROVE kept[k].allow
          BY <2>2, <5>2, <5>3, <5>5
        <5> QED BY <3>1, <5>4, <5>5
      <4> QED BY <4>1, <4>2
    <3> QED BY <2>1, <2>2, <3>1, <3>2
  <2>3. CASE ~ (hit(k) /\ (len(k) > x.length \/ (len(k) = x.length /\ kept[k].allow)))
    <3>1. y = x
      BY <1>8, <1>9, <2>3
    <3>2. CASE /\ \A m \in 1 .. k - 1 : ~ hit(m)
               /\ x.allow = TRUE /\ x.length = -1
      <4>1. ~ hit(k)
        <5>1. len(k) \in Nat
          BY <1>7
        <5>2. len(k) > x.length
          BY <3>2, <5>1
        <5> QED BY <2>3, <5>2
      <4> QED BY <2>1, <3>1, <3>2, <4>1
    <3>3. ASSUME NEW m \in 1 .. k - 1,
                 hit(m) /\ x.length = len(m) /\ x.allow = kept[m].allow,
                 \A j \in 1 .. k - 1 : hit(j) =>
                   len(j) <= len(m) /\ (len(j) = len(m) /\ kept[j].allow => x.allow)
          PROVE  Strong(k, y)
      <4>1. hit(k) => len(k) <= len(m) /\ (len(k) = len(m) /\ kept[k].allow => x.allow)
        <5>1. len(k) \in Nat /\ len(m) \in Nat
          BY <1>7, <2>1
        <5> QED BY <2>3, <3>3, <5>1
      <4>2. \A j \in 1 .. k : hit(j) =>
              len(j) <= len(m) /\ (len(j) = len(m) /\ kept[j].allow => y.allow)
        BY <2>1, <3>1, <3>3, <4>1
      <4> QED BY <2>1, <3>1, <3>3, <4>2
    <3> QED BY <1>9, <3>2, <3>3
  <2> QED BY <2>2, <2>3
<1>10. V = {}
  <2> SUFFICES ASSUME V # {} PROVE FALSE
    OBVIOUS
  <2> HIDE DEF Strong
  <2>1. V \in SUBSET Nat
    OBVIOUS
  <2>2. PICK k \in V : \A m \in V : k <= m
    <3> HIDE DEF V
    <3> QED BY <2>1, Smallest
  <2>3. k \in 0 .. M /\ ~ Strong(k, c[k])
    OBVIOUS
  <2>4. CASE k = 0
    <3>1. c[k].allow = TRUE /\ c[k].length = -1
      BY <1>6, <2>3, <2>4 DEF none
    <3>2. 1 .. k = {}
      BY <2>4
    <3>3. Strong(k, c[k])
      BY <3>1, <3>2 DEF Strong
    <3> QED BY <2>3, <3>3
  <2>5. CASE k # 0
    <3>1. k - 1 \in 0 .. M /\ ~ (k <= k - 1) /\ k \in 1 .. M
      BY <2>3, <2>5
    <3>2. Strong(k - 1, c[k - 1])
      BY <2>2, <3>1
    <3>3. c[k] = Policy!Stronger(c[k - 1], kept[k], path)
      BY <1>6, <2>3, <2>5
    <3>4. Strong(k, c[k])
      BY <1>9, <3>1, <3>2, <3>3
    <3> QED BY <2>3, <3>4
  <2> QED BY <2>4, <2>5
<1>11. Strong(M, c[M])
  <2>1. M \in 0 .. M
    OBVIOUS
  <2> HIDE DEF Strong
  <2> QED BY <1>10, <2>1
<1> DEFINE Won == \/ \A m \in 1 .. M : ~ hit(m)
                  \/ \E i \in 1 .. M : /\ hit(i) /\ kept[i].allow
                                       /\ \A j \in 1 .. M : hit(j) => len(j) <= len(i)
<1>12. c[M].allow = Won
  <2>1. CASE /\ \A m \in 1 .. M : ~ hit(m)
             /\ c[M].allow = TRUE /\ c[M].length = -1
    BY <2>1
  <2>2. CASE \E m \in 1 .. M : /\ hit(m) /\ c[M].length = len(m) /\ c[M].allow = kept[m].allow
                               /\ \A j \in 1 .. M : hit(j) =>
                                    len(j) <= len(m) /\ (len(j) = len(m) /\ kept[j].allow => c[M].allow)
    <3>0. PICK m \in 1 .. M :
            /\ hit(m) /\ c[M].length = len(m) /\ c[M].allow = kept[m].allow
            /\ \A j \in 1 .. M : hit(j) =>
                 len(j) <= len(m) /\ (len(j) = len(m) /\ kept[j].allow => c[M].allow)
      BY <2>2
    <3>1. c[M].allow \in BOOLEAN
      BY <1>7, <3>0
    <3>2. c[M].allow => Won
      BY <3>0
    <3>3. Won => c[M].allow
      <4> SUFFICES ASSUME NEW i \in 1 .. M, hit(i), kept[i].allow,
                          \A j \in 1 .. M : hit(j) => len(j) <= len(i)
                   PROVE  c[M].allow
        BY <3>0
      <4>1. len(i) <= len(m) /\ len(m) <= len(i) /\ len(i) \in Nat /\ len(m) \in Nat
        BY <1>7, <3>0
      <4>2. len(i) = len(m)
        BY <4>1
      <4> QED BY <3>0, <4>2
    <3>4. Won \in BOOLEAN
      OBVIOUS
    <3> HIDE DEF Won
    <3> QED BY <3>1, <3>2, <3>3, <3>4
  <2>3. \/ /\ \A m \in 1 .. M : ~ hit(m)
           /\ c[M].allow = TRUE /\ c[M].length = -1
        \/ \E m \in 1 .. M : /\ hit(m) /\ c[M].length = len(m) /\ c[M].allow = kept[m].allow
                             /\ \A j \in 1 .. M : hit(j) =>
                                  len(j) <= len(m) /\ (len(j) = len(m) /\ kept[j].allow => c[M].allow)
    BY <1>11
  <2> HIDE DEF Won
  <2> QED BY <2>1, <2>2, <2>3
<1>13. Won = (\/ hits = {}
              \/ \E i \in hits : /\ kept[i].allow
                                 /\ \A j \in hits :
                                      Length[kept[j].pattern] <= Length[kept[i].pattern])
  <2>1. \A m : m \in hits <=> m \in 1 .. M /\ hit(m)
    BY DEF hit, Hits
  <2>2. hits = {} <=> \A m \in 1 .. M : ~ hit(m)
    BY <2>1
  <2>3. (\E i \in hits : kept[i].allow /\ \A j \in hits : len(j) <= len(i))
          <=> \E i \in 1 .. M : /\ hit(i) /\ kept[i].allow
                                /\ \A j \in 1 .. M : hit(j) => len(j) <= len(i)
    BY <2>1
  <2> QED BY <2>2, <2>3 DEF len
<1> QED BY <1>5, <1>12, <1>13 DEF Favour

\* The first MaxRules lines of ours, by their numbers.
LEMMA OurRulesAre ==
    ASSUME Policy!RobotsAssumption, NEW ours \in SUBSET Nat, IsFiniteSet(ours),
           ours = Policy!OurLines(RuleNames, Separators),
           NEW M, M = Policy!Min({Cardinality(ours), MaxRules})
    PROVE  /\ M \in Nat /\ M <= Cardinality(ours)
           /\ \A i : i \in Policy!OurRules(Separators) <=> \E m \in 1 .. M : i = Nth(ours, m)
<1>1. PICK c : c = Cardinality(ours)
  OBVIOUS
<1>2. c \in Nat /\ MaxRules \in Nat
  BY <1>1, FS_CardinalityType, FileTypes
<1>3. M = IF c <= MaxRules THEN c ELSE MaxRules
  BY <1>1, <1>2, MinOfTwo
<1>4. M \in Nat /\ M <= c /\ \A r \in Nat : r <= M <=> r <= c /\ r <= MaxRules
  BY <1>2, <1>3
<1>5. \A i : i \in Policy!OurRules(Separators) <=>
        i \in ours /\ Cardinality({j \in ours : j < i}) < MaxRules
  <2>1. Policy!OurLines({"allow", "disallow"}, Separators) = ours
    BY DEF RuleNames
  <2>2. Policy!OurRules(Separators)
          = {i \in ours : Policy!Cardinality({j \in ours : j < i}) < MaxRules}
    BY <2>1 DEF Policy!OurRules
  <2> QED BY <2>2, SameOperators
<1>6. /\ \A n \in 1 .. c : Nth(ours, n) \in ours /\ Cardinality({j \in ours : j <= Nth(ours, n)}) = n
      /\ \A i \in ours : Nth(ours, Cardinality({j \in ours : j <= i})) = i
  BY <1>1, NthIs
<1>7. \A i \in ours : Cardinality({j \in ours : j <= i}) \in 1 .. c
  BY <1>1, Ranks
<1>8. ASSUME NEW i \in ours
      PROVE  Cardinality({j \in ours : j < i}) < MaxRules
               <=> Cardinality({j \in ours : j <= i}) <= M
  <2> DEFINE A == {j \in ours : j < i}
             B == {j \in ours : j <= i}
  <2>1. A \in SUBSET ours /\ i \notin A /\ B = A \cup {i}
    <3>1. i \in Nat
      OBVIOUS
    <3>2. \A j \in ours : j \in Nat
      OBVIOUS
    <3>3. \A j \in ours : j <= i <=> j < i \/ j = i
      BY <3>1, <3>2
    <3>4. ~ (i < i)
      BY <3>1
    <3> QED BY <3>3, <3>4
  <2>2. Cardinality(B) \in 1 .. c
    BY <1>7
  <2> HIDE DEF A, B
  <2>3. IsFiniteSet(A)
    BY <2>1, FS_Subset
  <2>4. Cardinality(B) = Cardinality(A) + 1 /\ Cardinality(A) \in Nat
    BY <2>1, <2>3, FS_AddElement, FS_CardinalityType
  <2>5. PICK a, b : a = Cardinality(A) /\ b = Cardinality(B)
    OBVIOUS
  <2>6. a < MaxRules <=> b <= M
    <3>1. b = a + 1 /\ a \in Nat /\ b \in Nat /\ b <= c
      BY <1>2, <2>2, <2>4, <2>5
    <3>2. b <= M <=> b <= c /\ b <= MaxRules
      BY <1>4, <3>1
    <3> QED BY <1>2, <3>1, <3>2
  <2> QED BY <2>5, <2>6 DEF A, B
<1>9. ASSUME NEW i
      PROVE  i \in Policy!OurRules(Separators) <=> \E m \in 1 .. M : i = Nth(ours, m)
  <2>1. ASSUME i \in Policy!OurRules(Separators) PROVE \E m \in 1 .. M : i = Nth(ours, m)
    <3>1. i \in ours /\ Cardinality({j \in ours : j < i}) < MaxRules
      BY <1>5, <2>1
    <3>2. PICK m : m = Cardinality({j \in ours : j <= i})
      OBVIOUS
    <3>3. m \in 1 .. c /\ m <= M /\ i = Nth(ours, m)
      BY <1>6, <1>7, <1>8, <3>1, <3>2
    <3>4. m \in 1 .. M
      BY <1>4, <3>3
    <3> QED BY <3>3, <3>4
  <2>2. ASSUME NEW m \in 1 .. M, i = Nth(ours, m) PROVE i \in Policy!OurRules(Separators)
    <3>1. m \in 1 .. c /\ m <= M
      BY <1>2, <1>4
    <3>2. i \in ours /\ Cardinality({j \in ours : j <= i}) = m
      BY <1>6, <2>2, <3>1
    <3> QED BY <1>5, <1>8, <3>1, <3>2
  <2> QED BY <2>1, <2>2
<1> QED BY <1>1, <1>4, <1>9

\* The verdict on a path is that of the lines of ours, for their rules are kept
\* in their order and as many as MaxRules.
LEMMA VerdictsAre ==
    ASSUME Policy!RobotsAssumption, RobotsInv
    PROVE  Policy!VerdictsFollowTheFile
<1>1. PICK home : Homes(home) /\ Holds(home)
  BY DEF RobotsInv
<1>2. RobotsTypes /\ Everyone /\ text \in Seq(Lines)
  BY DEF RobotsInv, RobotsTypes
<1>3. PICK n \in Nat : n = Len(text)
  BY <1>2
<1>4. PICK ours : ours = Policy!OurLines(RuleNames, Separators)
  OBVIOUS
<1>5. PICK M : M = Policy!Min({Cardinality(ours), MaxRules})
  OBVIOUS
<1>6. PICK kept : kept = Policy!PolicyRules
  OBVIOUS
<1>7. ours \in SUBSET (1 .. n) /\ IsFiniteSet(ours) /\ kept = SubSeq(Ruled(ours), 1, M)
  BY <1>1, <1>2, <1>3, <1>4, <1>5, <1>6, RulesAre
<1>8. ours \in SUBSET Nat
  BY <1>7
<1>9. /\ M \in Nat /\ M <= Cardinality(ours)
      /\ \A i : i \in Policy!OurRules(Separators) <=> \E m \in 1 .. M : i = Nth(ours, m)
  BY <1>4, <1>5, <1>7, <1>8, OurRulesAre
<1>10. PICK c \in Nat : c = Cardinality(ours)
  BY <1>7, FS_CardinalityType
<1>11. \A m \in 1 .. M : m \in 1 .. c /\ Nth(ours, m) \in ours
  <2>1. \A m \in 1 .. M : m \in 1 .. c
    BY <1>9, <1>10
  <2> QED BY <1>7, <1>8, <1>10, <2>1, NthIs
<1>12. Len(kept) = M /\ \A m \in 1 .. M : kept[m] = RuleOf(text[Nth(ours, m)])
  <2>1. PICK s : s = Ruled(ours)
    OBVIOUS
  <2>2. s \in Seq(FileRules) /\ Len(s) = c
    BY <1>2, <1>3, <1>7, <1>10, <2>1, RuledIs
  <2>3. \A m \in 1 .. M : s[m] \in FileRules
    BY <1>11, <2>2
  <2>4. /\ Len(SubSeq(s, 1, M)) = IF 1 <= M THEN M - 1 + 1 ELSE 0
        /\ \A m \in 1 .. M - 1 + 1 : SubSeq(s, 1, M)[m] = s[1 + m - 1]
    BY <1>9, <2>3, SubSeqProperties
  <2>5. Len(kept) = M
    BY <1>7, <1>9, <2>1, <2>4
  <2>6. ASSUME NEW m \in 1 .. M PROVE kept[m] = RuleOf(text[Nth(ours, m)])
    <3>1. m \in 1 .. M - 1 + 1 /\ 1 + m - 1 = m
      BY <1>9
    <3>2. kept[m] = s[m]
      BY <1>7, <2>1, <2>4, <3>1
    <3> QED BY <1>10, <1>11, <2>1, <3>2 DEF Ruled
  <2> QED BY <2>5, <2>6
<1> DEFINE line(m) == text[Nth(ours, m)]
<1>13. \A m \in 1 .. M : /\ kept[m].pattern = line(m).value
                         /\ kept[m].allow = (line(m).name = "allow")
  BY <1>12 DEF RuleOf
<1>14. ASSUME NEW m \in 1 .. M PROVE Length[kept[m].pattern] \in Nat /\ kept[m].allow \in BOOLEAN
  <2>1. PICK i \in ours : i = Nth(ours, m)
    BY <1>11
  <2>2. i \in 1 .. n /\ text[i].name \in RuleNames /\ Valued(text[i])
    <3>1. RuleNames \in SUBSET Policy!Directives
      BY DEF RuleNames, Policy!Directives
    <3> QED BY <1>1, <1>2, <1>3, <1>4, <3>1, OursAre
  <2>3. text[i] \in Lines
    BY <1>2, <1>3, <2>2
  <2>4. Length[text[i].value] \in Nat
    BY <2>2, <2>3, FileTypes DEF Valued
  <2> QED BY <1>13, <2>1, <2>4
<1>15. ASSUME NEW path
       PROVE  Policy!Allowed(path) = Policy!Permits(path, Separators)
  <2>0. PICK hits : hits = Hits(kept, M, path)
    OBVIOUS
  <2> DEFINE H == {i \in Policy!OurRules(Separators) : <<text[i].value, path>> \in Matches}
             W == \/ hits = {}
                  \/ \E i \in hits : /\ kept[i].allow
                                     /\ \A j \in hits :
                                          Length[kept[j].pattern] <= Length[kept[i].pattern]
             P == \/ H = {}
                  \/ \E i \in H : /\ text[i].name = "allow"
                                  /\ \A j \in H : Length[text[j].value] <= Length[text[i].value]
  <2>1. Policy!Allowed(path) = W
    <3>1. M \in Nat /\ M = Len(kept)
      BY <1>9, <1>12
    <3>2. Weighed(kept, M)
      BY <1>14 DEF Weighed
    <3>3. Policy!Allowed(path) = Favour(kept, hits)
      BY <1>6, <2>0, <3>1, <3>2, StrongestIs
    <3> QED BY <3>3 DEF Favour
  <2>2. Policy!Permits(path, Separators) = P
    BY DEF Policy!Permits
  <2>3. \A m \in hits : /\ m \in 1 .. M /\ Nth(ours, m) \in H
                        /\ kept[m].allow <=> line(m).name = "allow"
                        /\ kept[m].pattern = line(m).value
    BY <1>9, <1>13, <2>0 DEF Hits
  <2>4. \A i \in H : \E m \in hits : i = Nth(ours, m)
    <3> SUFFICES ASSUME NEW i \in H PROVE \E m \in hits : i = Nth(ours, m)
      OBVIOUS
    <3>1. PICK m \in 1 .. M : i = Nth(ours, m)
      BY <1>9
    <3>2. m \in hits
      BY <1>13, <2>0, <3>1 DEF Hits
    <3> QED BY <3>1, <3>2
  <2> HIDE DEF H
  <2>5. hits = {} <=> H = {}
    BY <2>3, <2>4
  <2>6. W => P
    <3> SUFFICES ASSUME NEW m \in hits, kept[m].allow,
                        \A j \in hits : Length[kept[j].pattern] <= Length[kept[m].pattern]
                 PROVE  \E i \in H : /\ text[i].name = "allow"
                                     /\ \A j \in H : Length[text[j].value] <= Length[text[i].value]
      BY <2>5
    <3>1. PICK i \in H : i = Nth(ours, m)
      BY <2>3
    <3>2. text[i].name = "allow" /\ text[i].value = kept[m].pattern
      BY <2>3, <3>1
    <3>3. ASSUME NEW j \in H PROVE Length[text[j].value] <= Length[text[i].value]
      <4>1. PICK k \in hits : j = Nth(ours, k)
        BY <2>4
      <4>2. text[j].value = kept[k].pattern
        BY <2>3, <4>1
      <4> QED BY <3>2, <4>2
    <3> QED BY <3>2, <3>3
  <2>7. P => W
    <3> SUFFICES ASSUME NEW i \in H, text[i].name = "allow",
                        \A j \in H : Length[text[j].value] <= Length[text[i].value]
                 PROVE  \E m \in hits : /\ kept[m].allow
                                        /\ \A j \in hits :
                                             Length[kept[j].pattern] <= Length[kept[m].pattern]
      BY <2>5
    <3>1. PICK m \in hits : i = Nth(ours, m)
      BY <2>4
    <3>2. kept[m].allow /\ text[i].value = kept[m].pattern
      BY <2>3, <3>1
    <3>3. ASSUME NEW j \in hits PROVE Length[kept[j].pattern] <= Length[kept[m].pattern]
      <4>1. PICK k \in H : k = Nth(ours, j)
        BY <2>3
      <4>2. text[k].value = kept[j].pattern
        BY <2>3, <4>1
      <4> QED BY <3>2, <4>2
    <3> QED BY <3>2, <3>3
  <2>8. W \in BOOLEAN /\ P \in BOOLEAN
    OBVIOUS
  <2> HIDE DEF W, P
  <2> QED BY <2>1, <2>2, <2>6, <2>7, <2>8
<1> QED BY <1>15 DEF Policy!VerdictsFollowTheFile, Separators

\* The greatest of numbers kept within a bound is the greatest of them, so kept.
LEMMA MaxWithin ==
    ASSUME NEW bound \in Nat, NEW S \in SUBSET Nat, IsFiniteSet(S), NEW D \in SUBSET Int,
           \A s \in S : Policy!Min({bound, s}) \in D,
           \A d \in D : \E s \in S : d = Policy!Min({bound, s})
    PROVE  /\ D = {} <=> S = {}
           /\ S # {} => Policy!Max(D) = Policy!Min({bound, Policy!Max(S)})
<1>1. D = {} <=> S = {}
  OBVIOUS
<1>2. ASSUME S # {} PROVE Policy!Max(D) = Policy!Min({bound, Policy!Max(S)})
  <2>1. S \in SUBSET (Nat \cup {-1})
    OBVIOUS
  <2>2. PICK m \in S : \A y \in S : y <= m
    BY <1>2, <2>1, Greatest
  <2>3. Policy!Max(S) = m
    <3>1. S \in SUBSET Int
      OBVIOUS
    <3> QED BY <2>2, <3>1, MaxIs
  <2>4. \A s \in S : Policy!Min({bound, s}) = IF bound <= s THEN bound ELSE s
    <3> SUFFICES ASSUME NEW s \in S
                 PROVE  Policy!Min({bound, s}) = IF bound <= s THEN bound ELSE s
      OBVIOUS
    <3>1. s \in Int /\ bound \in Int
      OBVIOUS
    <3> QED BY <3>1, MinOfTwo
  <2>5. PICK d \in D : d = Policy!Min({bound, m})
    OBVIOUS
  <2>6. \A y \in D : y <= d
    <3> SUFFICES ASSUME NEW y \in D PROVE y <= d
      OBVIOUS
    <3>1. PICK s \in S : y = Policy!Min({bound, s})
      OBVIOUS
    <3>2. y = IF bound <= s THEN bound ELSE s
      BY <2>4, <3>1
    <3>3. d = IF bound <= m THEN bound ELSE m
      BY <2>4, <2>5
    <3>4. s \in Nat /\ m \in Nat /\ s <= m
      BY <2>2
    <3> QED BY <3>2, <3>3, <3>4
  <2>7. Policy!Max(D) = d
    BY <2>6, MaxIs
  <2> QED BY <2>3, <2>5, <2>7
<1> QED BY <1>1, <1>2

\* A group's delay is that of the last delay line the group was given, which no
\* other delay line of ours follows in its group.
LEMMA DelaysAre ==
    ASSUME Policy!RobotsAssumption, RobotsInv
    PROVE  Policy!DelayFollowsTheFile
<1>1. PICK home : Homes(home) /\ Holds(home)
  BY DEF RobotsInv
<1>2. RobotsTypes /\ Everyone /\ text \in Seq(Lines)
  BY DEF RobotsInv, RobotsTypes
<1>3. PICK n \in Nat : n = Len(text)
  BY <1>2
<1>4. PICK N \in Nat : N = Len(Policy!Grouped)
  BY <1>2, TypesNow
<1>5. PICK ours : ours = Policy!OurLines(DelayNames, Separators)
  OBVIOUS
<1>6. \A i : i \in ours <=>
             /\ i \in 1 .. n /\ text[i].name \in DelayNames /\ Valued(text[i])
             /\ home[i] \in Policy!Selected
  <2>1. DelayNames \in SUBSET Policy!Directives
    BY DEF DelayNames, Policy!Directives
  <2> QED BY <1>1, <1>2, <1>3, <1>5, <2>1, OursAre
<1>7. Policy!Selected \in SUBSET (1 .. N)
  <2>1. DOMAIN Policy!Grouped = 1 .. N
    <3>1. Policy!Grouped \in Seq(AnyGroup)
      BY <1>2, TypesNow
    <3> QED BY <1>4, <3>1
  <2> QED BY <2>1 DEF Policy!Selected
<1>8. /\ home \in [1 .. n -> 0 .. N]
      /\ \A i, j \in 1 .. n : i < j /\ home[i] # 0 /\ home[j] # 0 =>
           (home[i] = home[j] <=> Joined(i, j))
  BY <1>1, <1>3, <1>4 DEF Homes
<1>9. \A k \in 1 .. N : DelayTold(home, k, Policy!Grouped[k].delay)
  BY <1>1, <1>4 DEF Holds
<1>10. \A i \in ours : Seconds[text[i].value] \in Nat
  <2> SUFFICES ASSUME NEW i \in ours PROVE Seconds[text[i].value] \in Nat
    OBVIOUS
  <2>1. i \in 1 .. n /\ text[i].name = "crawl-delay" /\ Valued(text[i])
    BY <1>6 DEF DelayNames
  <2>2. text[i] \in Lines
    BY <1>2, <1>3, <2>1
  <2> QED BY <2>1, <2>2, FileTypes DEF Valued
<1> DEFINE E == {i \in ours : ~ \E j \in ours : i < j /\ Joined(i, j)}
           S == {Seconds[text[i].value] : i \in E}
           D == {Policy!Grouped[k].delay : k \in Policy!Selected} \ {Policy!NoDelay}
           of(i) == Policy!Min({MaxDelay, Seconds[text[i].value]})
<1>11. Policy!OurDelays = S
  <2>1. \A i, j : Joined(i, j) <=>
          \A k \in i .. j : text[k].name \notin {"blank", "comment", "user-agent"}
    BY DEF Joined, Separators
  <2>2. ours = Policy!OurLines({"crawl-delay"}, {"blank", "comment"})
    BY <1>5 DEF DelayNames, Separators
  <2> QED BY <2>1, <2>2 DEF Policy!OurDelays
<1>12. MaxDelay \in Nat
  BY FileTypes
<1>13. \A i \in ours : of(i) \in Nat
  <2> SUFFICES ASSUME NEW i \in ours PROVE of(i) \in Nat
    OBVIOUS
  <2>1. PICK s \in Nat : s = Seconds[text[i].value]
    BY <1>10
  <2>2. s \in Int /\ MaxDelay \in Int
    BY <1>12
  <2>3. Policy!Min({MaxDelay, s}) = IF MaxDelay <= s THEN MaxDelay ELSE s
    BY <2>2, MinOfTwo
  <2> QED BY <1>12, <2>1, <2>3
\* The lines of ours in a group are those that it was told.
<1>14. \A k \in Policy!Selected : \A i : i \in Told(DelayNames, home, k) <=>
                                         i \in ours /\ home[i] = k
  BY <1>3, <1>6 DEF Told
<1>15. \A i, j \in ours : i < j => (home[i] = home[j] <=> Joined(i, j))
  <2> SUFFICES ASSUME NEW i \in ours, NEW j \in ours, i < j
               PROVE  home[i] = home[j] <=> Joined(i, j)
    OBVIOUS
  <2>1. i \in 1 .. n /\ j \in 1 .. n /\ home[i] \in 1 .. N /\ home[j] \in 1 .. N
    BY <1>6, <1>7
  <2>2. home[i] # 0 /\ home[j] # 0
    BY <1>4, <2>1
  <2> QED BY <1>8, <2>1, <2>2
<1>16. ours \in SUBSET Nat
  BY <1>3, <1>6
<1>17. ASSUME NEW k \in Policy!Selected
       PROVE  \/ Policy!Grouped[k].delay = Policy!NoDelay
              \/ \E i \in E : Policy!Grouped[k].delay = of(i)
  <2>1. PICK T : T = Told(DelayNames, home, k)
    OBVIOUS
  <2>2. PICK d : d = Policy!Grouped[k].delay
    OBVIOUS
  <2>3. DelayTold(home, k, d)
    BY <1>7, <1>9, <2>2
  <2>4. CASE T = {}
    BY <2>1, <2>2, <2>3, <2>4 DEF DelayTold
  <2>5. CASE T # {}
    <3>1. PICK i \in T : (\A j \in T : j <= i) /\ d = of(i)
      BY <2>1, <2>3, <2>5 DEF DelayTold
    <3>2. i \in ours /\ home[i] = k
      BY <1>14, <2>1, <3>1
    <3>3. ASSUME NEW j \in ours, i < j, Joined(i, j) PROVE FALSE
      <4>1. home[j] = k
        BY <1>15, <3>2, <3>3
      <4>2. j <= i
        BY <1>14, <2>1, <3>1, <4>1
      <4> QED BY <1>16, <3>2, <3>3, <4>2
    <3>4. i \in E
      BY <3>2, <3>3
    <3> QED BY <2>2, <3>1, <3>4
  <2> QED BY <2>4, <2>5
<1>18. ASSUME NEW i \in E
       PROVE  home[i] \in Policy!Selected /\ Policy!Grouped[home[i]].delay = of(i)
  <2>1. i \in ours /\ \A j \in ours : i < j => ~ Joined(i, j)
    OBVIOUS
  <2>2. PICK k : k = home[i]
    OBVIOUS
  <2>3. k \in Policy!Selected
    BY <1>6, <2>1, <2>2
  <2>4. PICK T : T = Told(DelayNames, home, k)
    OBVIOUS
  <2>5. i \in T
    BY <1>14, <2>1, <2>2, <2>3, <2>4
  <2>6. PICK d : d = Policy!Grouped[k].delay
    OBVIOUS
  <2>7. DelayTold(home, k, d)
    BY <1>7, <1>9, <2>3, <2>6
  <2>8. PICK l \in T : (\A j \in T : j <= l) /\ d = of(l)
    BY <2>4, <2>5, <2>7 DEF DelayTold
  <2>9. l \in ours /\ home[l] = k
    BY <1>14, <2>3, <2>4
  <2>10. ~ (i < l)
    BY <1>15, <2>1, <2>2, <2>9
  <2>11. l = i
    <3>1. i <= l
      BY <2>5, <2>8
    <3>2. i \in Nat /\ l \in Nat
      BY <1>16, <2>1, <2>9
    <3> QED BY <2>10, <3>1, <3>2
  <2> QED BY <2>2, <2>3, <2>6, <2>8, <2>11
<1>19. E \in SUBSET ours
  OBVIOUS
<1> DEFINE seconds == [i \in E |-> Seconds[text[i].value]]
<1>20. S \in SUBSET Nat /\ IsFiniteSet(S)
  <2>1. S \in SUBSET Nat
    BY <1>10
  <2>2. IsFiniteSet(E)
    <3>1. IsFiniteSet(1 .. n)
      BY FS_Interval
    <3>2. E \in SUBSET (1 .. n)
      BY <1>6
    <3> HIDE DEF E
    <3> QED BY <3>1, <3>2, FS_Subset
  <2>3. S = {seconds[i] : i \in E}
    OBVIOUS
  <2> HIDE DEF E, S, seconds
  <2>4. IsFiniteSet({seconds[i] : i \in E})
    BY <2>2, FiniteImage
  <2> QED BY <2>1, <2>3, <2>4
<1>21. \A s \in S : Policy!Min({MaxDelay, s}) \in D
  <2> SUFFICES ASSUME NEW i \in E PROVE of(i) \in D
    OBVIOUS
  <2>1. home[i] \in Policy!Selected /\ Policy!Grouped[home[i]].delay = of(i)
    BY <1>18
  <2>2. of(i) \in Nat
    BY <1>13
  <2>3. of(i) # Policy!NoDelay
    <3> HIDE DEF of
    <3> QED BY <2>2 DEF Policy!NoDelay
  <2> QED BY <2>1, <2>3
<1>22. \A d \in D : d \in Nat /\ \E s \in S : d = Policy!Min({MaxDelay, s})
  <2> SUFFICES ASSUME NEW d \in D
               PROVE  d \in Nat /\ \E s \in S : d = Policy!Min({MaxDelay, s})
    OBVIOUS
  <2>1. PICK k \in Policy!Selected : d = Policy!Grouped[k].delay /\ d # Policy!NoDelay
    OBVIOUS
  <2>2. PICK i \in E : d = of(i)
    BY <1>17, <2>1
  <2>3. d \in Nat
    BY <1>13, <2>2
  <2> QED BY <2>2, <2>3
<1>23. Policy!PolicyDelay = IF D = {} THEN DefaultDelay ELSE Policy!Max(D)
  BY DEF Policy!PolicyDelay
<1> HIDE DEF D, S, E
<1>24. /\ D = {} <=> S = {}
       /\ S # {} => Policy!Max(D) = Policy!Min({MaxDelay, Policy!Max(S)})
  <2>1. PICK bound \in Nat : bound = MaxDelay
    BY <1>12
  <2>2. D \in SUBSET Int
    BY <1>22
  <2>3. \A s \in S : Policy!Min({bound, s}) \in D
    BY <1>21, <2>1
  <2>4. \A d \in D : \E s \in S : d = Policy!Min({bound, s})
    BY <1>22, <2>1
  <2>5. /\ D = {} <=> S = {}
        /\ S # {} => Policy!Max(D) = Policy!Min({bound, Policy!Max(S)})
    BY <1>20, <2>2, <2>3, <2>4, MaxWithin
  <2> QED BY <2>1, <2>5
<1> QED BY <1>11, <1>23, <1>24 DEF Policy!DelayFollowsTheFile

LEMMA RobotsVars ==
    ASSUME RobotsInv, UNCHANGED Policy!vars
    PROVE  RobotsInv'
<1>1. /\ text' = text /\ groups' = groups /\ agents' = agents /\ rules' = rules
      /\ delay' = delay /\ directivesStarted' = directivesStarted
  BY DEF Policy!vars, Policy!group
<1>2. Policy!Grouped' = Policy!Grouped
  BY <1>1, GroupedTogether
<1>3. RobotsTypes'
  BY <1>1 DEF RobotsInv, RobotsTypes
<1>4. Speakers' = Speakers
  BY <1>1 DEF Speakers
<1>5. Speaking'
  BY <1>1, <1>4 DEF RobotsInv, Speaking, Directed
<1>6. Everyone'
  <2>1. NamedAgents' = NamedAgents
    BY <1>1 DEF NamedAgents
  <2> QED BY <1>2, <2>1 DEF RobotsInv, Everyone
<1>7. PICK home : Homes(home) /\ Holds(home)
  BY DEF RobotsInv
<1>8. \A i : Policy!Addressees(i, Separators)' = Policy!Addressees(i, Separators)
  BY <1>1 DEF Policy!Addressees, Policy!Addresses
<1>9. \A i, j : Joined(i, j)' <=> Joined(i, j)
  BY <1>1 DEF Joined
<1>10. Homes(home)'
  BY <1>1, <1>2, <1>7, <1>8, <1>9 DEF Homes
<1>11. Holds(home)'
  <2>1. \A k : /\ Told(RuleNames, home, k)' = Told(RuleNames, home, k)
               /\ Told(DelayNames, home, k)' = Told(DelayNames, home, k)
    BY <1>1 DEF Told
  <2>2. \A P : Ruled(P)' = Ruled(P)
    BY <1>1 DEF Ruled
  <2>3. \A k, d : DelayTold(home, k, d)' <=> DelayTold(home, k, d)
    BY <1>1, <2>1 DEF DelayTold
  <2> QED BY <1>2, <1>7, <2>1, <2>2, <2>3 DEF Holds
<1> QED BY <1>3, <1>5, <1>6, <1>10, <1>11 DEF RobotsInv

THEOREM PolicyIsTheFiles == Policy!Spec => []PolicyFollowsTheFile
<1>1. Policy!RobotsAssumption
  BY PartAssumptions
<1>2. Policy!Init => RobotsInv
  BY RobotsInit
<1>3. RobotsInv /\ [Policy!Next]_Policy!vars => RobotsInv'
  BY <1>1, RobotsStep, RobotsVars
<1>4. RobotsInv => PolicyFollowsTheFile
  BY <1>1, VerdictsAre, DelaysAre DEF PolicyFollowsTheFile, Policy!PolicyFollowsTheFile
<1> QED BY <1>2, <1>3, <1>4, PTL DEF Policy!Spec

-----------------------------------------------------------------------------
(* The parts side by side.                                                  *)

\* index.ts puts the parts together: side by side, each takes no step but its
\* own, so that what is proved of one alone holds where the others run as well.
THEOREM PartsAreTheirOwn == PartsSpec => Spec /\ Policy!Spec /\ Tags!Spec /\ Pace!Spec
<1>1. PartsInit => Init /\ Policy!Init /\ Tags!Init /\ Pace!Init
  BY DEF PartsInit
<1>2. [PartsNext]_everything =>
        [Next]_vars /\ [Policy!Next]_Policy!vars /\ [Tags!Next]_Tags!vars /\ [Pace!Next]_Pace!vars
  <2> SUFFICES ASSUME [PartsNext]_everything
               PROVE  /\ [Next]_vars /\ [Policy!Next]_Policy!vars
                      /\ [Tags!Next]_Tags!vars /\ [Pace!Next]_Pace!vars
    OBVIOUS
  <2>1. UNCHANGED robotsVars => UNCHANGED Policy!vars
    BY DEF robotsVars, Policy!vars, Policy!group
  <2>2. UNCHANGED sitemapTextVars => UNCHANGED Tags!vars
    BY DEF sitemapTextVars, Tags!vars, Tags!tree
  <2>3. UNCHANGED paceVars => UNCHANGED Pace!vars
    BY DEF paceVars, Pace!vars
  <2>4. UNCHANGED everything =>
          UNCHANGED vars /\ UNCHANGED robotsVars /\ UNCHANGED sitemapTextVars /\ UNCHANGED paceVars
    BY DEF everything
  <2>5. PartsNext => /\ Next \/ UNCHANGED vars
                     /\ Policy!Next \/ UNCHANGED robotsVars
                     /\ Tags!Next \/ UNCHANGED sitemapTextVars
                     /\ Pace!Next \/ UNCHANGED paceVars
    BY DEF PartsNext
  <2> QED BY <2>1, <2>2, <2>3, <2>4, <2>5
<1> QED BY <1>1, <1>2, PTL DEF PartsSpec, Spec, Policy!Spec, Tags!Spec, Pace!Spec

\* parseRobots, parseSitemap and fetchRaw, beside a crawl: the policy is the
\* file's, the sitemap is read as written, and the declared delay is kept.
THEOREM PartsFollowTheirFiles ==
    PartsSpec => [](PolicyFollowsTheFile /\ SitemapsFollowTheFile) /\ DelayKept
<1>1. Pace!Spec => DelayKept
  BY PartAssumptions, DelayAlwaysKept
<1> QED BY <1>1, PartsAreTheirOwn, PolicyIsTheFiles, SitemapsReadAsWritten, PTL
=============================================================================
