-------------------------- MODULE HelperPartsProofs --------------------------
(***************************************************************************)
(* Proofs about the parts of the extractors that have a model of their own: *)
(*  - no agent's cleanup removes the directory of a live extraction, for    *)
(*    any number of agents, names and commands whose timeouts fit into the  *)
(*    age at which a directory is stale (ScratchDirectories);               *)
(*  - the transcript is that of the track (Captions) and the links are      *)
(*    those of the page (DeclaredLinks), for any cues and elements.         *)
(***************************************************************************)
EXTENDS HelperParts, TLAPS

-----------------------------------------------------------------------------
(* ScratchDirectories.                                                       *)

DirTypes ==
    /\ age \in [Names -> Nat \cup {Directories!Absent}]
    /\ held \in [Procs -> Names \cup {NoName}]
    /\ command \in [Procs -> Nat]
    /\ spent \in [Procs -> Nat]
    /\ jumped \in BOOLEAN

\* The longest a directory can have been left alone: git may have changed only
\* what is below it in all the commands so far.
Young(p) ==
    /\ command[p] \in 1 .. Commands
    /\ spent[p] <= Timeout
    /\ age[held[p]] \in Nat
    /\ age[held[p]] <= (command[p] - 1) * Timeout + spent[p]

\* While the clock has not jumped, an extraction has a directory of its own,
\* no older than its commands can make it.
Live ==
    ~jumped =>
      \A p \in Procs : held[p] # NoName =>
        /\ Young(p)
        /\ \A q \in Procs : held[q] = held[p] => q = p

DirInv == DirTypes /\ Live

LEMMA Monotone ==
    ASSUME NEW m \in Nat, NEW n \in Nat, NEW t \in Nat, m <= n
    PROVE  m * t <= n * t
<1>1. PICK k \in Nat : n = m + k
  <2>1. n - m \in Nat /\ n = m + (n - m)
    OBVIOUS
  <2> QED BY <2>1
<1>2. n * t = m * t + k * t
  BY <1>1
<1>3. k * t \in Nat /\ m * t \in Nat
  OBVIOUS
<1> QED BY <1>2, <1>3

\* A directory in use is never stale.
LEMMA YoungIsNotStale ==
    ASSUME Directories!ScratchAssumption, NEW p \in Procs, spent[p] \in Nat, Young(p)
    PROVE  age[held[p]] <= Stale
<1> DEFINE n == command[p] - 1
<1>1. n \in Nat /\ Commands \in Nat /\ Timeout \in Nat /\ n + 1 <= Commands
  BY DEF Young, Directories!ScratchAssumption
<1> HIDE DEF n
<1>2. (n + 1) * Timeout <= Commands * Timeout
  BY <1>1, Monotone
<1>3. (n + 1) * Timeout = n * Timeout + Timeout
  BY <1>1
<1>4. n * Timeout \in Nat /\ Commands * Timeout \in Nat
  BY <1>1
<1>5. age[held[p]] \in Nat /\ age[held[p]] <= n * Timeout + spent[p] /\ spent[p] <= Timeout
  BY DEF Young, n
<1>6. Commands * Timeout <= Stale /\ Stale \in Nat
  BY DEF Directories!ScratchAssumption
<1> QED BY <1>1, <1>2, <1>3, <1>4, <1>5, <1>6

LEMMA InitIInv == Directories!Init => DirInv
<1> SUFFICES ASSUME Directories!Init PROVE DirInv
  OBVIOUS
<1>1. DirTypes
  BY DEF Directories!Init, DirTypes
<1>2. \A p \in Procs : held[p] = NoName
  BY DEF Directories!Init
<1> QED BY <1>1, <1>2 DEF DirInv, Live

LEMMA DirTypeStep == Directories!ScratchAssumption /\ DirTypes /\ [Directories!Next]_Directories!vars => DirTypes'
<1> SUFFICES ASSUME Directories!ScratchAssumption, DirTypes, [Directories!Next]_Directories!vars PROVE DirTypes'
  OBVIOUS
<1> USE DEF DirTypes, Directories!Absent
<1>1. ASSUME NEW p \in Procs, Directories!Begin(p) PROVE DirTypes'
  BY <1>1 DEF Directories!Begin
<1>2. ASSUME NEW p \in Procs, Directories!NextCommand(p) PROVE DirTypes'
  BY <1>2 DEF Directories!NextCommand
<1>3. ASSUME NEW p \in Procs, Directories!End(p) PROVE DirTypes'
  BY <1>3 DEF Directories!End
<1>4. ASSUME NEW p \in Procs, Directories!Die(p) PROVE DirTypes'
  BY <1>4 DEF Directories!Die
<1>5. ASSUME NEW by \in Nat PROVE Directories!Older(by) \in [Names -> Nat \cup {Directories!Absent}]
  BY <1>5 DEF Directories!Older, Directories!ScratchAssumption
<1>6. CASE Directories!Tick
  BY <1>5, <1>6 DEF Directories!Tick
<1>7. CASE Directories!Jump
  <2>1. Stale + 1 \in Nat
    BY DEF Directories!ScratchAssumption
  <2> QED BY <1>5, <1>7, <2>1 DEF Directories!Jump
<1>8. CASE UNCHANGED Directories!vars
  BY <1>8 DEF Directories!vars
<1> QED BY <1>1, <1>2, <1>3, <1>4, <1>6, <1>7, <1>8 DEF Directories!Next

LEMMA LiveStep == Directories!ScratchAssumption /\ DirInv /\ [Directories!Next]_Directories!vars => Live'
<1> SUFFICES ASSUME Directories!ScratchAssumption, DirInv, [Directories!Next]_Directories!vars, ~jumped'
             PROVE  \A q \in Procs : held'[q] # NoName =>
                      /\ Young(q)'
                      /\ \A r \in Procs : held'[r] = held'[q] => r = q
  BY DEF Live
<1>0. ~jumped /\ DirTypes /\ Live
  BY DEF DirInv, Directories!Next, Directories!Begin, Directories!NextCommand, Directories!End, Directories!Die, Directories!Tick,
         Directories!Jump, Directories!vars
<1>a. \A q \in Procs : held[q] # NoName =>
        /\ Young(q) /\ held[q] \in Names /\ age[held[q]] <= Stale
        /\ \A r \in Procs : held[r] = held[q] => r = q
  BY <1>0, YoungIsNotStale DEF Live, DirTypes
<1>1. ASSUME NEW p \in Procs, Directories!Begin(p) PROVE Live'
  <2>1. PICK own \in Names :
          /\ age[own] = Directories!Absent
          /\ age' = [d \in Names |-> IF d = own THEN 0
                                     ELSE IF age[d] > Stale THEN Directories!Absent ELSE age[d]]
          /\ held' = [held EXCEPT ![p] = own]
    BY <1>1 DEF Directories!Begin
  <2>2. command' = [command EXCEPT ![p] = 1] /\ spent' = [spent EXCEPT ![p] = 0]
        /\ held[p] = NoName
    BY <1>1 DEF Directories!Begin
  <2>3. \A q \in Procs : held[q] # NoName => held[q] # own
    BY <1>a, <2>1 DEF Young, Directories!Absent
  <2>4. Young(p)'
    <3>1. age'[held'[p]] = 0 /\ command'[p] = 1 /\ spent'[p] = 0
      BY <1>0, <2>1, <2>2 DEF DirTypes
    <3>2. Commands \in Nat \ {0} /\ Timeout \in Nat
      BY DEF Directories!ScratchAssumption
    <3>3. 0 <= (1 - 1) * Timeout + 0
      BY <3>2
    <3> QED BY <3>1, <3>2, <3>3 DEF Young
  <2>5. ASSUME NEW q \in Procs, q # p, held'[q] # NoName PROVE Young(q)'
    <3>1. held'[q] = held[q] /\ held[q] # own /\ held[q] \in Names
      BY <1>0, <1>a, <2>1, <2>3, <2>5 DEF DirTypes
    <3>2. command'[q] = command[q] /\ spent'[q] = spent[q]
      BY <1>0, <2>2, <2>5 DEF DirTypes
    <3>3. age[held[q]] <= Stale /\ age[held[q]] \in Nat /\ Stale \in Nat /\ Young(q)
      BY <1>a, <2>5, <3>1 DEF Young, Directories!ScratchAssumption
    <3>4. age'[held'[q]] = age[held[q]]
      BY <2>1, <3>1, <3>3
    <3> QED BY <3>2, <3>3, <3>4 DEF Young
  <2> QED BY <1>0, <1>a, <2>1, <2>3, <2>4, <2>5 DEF Live, DirTypes
<1>2. ASSUME NEW p \in Procs, Directories!NextCommand(p) PROVE Live'
  <2>1. /\ held[p] # NoName /\ command[p] < Commands
        /\ command' = [command EXCEPT ![p] = @ + 1]
        /\ spent' = [spent EXCEPT ![p] = 0]
        /\ held' = held
        /\ age' = age \/ age' = [age EXCEPT ![held[p]] = 0]
    BY <1>2 DEF Directories!NextCommand
  <2>2. Young(p)'
    <3> DEFINE n == command[p] - 1
    <3>1. n \in Nat /\ Timeout \in Nat /\ Commands \in Nat /\ command[p] = n + 1
      BY <1>a, <2>1 DEF Young, Directories!ScratchAssumption
    <3>2. command'[p] = n + 2 /\ spent'[p] = 0 /\ held'[p] = held[p]
      BY <1>0, <2>1, <3>1 DEF DirTypes
    <3>3. /\ age[held[p]] \in Nat /\ spent[p] \in Nat /\ spent[p] <= Timeout
          /\ age[held[p]] <= n * Timeout + spent[p]
      BY <1>0, <1>a, <2>1 DEF Young, DirTypes
    <3>4. age'[held[p]] = age[held[p]] \/ age'[held[p]] = 0
      BY <1>0, <1>a, <2>1 DEF DirTypes
    <3> HIDE DEF n
    <3>5. (n + 1) * Timeout = n * Timeout + Timeout /\ n * Timeout \in Nat
      BY <3>1
    <3>6. age'[held'[p]] \in Nat /\ age'[held'[p]] <= (n + 1) * Timeout + 0
      BY <3>1, <3>2, <3>3, <3>4, <3>5
    <3>7. command'[p] - 1 = n + 1 /\ command'[p] \in 1 .. Commands
      BY <2>1, <3>1, <3>2
    <3> QED BY <3>1, <3>2, <3>6, <3>7 DEF Young
  <2>3. ASSUME NEW q \in Procs, q # p, held[q] # NoName PROVE Young(q)'
    <3>1. command'[q] = command[q] /\ spent'[q] = spent[q]
      BY <1>0, <2>1, <2>3 DEF DirTypes
    <3>2. held[q] # held[p] /\ held[q] \in Names
      BY <1>a, <2>1, <2>3
    <3>3. age'[held[q]] = age[held[q]]
      BY <1>0, <2>1, <3>2 DEF DirTypes
    <3> QED BY <1>a, <2>1, <2>3, <3>1, <3>3 DEF Young
  <2> QED BY <1>a, <2>1, <2>2, <2>3 DEF Live
<1>3. ASSUME NEW p \in Procs, Directories!End(p) PROVE Live'
  <2>1. /\ held' = [held EXCEPT ![p] = NoName]
        /\ age' = [age EXCEPT ![held[p]] = Directories!Absent]
        /\ held[p] # NoName /\ command' = command /\ spent' = spent
    BY <1>3 DEF Directories!End
  <2>2. ASSUME NEW q \in Procs, held'[q] # NoName PROVE q # p /\ held'[q] = held[q]
    BY <1>0, <2>1, <2>2 DEF DirTypes
  <2>3. ASSUME NEW q \in Procs, held'[q] # NoName PROVE Young(q)'
    <3>1. held[q] # held[p] /\ held[q] \in Names /\ Young(q)
      BY <1>a, <2>1, <2>2, <2>3
    <3>2. age'[held'[q]] = age[held[q]]
      BY <1>0, <2>1, <2>2, <2>3, <3>1 DEF DirTypes
    <3> QED BY <2>1, <3>1, <3>2 DEF Young
  <2> QED BY <1>a, <2>2, <2>3 DEF Live
<1>4. ASSUME NEW p \in Procs, Directories!Die(p) PROVE Live'
  <2>1. /\ held' = [held EXCEPT ![p] = NoName]
        /\ age' = age /\ command' = command /\ spent' = spent
    BY <1>4 DEF Directories!Die
  <2>2. ASSUME NEW q \in Procs, held'[q] # NoName PROVE held'[q] = held[q]
    BY <1>0, <2>1, <2>2 DEF DirTypes
  <2> QED BY <1>a, <2>1, <2>2 DEF Live, Young
<1>5. CASE Directories!Tick
  <2>1. /\ \A q \in Procs : held[q] # NoName => spent[q] < Timeout
        /\ age' = Directories!Older(1) /\ held' = held /\ command' = command
        /\ spent' = [q \in Procs |-> IF held[q] # NoName THEN spent[q] + 1 ELSE spent[q]]
    BY <1>5 DEF Directories!Tick
  <2>2. ASSUME NEW q \in Procs, held[q] # NoName PROVE Young(q)'
    <3>1. /\ age[held[q]] \in Nat /\ spent[q] \in Nat /\ spent[q] < Timeout
          /\ held[q] \in Names /\ Stale \in Nat /\ Timeout \in Nat
          /\ command[q] \in 1 .. Commands /\ Commands \in Nat
          /\ age[held[q]] <= (command[q] - 1) * Timeout + spent[q]
      BY <1>0, <1>a, <2>1, <2>2 DEF Young, DirTypes, Directories!ScratchAssumption
    <3>2. age'[held[q]] \in Nat /\ age'[held[q]] <= age[held[q]] + 1
      BY <2>1, <3>1 DEF Directories!Older, Directories!Absent
    <3>3. spent'[q] = spent[q] + 1
      BY <2>1, <2>2
    <3>4. (command[q] - 1) * Timeout \in Nat
      BY <3>1
    <3>5. age'[held[q]] <= (command[q] - 1) * Timeout + spent'[q]
      BY <3>1, <3>2, <3>3, <3>4
    <3> QED BY <2>1, <3>1, <3>2, <3>3, <3>5 DEF Young
  <2> QED BY <1>a, <2>1, <2>2 DEF Live
<1>6. CASE UNCHANGED Directories!vars
  BY <1>0, <1>6 DEF Live, Young, Directories!vars
<1>7. ~Directories!Jump
  BY DEF Directories!Jump
<1> QED BY <1>1, <1>2, <1>3, <1>4, <1>5, <1>6, <1>7 DEF Directories!Next, Live

\* cleanupStaleDirectories of any agent process takes no directory from an
\* extraction that runs, as long as all its commands may take less than the
\* age that counts as stale: 9 commands of 45 s against an hour.
THEOREM CleanupSparesTheLive ==
    ASSUME Directories!ScratchAssumption
    PROVE  Directories!Spec => []LiveDirectoriesStay
<1>1. DirInv /\ [Directories!Next]_Directories!vars => DirInv'
  BY DirTypeStep, LiveStep DEF DirInv
<1>2. DirInv => LiveDirectoriesStay
  BY DEF LiveDirectoriesStay, DirInv, Live, Young, Directories!LiveDirectoriesStay, Directories!Absent
<1> QED BY <1>1, <1>2, InitIInv, PTL DEF Directories!Spec

-----------------------------------------------------------------------------
(* DeclaredLinks.                                                            *)

Declaration == [url : Links \cup {Unusable}, relations : SUBSET Relations]
Entry == [url : Links, relations : SUBSET Relations]

PageTypes ==
    /\ elements \in Seq(Declaration)
    /\ links \in Seq(Entry)
    /\ full \in BOOLEAN

\* The list is that of the elements so far, and never longer than it may be.
PageInv == PageTypes /\ Declared!LinksFollowThePage /\ Len(links) <= MaxLinks

LEMMA PageInit == Declared!DeclaredAssumption /\ Declared!Init => PageInv
<1> SUFFICES ASSUME Declared!DeclaredAssumption, Declared!Init PROVE PageInv
  OBVIOUS
<1>1. PageTypes /\ Len(links) = 0 /\ DOMAIN links = {} /\ DOMAIN elements = {} /\ full = FALSE
  <2>1. elements = <<>> /\ links = <<>> /\ full = FALSE
    BY DEF Declared!Init
  <2>2. elements \in Seq(Declaration) /\ links \in Seq(Entry)
    BY <2>1
  <2>3. Len(links) = 0 /\ DOMAIN links = {} /\ DOMAIN elements = {}
    BY <2>1
  <2> QED BY <2>1, <2>2, <2>3 DEF PageTypes
<1>2. \A url : Declared!Declared(url) = {}
  BY <1>1 DEF Declared!Declared
<1> QED
  BY <1>1, <1>2 DEF PageInv, Declared!LinksFollowThePage, Declared!DeclaredAssumption

\* One element more adds its relations to its URL's and leaves the others' alone.
LEMMA DeclaredGrows ==
    ASSUME elements \in Seq(Declaration), NEW e \in Declaration,
           elements' = Append(elements, e), NEW url
    PROVE  Declared!Declared(url)' = Declared!Declared(url) \cup (IF e.url = url THEN e.relations ELSE {})
<1> DEFINE before == {j \in DOMAIN elements : elements[j].url = url}
           after == {j \in DOMAIN elements' : elements'[j].url = url}
           last == Len(elements) + 1
<1>1. /\ DOMAIN elements' = DOMAIN elements \cup {last} /\ last \notin DOMAIN elements
      /\ \A i \in DOMAIN elements : elements'[i] = elements[i]
      /\ elements'[last] = e
  OBVIOUS
<1> HIDE DEF last
<1>2. after = before \cup (IF e.url = url THEN {last} ELSE {})
  BY <1>1
<1>3. \A i \in before : elements'[i] = elements[i]
  BY <1>1
<1> HIDE DEF before, after
<1>4. UNION {elements'[i].relations : i \in after}
        = (UNION {elements[i].relations : i \in before})
            \cup (IF e.url = url THEN e.relations ELSE {})
  <2>1. ASSUME NEW x
        PROVE  (\E i \in after : x \in elements'[i].relations)
                 <=> \/ \E i \in before : x \in elements[i].relations
                     \/ e.url = url /\ x \in e.relations
    <3>1. CASE e.url = url
      BY <1>1, <1>2, <1>3, <3>1
    <3>2. CASE e.url # url
      BY <1>1, <1>2, <1>3, <3>2
    <3> QED BY <3>1, <3>2
  <2>2. \A x : /\ x \in UNION {elements'[i].relations : i \in after}
                   <=> \E i \in after : x \in elements'[i].relations
              /\ x \in UNION {elements[i].relations : i \in before}
                   <=> \E i \in before : x \in elements[i].relations
    OBVIOUS
  <2> DEFINE A == UNION {elements'[i].relations : i \in after}
             B == UNION {elements[i].relations : i \in before}
             C == IF e.url = url THEN e.relations ELSE {}
  <2>3. \A x : x \in C <=> e.url = url /\ x \in e.relations
    OBVIOUS
  <2>4. \A x : x \in A <=> x \in B \/ x \in C
    BY <2>1, <2>2, <2>3
  <2> HIDE DEF A, B, C
  <2>5. A = B \cup C
    BY <2>4
  <2> QED BY <2>5 DEF A, B, C
<1>5. /\ Declared!Declared(url) = UNION {elements[i].relations : i \in before}
      /\ Declared!Declared(url)' = UNION {elements'[i].relations : i \in after}
  BY DEF Declared!Declared, before, after
<1> QED
  BY <1>4, <1>5

\* addLink: the list of the URLs declared so far becomes that of those with the
\* new declaration.
LEMMA AddedElements ==
    ASSUME Declared!DeclaredAssumption, PageInv, NEW e \in Declaration,
           links' = Declared!Added(e.url, e.relations), Len(links) < MaxLinks
    PROVE  /\ links' \in Seq(Entry)
           /\ Len(links') <= MaxLinks /\ Len(links') \in Nat
           /\ {links'[n].url : n \in DOMAIN links'}
                = {links[n].url : n \in DOMAIN links}
                    \cup (IF e.url = Unusable \/ e.relations = {} THEN {} ELSE {e.url})
           /\ \A m, n \in DOMAIN links' : links'[m].url = links'[n].url => m = n
           /\ \A n \in DOMAIN links' :
                links'[n].relations = Declared!Declared(links'[n].url)
                  \cup (IF e.url = links'[n].url THEN e.relations ELSE {})
<1>1. /\ links \in Seq(Entry)
      /\ elements \in Seq(Declaration)
      /\ {links[n].url : n \in DOMAIN links} = {url \in Links : Declared!Declared(url) # {}}
      /\ \A m, n \in DOMAIN links : links[m].url = links[n].url => m = n
      /\ \A n \in DOMAIN links : links[n].relations = Declared!Declared(links[n].url)
      /\ MaxLinks \in Nat /\ Len(links) \in Nat
  BY DEF PageInv, PageTypes, Declared!LinksFollowThePage, Declared!DeclaredAssumption
<1>2. e.url \in Links \cup {Unusable} /\ e.relations \subseteq Relations
  BY DEF Declaration
<1>3. CASE e.url = Unusable \/ e.relations = {}
  <2>1. links' = links
    BY <1>3 DEF Declared!Added
  <2>2. \A n \in DOMAIN links : e.url = links[n].url => e.relations = {}
    BY <1>1, <1>3 DEF Declared!DeclaredAssumption
  <2> QED BY <1>1, <1>3, <2>1, <2>2
<1>4. CASE /\ ~ (e.url = Unusable \/ e.relations = {})
           /\ \E n \in DOMAIN links : links[n].url = e.url
  <2> DEFINE k == CHOOSE n \in DOMAIN links : links[n].url = e.url
  <2>1. k \in DOMAIN links /\ links[k].url = e.url
    BY <1>4
  <2>2. links' = [links EXCEPT ![k].relations = @ \cup e.relations]
    BY <1>4, Zenon DEF Declared!Added, Declared!Merged
  <2> HIDE DEF k
  <2> DEFINE new == [links[k] EXCEPT !.relations = @ \cup e.relations]
  <2>3. links[k] \in Entry
    BY <1>1, <2>1
  <2>4. /\ new \in Entry
        /\ new.url = e.url /\ new.relations = links[k].relations \cup e.relations
    BY <1>2, <2>1, <2>3 DEF Entry
  <2>5. links' = [links EXCEPT ![k] = new]
    BY <1>1, <2>1, <2>2
  <2> HIDE DEF new
  <2>6. /\ links' \in Seq(Entry)
        /\ Len(links') = Len(links) /\ DOMAIN links' = DOMAIN links /\ links'[k] = new
        /\ \A n \in DOMAIN links : n # k => links'[n] = links[n]
    BY <1>1, <2>1, <2>4, <2>5
  <2>7. \A n \in DOMAIN links : links'[n].url = links[n].url
    BY <2>1, <2>4, <2>6
  <2>8. \A n \in DOMAIN links : links[n].url = e.url => n = k
    BY <1>1, <2>1
  <2>9. {links'[n].url : n \in DOMAIN links'} = {links[n].url : n \in DOMAIN links}
    BY <2>6, <2>7
  <2>10. e.url \in {links[n].url : n \in DOMAIN links}
    BY <2>1
  <2>11. ASSUME NEW n \in DOMAIN links
         PROVE  links'[n].relations = Declared!Declared(links'[n].url)
                  \cup (IF e.url = links'[n].url THEN e.relations ELSE {})
    <3>1. CASE n = k
      BY <1>1, <2>1, <2>4, <2>6, <3>1
    <3>2. CASE n # k
      BY <1>1, <2>6, <2>7, <2>8, <3>2
    <3> QED BY <3>1, <3>2
  <2>12. \A m, n \in DOMAIN links' : links'[m].url = links'[n].url => m = n
    BY <1>1, <2>6, <2>7
  <2>13. {links[n].url : n \in DOMAIN links}
           = {links[n].url : n \in DOMAIN links} \cup {e.url}
    BY <2>10
  <2>14. {links'[n].url : n \in DOMAIN links'}
           = {links[n].url : n \in DOMAIN links}
               \cup (IF e.url = Unusable \/ e.relations = {} THEN {} ELSE {e.url})
    BY <1>4, <2>9, <2>13
  <2>15. links' \in Seq(Entry) /\ Len(links') <= MaxLinks /\ Len(links') \in Nat
    BY <1>1, <2>6
  <2>16. \A n \in DOMAIN links' :
           links'[n].relations = Declared!Declared(links'[n].url)
             \cup (IF e.url = links'[n].url THEN e.relations ELSE {})
    BY <2>6, <2>11
  <2> QED BY <2>12, <2>14, <2>15, <2>16, Zenon
<1>5. CASE /\ ~ (e.url = Unusable \/ e.relations = {})
           /\ ~ \E n \in DOMAIN links : links[n].url = e.url
  <2> DEFINE new == [url |-> e.url, relations |-> e.relations]
  <2>1. links' = Append(links, new)
    BY <1>5 DEF Declared!Added
  <2>2. /\ new \in Entry
        /\ new.url = e.url /\ new.relations = e.relations
    BY <1>2, <1>5 DEF Entry
  <2> HIDE DEF new
  <2> DEFINE last == Len(links) + 1
  <2>3. /\ links' \in Seq(Entry)
        /\ Len(links') = last /\ DOMAIN links' = DOMAIN links \cup {last}
        /\ last \notin DOMAIN links /\ links'[last] = new
        /\ \A n \in DOMAIN links : links'[n] = links[n]
    BY <1>1, <2>1, <2>2
  <2>4. last <= MaxLinks /\ last \in Nat
    BY <1>1
  <2> HIDE DEF last
  <2>5. e.url \in Links /\ Declared!Declared(e.url) = {}
    BY <1>1, <1>2, <1>5
  <2>6. {links'[n].url : n \in DOMAIN links'} = {links[n].url : n \in DOMAIN links} \cup {e.url}
    BY <2>2, <2>3
  <2>7. \A n \in DOMAIN links : links[n].url # e.url
    BY <1>5
  <2>8. \A m, n \in DOMAIN links' : links'[m].url = links'[n].url => m = n
    BY <1>1, <2>2, <2>3, <2>7
  <2>9. ASSUME NEW n \in DOMAIN links'
        PROVE  links'[n].relations = Declared!Declared(links'[n].url)
                  \cup (IF e.url = links'[n].url THEN e.relations ELSE {})
    <3>1. CASE n = last
      BY <2>2, <2>3, <2>5, <3>1
    <3>2. CASE n # last
      <4>1. n \in DOMAIN links /\ links'[n] = links[n] /\ links[n].url # e.url
        BY <2>3, <2>7, <3>2
      <4>2. links[n].relations = Declared!Declared(links[n].url)
        BY <1>1, <4>1
      <4> QED BY <4>1, <4>2
    <3> QED BY <3>1, <3>2
  <2> QED BY <1>5, <2>3, <2>4, <2>6, <2>8, <2>9
<1> QED
  BY <1>3, <1>4, <1>5

LEMMA PageStep == Declared!DeclaredAssumption /\ PageInv /\ [Declared!Next]_Declared!vars => PageInv'
<1> SUFFICES ASSUME Declared!DeclaredAssumption, PageInv, [Declared!Next]_Declared!vars PROVE PageInv'
  OBVIOUS
<1>1. CASE UNCHANGED Declared!vars
  <2>1. elements' = elements /\ links' = links /\ full' = full
    BY <1>1 DEF Declared!vars
  <2>2. \A u : Declared!Declared(u)' = Declared!Declared(u)
    BY <2>1 DEF Declared!Declared
  <2>3. PageTypes' /\ Len(links)' <= MaxLinks
    BY <2>1 DEF PageInv, PageTypes
  <2> QED BY <2>1, <2>2, <2>3 DEF PageInv, Declared!LinksFollowThePage
<1>2. CASE Declared!Next
  <2>1. PICK url \in Links \cup {Unusable}, relations \in SUBSET Relations :
          Declared!Look(url, relations)
    BY <1>2 DEF Declared!Next
  <2> DEFINE e == [url |-> url, relations |-> relations]
  <2>2. e \in Declaration /\ e.url = url /\ e.relations = relations
    BY DEF Declaration
  <2>3. /\ ~full /\ elements' = Append(elements, e)
        /\ links' = Declared!Added(e.url, e.relations)
        /\ full' = (Len(links') >= MaxLinks)
    BY <2>1 DEF Declared!Look
  <2> HIDE DEF e
  <2>4. Len(links) < MaxLinks /\ elements \in Seq(Declaration) /\ MaxLinks \in Nat
    BY <2>3 DEF PageInv, PageTypes, Declared!LinksFollowThePage, Declared!DeclaredAssumption
  <2>5. /\ links' \in Seq(Entry)
        /\ Len(links') <= MaxLinks /\ Len(links') \in Nat
        /\ {links'[n].url : n \in DOMAIN links'}
             = {links[n].url : n \in DOMAIN links}
                 \cup (IF e.url = Unusable \/ e.relations = {} THEN {} ELSE {e.url})
        /\ \A m, n \in DOMAIN links' : links'[m].url = links'[n].url => m = n
        /\ \A n \in DOMAIN links' :
             links'[n].relations = Declared!Declared(links'[n].url)
               \cup (IF e.url = links'[n].url THEN e.relations ELSE {})
    BY <2>2, <2>3, <2>4, AddedElements
  <2>6. \A u : Declared!Declared(u)' = Declared!Declared(u) \cup (IF e.url = u THEN e.relations ELSE {})
    BY <2>2, <2>3, <2>4, DeclaredGrows
  <2>7. elements' \in Seq(Declaration) /\ full' \in BOOLEAN
    BY <2>2, <2>3, <2>4
  <2>8. {links'[n].url : n \in DOMAIN links'} = {u \in Links : Declared!Declared(u)' # {}}
    <3>1. {links[n].url : n \in DOMAIN links} = {u \in Links : Declared!Declared(u) # {}}
      BY DEF PageInv, Declared!LinksFollowThePage
    <3>2. e.url \in Links \cup {Unusable} /\ Unusable \notin Links
      BY <2>2 DEF Declaration, Declared!DeclaredAssumption
    <3> QED BY <2>5, <2>6, <3>1, <3>2
  <2>9. \A n \in DOMAIN links' : \A u : u = links'[n].url =>
          links'[n].relations = Declared!Declared(u)'
    <3>1. ASSUME NEW n \in DOMAIN links', NEW u, u = links'[n].url
          PROVE  links'[n].relations = Declared!Declared(u)'
      <4>1. links'[n].relations = Declared!Declared(u) \cup (IF e.url = u THEN e.relations ELSE {})
        BY <2>5, <3>1, Zenon
      <4> QED BY <2>6, <4>1
    <3> QED BY <3>1
  <2>10. full' <=> Len(links') = MaxLinks
    <3>1. Len(links') >= MaxLinks <=> Len(links') = MaxLinks
      BY <2>4, <2>5
    <3> QED BY <2>3, <3>1, Zenon
  <2> QED BY <2>5, <2>7, <2>8, <2>9, <2>10 DEF PageInv, PageTypes, Declared!LinksFollowThePage
<1> QED
  BY <1>1, <1>2

\* discoverDeclaredWebLinks: the list has the URLs that the page declares, once
\* each and with all their relations, and looking ends early only at a full list.
THEOREM LinksAreThePages ==
    ASSUME Declared!DeclaredAssumption
    PROVE  Declared!Spec => []LinksFollowThePage
<1>1. PageInv => LinksFollowThePage
  BY DEF LinksFollowThePage, PageInv
<1> QED
  BY <1>1, PageInit, PageStep, PTL DEF Declared!Spec

-----------------------------------------------------------------------------
(* Captions.                                                                 *)

Extends(t, s) == <<s, t>> \in Extensions

LEMMA Prefixes ==
    ASSUME Track!CaptionsAssumption
    PROVE  /\ \A t \in Texts : Extends(t, t)
           /\ \A s, t, u \in Texts : Extends(t, s) /\ Extends(u, t) => Extends(u, s)
           /\ \A s, t, u \in Texts :
                Extends(u, s) /\ Extends(u, t) => Extends(t, s) \/ Extends(s, t)
  BY DEF Extends, Track!CaptionsAssumption

TrackTypes ==
    /\ cues \in Seq(Track!Cues) /\ lines \in Seq(Track!Cues)

\* No line starts after the cues looked at so far.
Started ==
    \A n \in DOMAIN lines : cues # <<>> /\ lines[n].startMs <= cues[Len(cues)].startMs

TrackInv == TrackTypes /\ Started /\ Track!TranscriptIsFaithful

LEMMA TrackInit == Track!Init => TrackInv
<1> SUFFICES ASSUME Track!Init PROVE TrackInv
  OBVIOUS
<1>1. cues = <<>> /\ lines = <<>>
  BY DEF Track!Init
<1>2. DOMAIN cues = {} /\ DOMAIN lines = {} /\ 2 .. Len(lines) = {}
  BY <1>1
<1>3. cues \in Seq(Track!Cues) /\ lines \in Seq(Track!Cues)
  BY <1>1
<1> QED
  BY <1>2, <1>3 DEF TrackInv, TrackTypes, Started, Track!TranscriptIsFaithful,
                    Track!NothingSaidIsLost, Track!NothingSaidTwice

\* A line that stands for what was said in it: it says the text and more, from
\* no later on and for as long.
Covers(line, cue) ==
    /\ Extends(line.text, cue.text)
    /\ line.startMs <= cue.startMs /\ line.endMs >= cue.endMs

\* What a later line may not do to the line before it, while that lasts.
Follows(line, previous) ==
    /\ previous.startMs <= line.startMs
    /\ line.startMs <= previous.endMs =>
         ~ Extends(line.text, previous.text) /\ ~ Extends(previous.text, line.text)

LEMMA CueParts ==
    ASSUME NEW cue \in Track!Cues
    PROVE  cue.startMs \in Int /\ cue.endMs \in Int /\ cue.text \in Texts
  BY DEF Track!Cues

\* A cue starts a line, which repeats nothing of a last line that lasts.
StartsLine(cue) ==
    /\ lines' = Append(lines, cue)
    /\ lines # <<>> => Follows(cue, lines[Len(lines)])

\* Or the last line grows to cover the cue, and says what it or the cue said.
Grows(cue) ==
    /\ lines # <<>>
    /\ \E line \in Track!Cues :
         /\ lines' = [lines EXCEPT ![Len(lines)] = line]
         /\ line.startMs = lines[Len(lines)].startMs
         /\ line.endMs >= lines[Len(lines)].endMs /\ line.endMs >= cue.endMs
         /\ \/ line.text = cue.text /\ Extends(cue.text, lines[Len(lines)].text)
            \/ line.text = lines[Len(lines)].text /\ Extends(lines[Len(lines)].text, cue.text)

LEMMA AppendElements ==
    ASSUME NEW S, NEW s \in Seq(S), NEW x \in S
    PROVE  LET t == Append(s, x) IN
           /\ t \in Seq(S) /\ t # <<>> /\ Len(t) = Len(s) + 1
           /\ DOMAIN t = DOMAIN s \cup {Len(s) + 1} /\ t[Len(s) + 1] = x
           /\ \A i \in DOMAIN s : t[i] = s[i]
  OBVIOUS

LEMMA LastLine ==
    ASSUME lines \in Seq(Track!Cues), lines # <<>>
    PROVE  lines[Len(lines)] \in Track!Cues /\ Len(lines) \in Nat \ {0}
  OBVIOUS

LEMMA PlacedEffect ==
    ASSUME Track!CaptionsAssumption, TrackTypes, NEW cue \in Track!Cues,
           lines # <<>> => lines[Len(lines)].startMs <= cue.startMs,
           lines' = Track!Placed(cue)
    PROVE  StartsLine(cue) \/ Grows(cue)
<1>1. CASE lines = <<>>
  BY <1>1 DEF Track!Placed, StartsLine
<1>2. CASE lines # <<>>
  <2> DEFINE last == lines[Len(lines)]
             rolling == cue.startMs <= last.endMs
             end == Track!Later(last.endMs, cue.endMs)
  <2>1. /\ last \in Track!Cues /\ Len(lines) \in Nat \ {0}
        /\ lines \in Seq(Track!Cues)
    BY <1>2, LastLine DEF TrackTypes
  <2>2. /\ last.startMs <= cue.startMs
        /\ last.text \in Texts /\ cue.text \in Texts
        /\ Extends(last.text, last.text)
    BY <1>2, <2>1, CueParts, Prefixes
  <2>3. /\ lines' = IF rolling /\ Extends(cue.text, last.text)
                    THEN [lines EXCEPT ![Len(lines)] =
                            [Track!Lengthened(last, cue) EXCEPT !.text = cue.text]]
                    ELSE IF cue.text = last.text \/ (rolling /\ Extends(last.text, cue.text))
                    THEN [lines EXCEPT ![Len(lines)] = Track!Lengthened(last, cue)]
                    ELSE Append(lines, cue)
    BY <1>2, <2>1 DEF Track!Placed, Track!Starts, Extends
  <2>4. end \in 0 .. MaxEnd /\ end >= last.endMs /\ end >= cue.endMs
    BY <2>1 DEF Track!Cues, Track!Later
  <2>5. Track!Lengthened(last, cue) = [last EXCEPT !.endMs = end]
    BY <2>1 DEF Track!Lengthened
  <2> HIDE DEF last, end
  <2>6. CASE rolling /\ Extends(cue.text, last.text)
    <3> DEFINE line == [[last EXCEPT !.endMs = end] EXCEPT !.text = cue.text]
    <3>1. /\ line \in Track!Cues /\ line.startMs = last.startMs
          /\ line.endMs = end /\ line.text = cue.text
      BY <2>1, <2>2, <2>4 DEF Track!Cues
    <3>2. lines' = [lines EXCEPT ![Len(lines)] = line]
      BY <2>3, <2>5, <2>6
    <3> HIDE DEF line
    <3> QED BY <1>2, <2>4, <2>6, <3>1, <3>2 DEF Grows, last
  <2>7. CASE /\ ~ (rolling /\ Extends(cue.text, last.text))
             /\ cue.text = last.text \/ (rolling /\ Extends(last.text, cue.text))
    <3> DEFINE line == [last EXCEPT !.endMs = end]
    <3>1. /\ line \in Track!Cues /\ line.startMs = last.startMs
          /\ line.endMs = end /\ line.text = last.text
      BY <2>1, <2>4 DEF Track!Cues
    <3>2. lines' = [lines EXCEPT ![Len(lines)] = line]
      BY <2>3, <2>5, <2>7
    <3>3. Extends(last.text, cue.text)
      BY <2>2, <2>7
    <3> HIDE DEF line
    <3> QED BY <1>2, <2>4, <3>1, <3>2, <3>3 DEF Grows, last
  <2>8. CASE /\ ~ (rolling /\ Extends(cue.text, last.text))
             /\ ~ (cue.text = last.text \/ (rolling /\ Extends(last.text, cue.text)))
    <3>1. lines' = Append(lines, cue)
      BY <2>3, <2>8
    <3>2. Follows(cue, last)
      BY <2>2, <2>8 DEF Follows
    <3> QED BY <3>1, <3>2 DEF StartsLine, last
  <2> QED BY <2>6, <2>7, <2>8
<1> QED
  BY <1>1, <1>2

\* The two properties in these terms.
LEMMA Faithful ==
    Track!TranscriptIsFaithful <=>
      /\ \A i \in DOMAIN cues : cues[i].text # "" =>
            \E n \in DOMAIN lines : Covers(lines[n], cues[i])
      /\ \A n \in 2 .. Len(lines) : Follows(lines[n], lines[n - 1])
  BY DEF Track!TranscriptIsFaithful, Track!NothingSaidIsLost, Track!NothingSaidTwice,
         Track!Starts, Covers, Follows, Extends

LEMMA FaithfulNext ==
    ASSUME \A i \in DOMAIN cues' : cues'[i].text # "" =>
             \E n \in DOMAIN lines' : Covers(lines'[n], cues'[i]),
           \A n \in 2 .. Len(lines') : Follows(lines'[n], lines'[n - 1])
    PROVE  Track!TranscriptIsFaithful'
  BY DEF Track!TranscriptIsFaithful, Track!NothingSaidIsLost, Track!NothingSaidTwice,
         Track!Starts, Covers, Follows, Extends

\* What covers a line that grows covers on.
LEMMA CoversOn ==
    ASSUME Track!CaptionsAssumption, NEW cue \in Track!Cues, NEW old \in Track!Cues,
           NEW line \in Track!Cues, Covers(old, cue),
           line.startMs = old.startMs, line.endMs >= old.endMs, Extends(line.text, old.text)
    PROVE  Covers(line, cue)
<1>1. /\ line.startMs \in Int /\ line.endMs \in Int /\ line.text \in Texts
      /\ old.startMs \in Int /\ old.endMs \in Int /\ old.text \in Texts
      /\ cue.startMs \in Int /\ cue.endMs \in Int /\ cue.text \in Texts
  BY CueParts
<1>2. Extends(line.text, cue.text)
  BY <1>1, Prefixes DEF Covers
<1> QED
  BY <1>1, <1>2 DEF Covers

\* A line that grows by a longer text repeats nothing of the line before: of two
\* beginnings of one text, one is a beginning of the other.
LEMMA FollowsOn ==
    ASSUME Track!CaptionsAssumption, NEW previous \in Track!Cues, NEW old \in Track!Cues,
           NEW line \in Track!Cues, Follows(old, previous),
           line.startMs = old.startMs, Extends(line.text, old.text)
    PROVE  Follows(line, previous)
<1>1. line.text \in Texts /\ old.text \in Texts /\ previous.text \in Texts
  BY CueParts
<1>2. Extends(line.text, previous.text) =>
        Extends(old.text, previous.text) \/ Extends(previous.text, old.text)
  BY <1>1, Prefixes
<1>3. Extends(previous.text, line.text) => Extends(previous.text, old.text)
  BY <1>1, Prefixes
<1> QED
  BY <1>2, <1>3 DEF Follows

LEMMA TrackStep == Track!CaptionsAssumption /\ TrackInv /\ [Track!Next]_Track!vars => TrackInv'
<1> SUFFICES ASSUME Track!CaptionsAssumption, TrackInv, [Track!Next]_Track!vars PROVE TrackInv'
  OBVIOUS
<1>a. cues \in Seq(Track!Cues) /\ lines \in Seq(Track!Cues)
  BY DEF TrackInv, TrackTypes
<1>0. /\ \A i \in DOMAIN cues : cues[i].text # "" =>
           \E n \in DOMAIN lines : Covers(lines[n], cues[i])
      /\ \A n \in 2 .. Len(lines) : Follows(lines[n], lines[n - 1])
  BY Faithful DEF TrackInv
<1>1. CASE UNCHANGED Track!vars
  <2>1. cues' = cues /\ lines' = lines
    BY <1>1 DEF Track!vars
  <2>2. Track!TranscriptIsFaithful'
    BY <1>0, <2>1, FaithfulNext
  <2> QED BY <2>1, <2>2 DEF TrackInv, TrackTypes, Started
<1>2. ASSUME NEW cue \in Track!Cues, Track!Take(cue) PROVE TrackInv'
  <2>1. /\ cues' = Append(cues, cue)
        /\ cues # <<>> => cues[Len(cues)].startMs <= cue.startMs
        /\ lines' = IF cue.text = "" THEN lines ELSE Track!Placed(cue)
    BY <1>2 DEF Track!Take
  <2> DEFINE m == Len(cues) + 1
  <2>2. /\ cues' \in Seq(Track!Cues) /\ cues' # <<>> /\ Len(cues') = m
        /\ DOMAIN cues' = DOMAIN cues \cup {m} /\ cues'[m] = cue
        /\ \A i \in DOMAIN cues : cues'[i] = cues[i]
    <3>1. cues' = Append(cues, cue)
      BY <2>1
    <3> QED BY <1>a, <3>1, AppendElements
  <2> HIDE DEF m
  <2>3. \A n \in DOMAIN lines : lines[n] \in Track!Cues /\ lines[n].startMs <= cue.startMs
    <3>1. ASSUME NEW n \in DOMAIN lines
          PROVE  lines[n] \in Track!Cues /\ lines[n].startMs <= cue.startMs
      <4>1. lines[n] \in Track!Cues
        BY <1>a
      <4>2. cues # <<>> /\ lines[n].startMs <= cues[Len(cues)].startMs
        BY DEF TrackInv, Started
      <4>3. cues[Len(cues)] \in Track!Cues
        BY <1>a, <4>2
      <4>4. /\ lines[n].startMs \in Int /\ cue.startMs \in Int
            /\ cues[Len(cues)].startMs \in Int
        BY <4>1, <4>3, CueParts
      <4>5. cues[Len(cues)].startMs <= cue.startMs
        BY <2>1, <4>2
      <4>6. lines[n].startMs <= cue.startMs
        BY <4>2, <4>4, <4>5
      <4> QED BY <4>1, <4>6
    <3> QED BY <3>1
  \* It is enough to cover the cue, and what was covered.
  <2>4. ASSUME lines' \in Seq(Track!Cues),
               \A n \in DOMAIN lines' : lines'[n].startMs <= cue.startMs,
               cue.text # "" => \E n \in DOMAIN lines' : Covers(lines'[n], cue),
               \A n \in DOMAIN lines : \E k \in DOMAIN lines' :
                 \A c \in Track!Cues : Covers(lines[n], c) => Covers(lines'[k], c),
               \A n \in 2 .. Len(lines') : Follows(lines'[n], lines'[n - 1])
        PROVE  TrackInv'
    <3>1. ASSUME NEW i \in DOMAIN cues', cues'[i].text # ""
          PROVE  \E n \in DOMAIN lines' : Covers(lines'[n], cues'[i])
      <4>1. CASE i = m
        BY <2>2, <2>4, <3>1, <4>1
      <4>2. CASE i # m
        <5>1. i \in DOMAIN cues /\ cues'[i] = cues[i] /\ cues[i] \in Track!Cues
          BY <1>a, <2>2, <4>2
        <5>2. PICK n \in DOMAIN lines : Covers(lines[n], cues[i])
          BY <1>0, <3>1, <5>1
        <5> QED BY <2>4, <5>1, <5>2
      <4> QED BY <4>1, <4>2
    <3>2. Track!TranscriptIsFaithful'
      BY <2>4, <3>1, FaithfulNext
    <3>3. Started'
      BY <2>2, <2>4 DEF Started
    <3> QED BY <2>2, <2>4, <3>2, <3>3 DEF TrackInv, TrackTypes
  <2>5. CASE cue.text = ""
    <3>1. lines' = lines
      BY <2>1, <2>5
    <3> QED BY <1>a, <1>0, <2>3, <2>4, <2>5, <3>1
  <2>6. CASE cue.text # "" /\ StartsLine(cue)
    <3> DEFINE k == Len(lines) + 1
    <3>1. /\ lines' \in Seq(Track!Cues) /\ Len(lines') = k
          /\ DOMAIN lines' = DOMAIN lines \cup {k} /\ lines'[k] = cue
          /\ \A n \in DOMAIN lines : lines'[n] = lines[n]
      <4>1. lines' = Append(lines, cue)
        BY <2>6 DEF StartsLine
      <4> QED BY <1>a, <4>1, AppendElements
    <3>2. \A n \in 2 .. Len(lines') :
            \/ n \in 2 .. Len(lines) /\ n \in DOMAIN lines /\ n - 1 \in DOMAIN lines
            \/ n = k /\ lines # <<>> /\ n - 1 = Len(lines) /\ n - 1 \in DOMAIN lines
      BY <1>a, <3>1
    <3> HIDE DEF k
    <3>3. Covers(cue, cue) /\ cue.startMs <= cue.startMs
      BY CueParts, Prefixes DEF Covers
    <3>4. \A n \in 2 .. Len(lines') : Follows(lines'[n], lines'[n - 1])
      BY <1>0, <2>6, <3>1, <3>2 DEF StartsLine
    <3>5. \A n \in DOMAIN lines' : lines'[n].startMs <= cue.startMs
      BY <2>3, <3>1, <3>3
    <3>6. \E n \in DOMAIN lines' : Covers(lines'[n], cue)
      BY <3>1, <3>3
    <3>7. \A n \in DOMAIN lines : \E j \in DOMAIN lines' :
            \A c \in Track!Cues : Covers(lines[n], c) => Covers(lines'[j], c)
      BY <3>1
    <3> QED BY <2>4, <3>1, <3>4, <3>5, <3>6, <3>7
  <2>7. CASE cue.text # "" /\ Grows(cue)
    <3> DEFINE k == Len(lines)
    <3>1. PICK line \in Track!Cues :
            /\ lines' = [lines EXCEPT ![k] = line]
            /\ line.startMs = lines[k].startMs
            /\ line.endMs >= lines[k].endMs /\ line.endMs >= cue.endMs
            /\ \/ line.text = cue.text /\ Extends(cue.text, lines[k].text)
               \/ line.text = lines[k].text /\ Extends(lines[k].text, cue.text)
      BY <2>7 DEF Grows
    <3>2. /\ lines[k] \in Track!Cues /\ k \in DOMAIN lines /\ k \in Nat
      <4>1. lines # <<>>
        BY <2>7 DEF Grows
      <4>2. lines[Len(lines)] \in Track!Cues /\ Len(lines) \in Nat \ {0}
        BY <1>a, <4>1, LastLine
      <4>3. Len(lines) \in DOMAIN lines
        BY <1>a, <4>2
      <4> QED BY <4>2, <4>3
    <3>3. /\ lines' \in Seq(Track!Cues) /\ Len(lines') = Len(lines)
          /\ DOMAIN lines' = DOMAIN lines /\ lines'[k] = line
          /\ \A n \in DOMAIN lines : n # k => lines'[n] = lines[n]
      BY <1>a, <3>1, <3>2
    <3>4. \A n \in 2 .. Len(lines) : n \in DOMAIN lines /\ n - 1 \in DOMAIN lines /\ n - 1 # k
      BY <1>a
    <3> HIDE DEF k
    <3>5. Extends(line.text, lines[k].text) /\ Extends(line.text, cue.text)
      BY <3>1, <3>2, CueParts, Prefixes
    <3>6. \A c \in Track!Cues : Covers(lines[k], c) => Covers(line, c)
      BY <3>1, <3>2, <3>5, CoversOn
    <3>7. Covers(line, cue) /\ line.startMs <= cue.startMs
      BY <2>3, <3>1, <3>2, <3>5 DEF Covers
    <3>8. ASSUME NEW n \in 2 .. Len(lines') PROVE Follows(lines'[n], lines'[n - 1])
      <4>1. /\ n \in DOMAIN lines /\ n - 1 \in DOMAIN lines /\ n - 1 # k
            /\ Follows(lines[n], lines[n - 1]) /\ lines'[n - 1] = lines[n - 1]
            /\ lines[n - 1] \in Track!Cues
        BY <1>0, <2>3, <3>3, <3>4
      <4>2. CASE n = k
        BY <3>1, <3>2, <3>3, <3>5, <4>1, <4>2, FollowsOn
      <4>3. CASE n # k
        BY <3>3, <4>1, <4>3
      <4> QED BY <4>2, <4>3
    <3>9. \A n \in DOMAIN lines' : lines'[n].startMs <= cue.startMs
      BY <2>3, <3>3, <3>7
    <3>10. \E n \in DOMAIN lines' : Covers(lines'[n], cue)
      BY <3>2, <3>3, <3>7
    <3>11. \A n \in DOMAIN lines : \E j \in DOMAIN lines' :
             \A c \in Track!Cues : Covers(lines[n], c) => Covers(lines'[j], c)
      <4>1. ASSUME NEW n \in DOMAIN lines
            PROVE  \A c \in Track!Cues : Covers(lines[n], c) => Covers(lines'[n], c)
        BY <3>3, <3>6
      <4> QED BY <3>3, <4>1
    <3> QED BY <2>4, <3>3, <3>8, <3>9, <3>10, <3>11
  <2>8. cue.text # "" => StartsLine(cue) \/ Grows(cue)
    <3>1. lines # <<>> => lines[Len(lines)].startMs <= cue.startMs
      BY <1>a, <2>3, LastLine
    <3>2. ASSUME cue.text # "" PROVE lines' = Track!Placed(cue)
      BY <2>1, <3>2
    <3> QED BY <3>1, <3>2, PlacedEffect DEF TrackInv
  <2> QED BY <2>5, <2>6, <2>7, <2>8
<1> QED
  BY <1>1, <1>2 DEF Track!Next

\* deduplicateCues: whatever cues a track has, every text said is in a line that
\* starts no later and lasts as long, and no line that starts while the line
\* before it lasts repeats it or adds to it.
THEOREM TranscriptSaysItAll ==
    ASSUME Track!CaptionsAssumption
    PROVE  Track!Spec => []TranscriptIsFaithful
<1>1. TrackInv => TranscriptIsFaithful
  BY DEF TranscriptIsFaithful, TrackInv
<1> QED
  BY <1>1, TrackInit, TrackStep, PTL DEF Track!Spec
=============================================================================
