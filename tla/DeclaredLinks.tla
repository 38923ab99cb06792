---------------------------- MODULE DeclaredLinks ----------------------------
(***************************************************************************)
(* discoverDeclaredWebLinks of extensions/web-access/declared-web-links.ts  *)
(* as readableHTML calls it, without a Link header: the elements of a page  *)
(* that declare a relation, in document order, become at most MaxLinks      *)
(* links, one for each URL, appended to the page's content.                 *)
(*                                                                          *)
(* An element is the URL its href resolves to, or Unusable when it is too   *)
(* long or not of http(s), and the known relations of its rel.  The type of *)
(* a link is left out.                                                      *)
(***************************************************************************)
EXTENDS Integers, Sequences

CONSTANTS
    Links,          \* URLs
    Unusable,
    Relations,
    MaxLinks,       \* MAX_LINKS
    MaxElements     \* bound

DeclaredAssumption ==
    /\ Unusable \notin Links
    /\ MaxLinks \in Nat \ {0}
    /\ MaxElements \in Nat

VARIABLES
    elements,    \* looked at so far
    links,       \* the Map, in the order of its insertions
    full         \* has the loop ended?

vars == <<elements, links, full>>

Init == elements = <<>> /\ links = <<>> /\ full = FALSE

\* Mutant: the relations of the last element that names a URL.
MergedLast(n, relations) == [links EXCEPT ![n].relations = relations]

Merged(n, relations) == [links EXCEPT ![n].relations = @ \cup relations]

\* addLink
Added(url, relations) ==
    IF url = Unusable \/ relations = {} THEN links
    ELSE IF \E n \in DOMAIN links : links[n].url = url
         THEN Merged(CHOOSE n \in DOMAIN links : links[n].url = url, relations)
         ELSE Append(links, [url |-> url, relations |-> relations])

Look(url, relations) ==
    /\ ~full /\ Len(elements) < MaxElements
    /\ elements' = Append(elements, [url |-> url, relations |-> relations])
    /\ links' = Added(url, relations)
    /\ full' = (Len(links') >= MaxLinks)

Next == \E url \in Links \cup {Unusable}, relations \in SUBSET Relations : Look(url, relations)

Spec == Init /\ [][Next]_vars

-----------------------------------------------------------------------------
Declared(url) ==
    UNION {elements[i].relations : i \in {j \in DOMAIN elements : elements[j].url = url}}

\* The list has exactly the URLs that the elements looked at declare, each once
\* and with all its relations, and looking ends early only at a full list.
LinksFollowThePage ==
    /\ {links[n].url : n \in DOMAIN links} = {url \in Links : Declared(url) # {}}
    /\ \A m, n \in DOMAIN links : links[m].url = links[n].url => m = n
    /\ \A n \in DOMAIN links : links[n].relations = Declared(links[n].url)
    /\ full <=> Len(links) = MaxLinks
=============================================================================
