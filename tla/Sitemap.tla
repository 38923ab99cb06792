------------------------------ MODULE Sitemap ------------------------------
(***************************************************************************)
(* parseSitemap of extensions/web-access/crawl.ts for an XML sitemap: its   *)
(* tokens are read one by one against a stack of open elements, by hand.    *)
(* Names are local names, "" for a name that ends in a colon; a token that   *)
(* is refused for its own form (a bad name, attribute or entity, a location  *)
(* that is too long) is "malformed".                                         *)
(* A sitemap that is plain text is the list of its lines, and left out.     *)
(***************************************************************************)
EXTENDS Integers, SequencesExt

CONSTANTS
    Tokens,        \* the tokens a file is made of: [kind, name]
    MaxTokens,     \* bound: tokens of a file
    MaxStack, MaxElements, MaxLocations    \* the parser's own bounds

SitemapAssumption ==
    /\ Tokens \subseteq [kind : {"open", "empty", "close", "text", "blank", "malformed"},
                         name : STRING]
    /\ {MaxTokens, MaxStack, MaxElements, MaxLocations} \subseteq Nat

VARIABLES
    file,           \* the tokens read so far
    stack, root, rootClosed, elements,
    locationText,   \* what the loc element being read contains
    locations,
    thrown          \* has the parser thrown?

tree == <<stack, root, rootClosed, elements>>
vars == <<file, tree, locationText, locations, thrown>>

Init ==
    /\ file = <<>> /\ stack = <<>> /\ root = "" /\ rootClosed = FALSE /\ elements = 0
    /\ locationText = <<>> /\ locations = <<>> /\ thrown = FALSE

Top == IF stack = <<>> THEN "" ELSE Last(stack)

Token(kinds) ==
    /\ ~ thrown
    /\ Len(file) < MaxTokens
    /\ \E t \in Tokens : t.kind \in kinds /\ file' = Append(file, t)

Name == Last(file').name

Throw == thrown' = TRUE /\ UNCHANGED <<tree, locationText, locations>>

ReadMalformed == Token({"malformed"}) /\ Throw

\* Text outside the root is refused, white space is not.
ReadText ==
    /\ Token({"text", "blank"})
    /\ IF stack = <<>> /\ Last(file').kind = "text" THEN Throw
       ELSE /\ locationText' = IF Top = "loc" /\ Last(file').kind = "text"
                               THEN Append(locationText, Name) ELSE locationText
            /\ UNCHANGED <<tree, locations, thrown>>

\* A closing tag must name the innermost open element.
ReadClose ==
    /\ Token({"close"})
    /\ IF \/ stack = <<>>
          \/ Top # Name
          \/ Name = "loc" /\ locationText # <<>> /\ Len(locations) >= MaxLocations
       THEN Throw
       ELSE /\ stack' = Front(stack)
            /\ rootClosed' = (rootClosed \/ stack' = <<>>)
            /\ IF Name = "loc"
               THEN /\ locations' = IF locationText = <<>> THEN locations
                                    ELSE Append(locations, locationText)
                    /\ locationText' = <<>>
               ELSE UNCHANGED <<locations, locationText>>
            /\ UNCHANGED <<root, elements, thrown>>

\* Mutant: the text before a nested element is kept.
StartLocationKeeping == UNCHANGED locationText
StartLocation == locationText' = IF Name = "loc" THEN <<>> ELSE locationText

\* An element opens inside another, or as the only root.
ReadOpen ==
    /\ Token({"open", "empty"})
    /\ IF \/ stack = <<>> /\ (root # "" \/ rootClosed)
          \/ elements >= MaxElements
          \/ Last(file').kind = "open" /\ Len(stack) >= MaxStack
       THEN Throw
       ELSE /\ root' = IF root = "" THEN Name ELSE root
            /\ elements' = elements + 1
            /\ IF Last(file').kind = "open"
               THEN stack' = Append(stack, Name) /\ StartLocation /\ UNCHANGED rootClosed
               ELSE /\ rootClosed' = (rootClosed \/ stack = <<>>)
                    /\ UNCHANGED <<stack, locationText>>
            /\ UNCHANGED <<locations, thrown>>

Next == ReadMalformed \/ ReadText \/ ReadClose \/ ReadOpen

Spec == Init /\ [][Next]_vars

\* parseSitemap returns, were the file to end here.
Accepted ==
    ~ thrown /\ stack = <<>> /\ rootClosed /\ root \in {"sitemapindex", "urlset"}

-----------------------------------------------------------------------------
(***************************************************************************)
(* The reference: depths are counted over the text, without a stack.        *)
(***************************************************************************)
Of(kinds, n) == {i \in 1 .. n : file[i].kind \in kinds}

\* How many elements are open after the n-th token.
Depth(n) == Cardinality(Of({"open"}, n)) - Cardinality(Of({"close"}, n))

\* The opening tag a closing one answers.
Opening(i) == Max({j \in Of({"open"}, i) : Depth(j) = Depth(i) + 1})

Elements(n) == Of({"open", "empty"}, n)

Roots == {i \in Elements(Len(file)) : Depth(i - 1) = 0}

\* The kind of a sitemap is the name of its root, or of the first element that
\* has one.
KindIn(kinds) ==
    \E i \in Elements(Len(file)) :
        file[i].name \in kinds /\ \A j \in Elements(i - 1) : file[j].name = ""

WellFormed ==
    LET n == Len(file) IN
    /\ \A i \in 1 .. n : Depth(i) \in 0 .. MaxStack
    /\ Depth(n) = 0
    /\ Cardinality(Roots) = 1
    /\ KindIn({"sitemapindex", "urlset"})
    /\ \A i \in Of({"close"}, n) : file[Opening(i)].name = file[i].name
    /\ \A i \in Of({"text"}, n) : Depth(i) > 0
    /\ Of({"malformed"}, n) = {}
    /\ Cardinality(Elements(n)) <= MaxElements

\* The n-th of a set of positions, in their order.
Nth(positions, n) ==
    CHOOSE i \in positions : Cardinality({j \in positions : j <= i}) = n

\* What the loc element opened at j contains itself, up to the n-th token and
\* after the last loc nested in it.
Own(j, n) ==
    {i \in Of({"text"}, n) :
        /\ j < i /\ Depth(i) = Depth(j)
        /\ \A k \in Of({"close"}, n) : j < k /\ file[k].name = "loc" => k < i}

\* The text of the loc element that ends at i.
LocationOf(i) ==
    LET own == Own(Opening(i), i - 1)
    IN  [n \in 1 .. Cardinality(own) |-> file[Nth(own, n)].name]

Ends == {i \in Of({"close"}, Len(file)) : file[i].name = "loc" /\ LocationOf(i) # <<>>}

Locations == [n \in 1 .. Cardinality(Ends) |-> LocationOf(Nth(Ends, n))]

(***************************************************************************)
(* Properties.                                                             *)
(***************************************************************************)

\* The parser returns for a file exactly if the file is one sitemap element
\* with properly nested contents, within the limits on depth, elements and
\* locations; every other file is an error of the sitemap.
AcceptsSitemaps ==
    Accepted <=> WellFormed /\ Len(Locations) <= MaxLocations

\* The locations returned are the texts of the file's loc elements, in order:
\* none is lost, and no text of another element becomes one.
LocationsOfLoc == Accepted => locations = Locations

\* Sitemaps are read as they are written: accepted as such, and for what they list.
SitemapsFollowTheFile == AcceptsSitemaps /\ LocationsOfLoc
=============================================================================
