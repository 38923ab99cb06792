---------------------------- MODULE MCCrawlParts ----------------------------
(* An instance of CrawlParts: the site of MCCrawl, and what files are made of. *)
EXTENDS MCCrawl, CrawlParts

CONSTANT
    Separator     \* the kind of empty line in a robots.txt: "blank" or "comment"

-----------------------------------------------------------------------------
Line(name, value) == [name |-> name, value |-> value]
Token(kind, name) == [kind |-> kind, name |-> name]

\* Two of the crawler's names, one of another's, and one that is discarded.
FileLines ==
    {Line("user-agent", name) : name \in {"*", "buzzard", "rival", ""}}
      \cup {Line("disallow", path) : path \in {"/", "/a"}} \cup {Line("allow", "/a")}
      \cup {Line("crawl-delay", d) : d \in {"2", "9"}}
      \cup {Line("sitemap", "s"), Line(Separator, "")}

FileSpecificity == [name \in {"*", "buzzard", "rival"} |->
                      CASE name = "*" -> 0 [] name = "buzzard" -> 7 [] OTHER -> -1]

FileLengths == [path \in {"/", "/a"} |-> IF path = "/" THEN 1 ELSE 2]

FileMatches == {<<"/", "/a">>, <<"/", "/b">>, <<"/a", "/a">>}

FileSeconds == [d \in {"2", "9"} |-> IF d = "2" THEN 2 ELSE 9]

FileTokens ==
    {Token(k, n) : k \in {"open", "close"}, n \in {"urlset", "loc", ""}}
      \cup {Token("empty", "loc"), Token("text", "t"), Token("blank", ""),
            Token("malformed", "")}
=============================================================================
