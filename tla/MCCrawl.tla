------------------------------- MODULE MCCrawl -------------------------------
(* A site of two origins: r, a, b, e and p on the first, c on the second, and *)
(* x, which is out of scope.  p is refused by robots.txt.                     *)
EXTENDS Crawl

CONSTANTS r, a, b, c, e, p, x, o1, o2

OriginsOf == [u \in Urls |-> IF u = c THEN o2 ELSE o1]

LinksOf == [u \in Urls |->
    CASE u = r -> <<a, b, c>>
      [] u = a -> <<b, p, x>>
      [] u = b -> <<r, e>>
      [] u = p -> <<e>>
      [] OTHER -> <<>>]

\* A page of one origin names a page of the other as its canonical form.
CanonicalOf == [u \in Urls |-> IF u = c THEN b ELSE u]

RedirectsOf == [u \in Urls |->
    CASE u = a -> {b, x} [] OTHER -> {}]

\* a answers with the page robots.txt refuses.
RedirectsToRefused == [u \in Urls |-> IF u = a THEN {p} ELSE {}]

\* p is a sitemap index that lists itself and b; b is a set of URLs.
SitemapsOf == [u \in Urls |->
    CASE u = p -> [kind |-> "index", locations |-> <<p, b>>]
      [] u = b -> [kind |-> "urlset", locations |-> <<a, x, c, a>>]
      [] OTHER -> [kind |-> "urlset", locations |-> <<r>>]]

Declared == <<p, c>>

AllModes == [robots : {"respect", "ignore"}, sitemap : {"include", "skip", "only"}]
RespectOnly == {[robots |-> "respect", sitemap |-> "skip"]}
=============================================================================
