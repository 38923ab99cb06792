------------------------------- MODULE Crawl -------------------------------
(***************************************************************************)
(* crawl_content: crawlWithGecko (extensions/web-access/crawl.ts), one      *)
(* crawl from its first await to its result.                                *)
(*                                                                          *)
(* The site is a constant (links, canonical URLs, robots rules, sitemaps);  *)
(* what a request comes back with (error, redirect, size) is chosen freely. *)
(* Only the phases in Awaiting wait for something, so only there can the    *)
(* caller's or the timeout's signal fire; the rest of each handler runs to  *)
(* its next await.  Politeness delays are time passing in a fetch, and the  *)
(* error list and progress reports are left out.                            *)
(***************************************************************************)
EXTENDS Naturals, SequencesExt

CONSTANTS
    Urls, Origins, OriginOf, Root,   \* canonical URLs
    InScope,                         \* those inScope() accepts
    Links, Canonical,                \* URL -> links of its page, its canonical URL
    Disallowed,                      \* URLs the rules of their robots.txt refuse
    RobotsRefusals,                  \* origins whose robots.txt may be unavailable
    DefaultSitemap, DeclaredSitemaps,\* /sitemap.xml, those robots.txt names
    SitemapOf,                       \* URL -> [kind, locations]
    Redirects,                       \* URL -> where a request for it may end up
    Sizes, Expansions,               \* bytes of a response, of its readable form
    Modes,                           \* options.robots and options.sitemap
    MaxDepth, Limit, MaxBytes, MaxConcurrency,          \* options
    MaxRedirects, RenderBytes, RenderRedirects,         \* MAX_CRAWL_*, MAX_GECKO_*
    SitemapDepth, SitemapDocuments, SitemapLocations,   \* MAX_SITEMAP_*
    NoReason

ASSUME CrawlAssumption ==
    /\ OriginOf \in [Urls -> Origins]
    /\ Root \in Urls /\ DefaultSitemap \in Urls
    /\ InScope \subseteq Urls /\ Disallowed \subseteq Urls
    /\ RobotsRefusals \subseteq Origins
    /\ Links \in [Urls -> Seq(Urls)]
    /\ Canonical \in [Urls -> Urls]
    /\ Redirects \in [Urls -> SUBSET Urls]
    /\ DeclaredSitemaps \in Seq(Urls)
    /\ SitemapOf \in [Urls -> [kind : {"index", "urlset"}, locations : Seq(Urls)]]
    /\ Sizes \subseteq Nat /\ Expansions \subseteq Nat
    /\ Modes \subseteq [robots : {"respect", "ignore"},
                        sitemap : {"include", "skip", "only"}]
    /\ {MaxDepth, MaxRedirects, RenderRedirects} \subseteq Nat
    /\ {SitemapDepth, SitemapDocuments, SitemapLocations} \subseteq Nat
    /\ {Limit, MaxBytes, MaxConcurrency, RenderBytes} \subseteq Nat \ {0}

VARIABLES
    mode,                    \* the options of this crawl
    phase,
    aborted,                 \* sources of the combined signal that fired
    stopped, partial,        \* stoppedReason, partial
    spent,                   \* totalBytes, totalRedirects
    robots,                  \* origin -> policy cached for it
    sitemaps, sitemapSeen,   \* sitemaps to collect, sitemapSeen
    queue, level, additions, queued, seen,
    batch,                   \* the candidates and fetches of the current round
    visited, documents,
    requests,                \* history: URL -> page requests for it
    represented              \* history: final and canonical URLs of fetched pages

signals == <<aborted, stopped, partial>>
sitemapVars == <<sitemaps, sitemapSeen>>
frontier == <<queue, level, additions, queued, seen, represented>>
output == <<visited, documents, requests>>
vars == <<mode, phase, signals, spent, robots, sitemapVars, frontier, batch, output>>

Awaiting == {"robots", "sitemap", "eligible", "fetch"}
Phases == Awaiting \cup {"level", "collect", "outcomes", "ending", "done"}

Reasons == {"maxBytes", "maxRedirects", "limit", "cancelled", "timeout"}
Items == [url : Urls, depth : 0..MaxDepth]
SitemapItems == [url : Urls, depth : 0..(SitemapDepth + 1)]
Results == [ok : BOOLEAN, final : Urls, bytes : Nat, redirects : Nat, extra : Nat]
Pending == [ok |-> FALSE, final |-> Root, bytes |-> 0, redirects |-> 0, extra |-> 0]
Jobs == [url : Urls, depth : 0..MaxDepth, bytes : Nat, redirects : Nat, result : Results,
         state : {"candidate", "allowed", "refused", "waiting", "running",
                  "fetched", "threw"}]

TypeOK ==
    /\ mode \in Modes
    /\ phase \in Phases
    /\ aborted \subseteq {"budget", "cancelled", "timeout"}
    /\ stopped \in Reasons \cup {NoReason} /\ partial \in BOOLEAN
    /\ spent \in [bytes : Nat, redirects : Nat]
    /\ robots \in [Origins -> {"unknown", "unavailable", "open", "rules"}]
    /\ sitemaps \in Seq(SitemapItems) /\ sitemapSeen \subseteq Urls
    /\ queue \in Seq(Items) /\ level \in Seq(Items) /\ additions \in Seq(Items)
    /\ queued \subseteq Urls /\ seen \subseteq Urls /\ represented \subseteq Urls
    /\ batch \in Seq(Jobs)
    /\ visited \in Nat
    /\ documents \in Seq([url : Urls, key : Urls, final : Urls, depth : 0..MaxDepth])
    /\ requests \in [Urls -> Nat]

Init ==
    /\ mode \in Modes
    /\ phase = CASE mode.sitemap = "skip" -> "level"
                 [] mode.sitemap # "skip" /\ mode.robots = "respect" -> "robots"
                 [] OTHER -> "sitemap"
    /\ aborted = {} /\ stopped = NoReason /\ partial = FALSE
    /\ spent = [bytes |-> 0, redirects |-> 0]
    /\ robots = [o \in Origins |-> "unknown"]
    /\ sitemaps = IF mode.robots = "respect" THEN <<>>
                  ELSE <<[url |-> DefaultSitemap, depth |-> 0]>>
    /\ sitemapSeen = {}
    /\ queue = IF mode.sitemap = "only" THEN <<>> ELSE <<[url |-> Root, depth |-> 0]>>
    /\ level = <<>> /\ additions = <<>>
    /\ queued = IF mode.sitemap = "skip" THEN {Root} ELSE {}
    /\ seen = {} /\ represented = {}
    /\ batch = <<>>
    /\ visited = 0 /\ documents = <<>>
    /\ requests = [u \in Urls |-> 0]

-----------------------------------------------------------------------------
(* Budgets and signals.                                                     *)

\* stop: the first reason stands, and aborts whatever is in flight.
Stop(reason) ==
    IF stopped # NoReason THEN UNCHANGED signals
    ELSE /\ stopped' = reason /\ partial' = TRUE
         /\ aborted' = aborted \cup {"budget"}

\* account: redirects are checked before bytes.
Fits(bytes, redirects) ==
    /\ spent.redirects + redirects <= MaxRedirects
    /\ spent.bytes + bytes <= MaxBytes

Exceeded(redirects) ==
    IF spent.redirects + redirects > MaxRedirects THEN "maxRedirects" ELSE "maxBytes"

Spend(bytes, redirects) ==
    spent' = [bytes |-> spent.bytes + bytes, redirects |-> spent.redirects + redirects]

\* The caller cancels, or AbortSignal.timeout(timeoutMs) fires.
Abort(source) ==
    /\ phase \in Awaiting
    /\ source \notin aborted
    /\ aborted' = aborted \cup {source}
    /\ UNCHANGED <<phase, stopped, partial, spent, robots, sitemapVars, frontier,
                   batch, output>>

-----------------------------------------------------------------------------
(* robots.txt                                                               *)

AllowsWithoutPolicy(policy, u) == policy # "rules" \/ u \notin Disallowed
Allows(policy, u) == policy = "open" \/ (policy = "rules" /\ u \notin Disallowed)

\* robotsForOrigin fails closed: on an aborted or failing fetch, a spent
\* budget, a redirect off the origin, 401, 403, 429, 5xx or a bad file.  Any
\* other 4xx means there are no rules.
Policies(o) == {"open", "rules"} \cup IF o \in RobotsRefusals THEN {"unavailable"} ELSE {}

FetchRobots(o) ==
    \/ /\ spent.bytes = MaxBytes
       /\ robots' = [robots EXCEPT ![o] = "unavailable"]
       /\ Stop("maxBytes")
       /\ UNCHANGED spent
    \/ /\ aborted # {}
       /\ spent.bytes < MaxBytes
       /\ robots' = [robots EXCEPT ![o] = "unavailable"]
       /\ UNCHANGED <<signals, spent>>
    \/ /\ aborted = {}
       /\ spent.bytes < MaxBytes
       /\ \E bytes \in Sizes, redirects \in 0..1 :
            IF Fits(bytes, redirects)
            THEN /\ Spend(bytes, redirects)
                 /\ \E policy \in Policies(o) : robots' = [robots EXCEPT ![o] = policy]
                 /\ UNCHANGED signals
            ELSE /\ robots' = [robots EXCEPT ![o] = "unavailable"]
                 /\ Stop(Exceeded(redirects))
                 /\ UNCHANGED spent

-----------------------------------------------------------------------------
(* The sitemap phase.                                                       *)

ItemsOf(urls, depth) == [i \in DOMAIN urls |-> [url |-> urls[i], depth |-> depth]]

\* Filters: the elements of s at some of its positions, in their order.
Nth(positions, k) ==
    CHOOSE i \in positions : Cardinality({j \in positions : j <= i}) = k
Picked(s, positions) == [k \in 1..Cardinality(positions) |-> s[Nth(positions, k)]]

\* Keeps the first item of each URL.
Firsts(items) == {i \in DOMAIN items : \A j \in 1..(i - 1) : items[j].url # items[i].url}
Distinct(items) == Picked(items, Firsts(items))

DeclaredBy(o) ==
    Picked(DeclaredSitemaps, {i \in DOMAIN DeclaredSitemaps : OriginOf[DeclaredSitemaps[i]] = o})

\* The root origin's policy names the sitemaps of that origin.
ReadRootRobots ==
    LET o == OriginOf[Root] IN
    /\ phase = "robots"
    /\ FetchRobots(o)
    /\ sitemaps' =
         Distinct(ItemsOf(CASE robots'[o] = "unavailable" -> <<>>
                            [] robots'[o] = "open" -> <<DefaultSitemap>>
                            [] robots'[o] = "rules" ->
                                 <<DefaultSitemap>> \o DeclaredBy(o), 0))
    /\ phase' = "sitemap"
    /\ UNCHANGED <<sitemapSeen, frontier, batch, output>>

\* collectSitemap returns at once.
Uncollected(item) ==
    \/ aborted # {}
    \/ item.depth > SitemapDepth
    \/ Cardinality(sitemapSeen) >= SitemapDocuments
    \/ Len(queue) >= SitemapLocations
    \/ OriginOf[item.url] # OriginOf[Root]
    \/ item.url \in sitemapSeen

SkipSitemap ==
    /\ phase = "sitemap"
    /\ sitemaps # <<>>
    /\ Uncollected(Head(sitemaps))
    /\ sitemaps' = Tail(sitemaps)
    /\ UNCHANGED <<phase, signals, spent, robots, sitemapSeen, frontier, batch, output>>

\* An index's locations are collected before its siblings (depth first); the
\* in-scope locations of a set of URLs join the queue up to the bound.
TakeSitemap(item) ==
    LET found == SitemapOf[item.url]
        pages == ItemsOf(Picked(found.locations, {i \in DOMAIN found.locations :
                                                    found.locations[i] \in InScope}), 0)
        room == SitemapLocations - Len(queue)
    IN  IF found.kind = "index"
        THEN /\ sitemaps' = ItemsOf(found.locations, item.depth + 1) \o Tail(sitemaps)
             /\ UNCHANGED queue
        ELSE /\ queue' = queue \o SubSeq(pages, 1, IF Len(pages) < room
                                                  THEN Len(pages) ELSE room)
             /\ sitemaps' = Tail(sitemaps)

\* The response, then what its gzip body inflates to, must fit.
FetchSitemap ==
    LET item == Head(sitemaps) IN
    /\ phase = "sitemap"
    /\ sitemaps # <<>>
    /\ ~Uncollected(item)
    /\ sitemapSeen' = sitemapSeen \cup {item.url}
    /\ \/ /\ spent.bytes = MaxBytes
          /\ Stop("maxBytes")
          /\ sitemaps' = Tail(sitemaps)
          /\ UNCHANGED <<spent, queue>>
       \/ /\ spent.bytes < MaxBytes
          /\ \E bytes \in Sizes, redirects \in 0..1, extra \in Expansions :
               \/ /\ ~Fits(bytes, redirects)
                  /\ Stop(Exceeded(redirects))
                  /\ sitemaps' = Tail(sitemaps)
                  /\ UNCHANGED <<spent, queue>>
               \/ /\ Fits(bytes, redirects)
                  /\ Spend(bytes, redirects)
                  /\ \/ UNCHANGED signals   \* an error, or off the origin
                     \/ ~Fits(bytes + extra, redirects) /\ Stop("maxBytes")
                  /\ sitemaps' = Tail(sitemaps)
                  /\ UNCHANGED queue
               \/ /\ Fits(bytes + extra, redirects)
                  /\ Spend(bytes + extra, redirects)
                  /\ TakeSitemap(item)
                  /\ UNCHANGED signals
    /\ UNCHANGED <<phase, robots, level, additions, queued, seen, represented,
                   batch, output>>

SitemapsDone ==
    /\ phase = "sitemap"
    /\ sitemaps = <<>>
    /\ queue' = Distinct(queue)
    /\ queued' = {queue[i].url : i \in DOMAIN queue}
    /\ phase' = "level"
    /\ UNCHANGED <<signals, spent, robots, sitemapVars, level, additions, seen,
                   represented, batch, output>>

-----------------------------------------------------------------------------
(* The breadth-first phase: levels, and rounds of at most MaxConcurrency.   *)

\* The queue's first items of one depth.
NextLevel ==
    LET same == {i \in DOMAIN queue : \A j \in 1..i : queue[j].depth = queue[1].depth}
        n == Cardinality(same)
    IN  /\ phase = "level"
        /\ aborted = {} /\ queue # <<>> /\ visited < Limit
        /\ level' = SubSeq(queue, 1, n)
        /\ queue' = SubSeq(queue, n + 1, Len(queue))
        /\ additions' = <<>>
        /\ phase' = "collect"
        /\ UNCHANGED <<signals, spent, robots, sitemapVars, queued, seen,
                       represented, batch, output>>

LeaveLevels ==
    /\ phase = "level"
    /\ aborted # {} \/ queue = <<>> \/ visited >= Limit
    /\ phase' = "ending"
    /\ UNCHANGED <<signals, spent, robots, sitemapVars, frontier, batch, output>>

RoundFull == Len(batch) >= MaxConcurrency \/ visited + Len(batch) >= Limit

TakeCandidate ==
    LET item == Head(level)
        job == [url |-> item.url, depth |-> item.depth, bytes |-> 0, redirects |-> 0,
                result |-> Pending, state |-> "candidate"]
    IN  /\ phase = "collect"
        /\ level # <<>> /\ ~RoundFull
        /\ level' = Tail(level)
        /\ seen' = seen \cup {item.url}
        /\ batch' = IF item.url \notin seen /\ item.url \in InScope
                    THEN Append(batch, job) ELSE batch
        /\ UNCHANGED <<phase, signals, spent, robots, sitemapVars, queue, additions,
                       queued, represented, output>>

CandidatesTaken ==
    /\ phase = "collect"
    /\ level = <<>> \/ RoundFull
    /\ batch # <<>>
    /\ phase' = "eligible"
    /\ UNCHANGED <<signals, spent, robots, sitemapVars, frontier, batch, output>>

\* allowedByRobots of the first candidate that has no verdict yet; its origin's
\* policy is fetched the first time it is needed.
Judge(i, policy) ==
    batch' = [batch EXCEPT ![i].state = IF Allows(policy, batch[i].url)
                                        THEN "allowed" ELSE "refused"]

CheckRobots(i) ==
    LET o == OriginOf[batch[i].url] IN
    /\ phase = "eligible"
    /\ i \in DOMAIN batch
    /\ batch[i].state = "candidate"
    /\ \A j \in 1..(i - 1) : batch[j].state # "candidate"
    /\ i = 1 \/ aborted = {}
    /\ IF mode.robots = "ignore"
       THEN Judge(i, "open") /\ UNCHANGED <<robots, signals, spent>>
       ELSE IF robots[o] # "unknown"
       THEN Judge(i, robots[o]) /\ UNCHANGED <<robots, signals, spent>>
       ELSE FetchRobots(o) /\ Judge(i, robots'[o])
    /\ UNCHANGED <<phase, sitemapVars, frontier, output>>

\* break crawl, once the candidate being judged has its verdict
AbortEligible ==
    /\ phase = "eligible"
    /\ aborted # {}
    /\ batch[1].state # "candidate"
    /\ phase' = "ending"
    /\ UNCHANGED <<signals, spent, robots, sitemapVars, frontier, batch, output>>

Fetches == Picked(batch, {i \in DOMAIN batch : batch[i].state = "allowed"})

\* The i-th of n equal shares, the remainder going to the first.
ShareRoundedUp(total, n, i) == total \div n + 1
Share(total, n, i) == total \div n + (IF i <= total % n THEN 1 ELSE 0)

Least(a, b) == IF a < b THEN a ELSE b

\* What is left of the budgets is split among the fetches of the round.
StartRound ==
    LET n == Len(Fetches)
        bytes == MaxBytes - spent.bytes
        redirects == MaxRedirects - spent.redirects
    IN  /\ phase = "eligible"
        /\ aborted = {}
        /\ \A i \in DOMAIN batch : batch[i].state # "candidate"
        /\ IF n > 0 /\ bytes < n
           THEN /\ Stop("maxBytes")
                /\ phase' = "ending"
                /\ UNCHANGED <<batch, visited>>
           ELSE /\ batch' = [i \in 1..n |->
                               [Fetches[i] EXCEPT
                                  !.state = "waiting",
                                  !.bytes = Least(RenderBytes, Share(bytes, n, i)),
                                  !.redirects = Least(RenderRedirects,
                                                      Share(redirects, n, i))]]
                /\ visited' = visited + n
                /\ phase' = "fetch"
                /\ UNCHANGED signals
        /\ UNCHANGED <<spent, robots, sitemapVars, frontier, documents, requests>>

-----------------------------------------------------------------------------
(* A round's fetches: concurrent, but one at a time and in order for an     *)
(* origin (pLimit(1)).                                                      *)

SameUrl(i, j) == batch[i].url = batch[j].url
SameOrigin(i, j) == OriginOf[batch[i].url] = OriginOf[batch[j].url]

StartFetch(i) ==
    /\ phase = "fetch"
    /\ i \in DOMAIN batch
    /\ batch[i].state = "waiting"
    /\ aborted = {}
    /\ \A j \in DOMAIN batch :
         SameOrigin(i, j) =>
           /\ batch[j].state # "running"
           /\ j < i => batch[j].state # "waiting"
    /\ batch' = [batch EXCEPT ![i].state = "running"]
    /\ requests' = [requests EXCEPT ![batch[i].url] = @ + 1]
    /\ UNCHANGED <<phase, signals, spent, robots, sitemapVars, frontier, visited,
                   documents>>

\* The renderer answers; account checks what it says again.
FinishFetch(i) ==
    /\ phase = "fetch"
    /\ i \in DOMAIN batch
    /\ batch[i].state = "running"
    /\ \E ok \in BOOLEAN, bytes \in Sizes, extra \in Expansions,
          final \in {batch[i].url} \cup Redirects[batch[i].url] :
         /\ ~ok => final = batch[i].url /\ extra = 0
         /\ batch' = [batch EXCEPT
              ![i].state = "fetched",
              ![i].result = [ok |-> ok, final |-> final, bytes |-> bytes, extra |-> extra,
                             redirects |-> IF final = batch[i].url THEN 0 ELSE 1]]
    /\ UNCHANGED <<phase, signals, spent, robots, sitemapVars, frontier, output>>

ThrowRunning(i) ==
    /\ phase = "fetch"
    /\ i \in DOMAIN batch
    /\ batch[i].state = "running"
    /\ aborted # {}
    /\ batch' = [batch EXCEPT ![i].state = "threw"]
    /\ UNCHANGED <<phase, signals, spent, robots, sitemapVars, frontier, output>>

\* The signal reaches the fetches under way and those waiting for their turn.
ThrowFetch(i) ==
    /\ phase = "fetch"
    /\ i \in DOMAIN batch
    /\ batch[i].state \in {"waiting", "running"}
    /\ aborted # {}
    /\ batch' = [batch EXCEPT ![i].state = "threw"]
    /\ UNCHANGED <<phase, signals, spent, robots, sitemapVars, frontier, output>>

RoundDone ==
    /\ phase = "fetch"
    /\ \A i \in DOMAIN batch : batch[i].state \in {"fetched", "threw"}
    /\ phase' = IF batch = <<>> THEN "collect" ELSE "outcomes"
    /\ UNCHANGED <<signals, spent, robots, sitemapVars, frontier, batch, output>>

-----------------------------------------------------------------------------
(* The outcomes of a round, in the order of its candidates.                 *)

Outcome == Head(batch).result

Emitted == {documents[i].key : i \in DOMAIN documents}

\* A fetched page is known by the canonical URL it declares, if in scope.
OutputKey(final) == IF Canonical[final] \in InScope THEN Canonical[final] ELSE final

Usable == Outcome.ok /\ Outcome.final \in InScope

\* Whatever was fetched is dropped once the signal has fired.
DropRound ==
    /\ phase = "outcomes"
    /\ aborted # {}
    /\ phase' = "ending"
    /\ UNCHANGED <<signals, spent, robots, sitemapVars, frontier, batch, output>>

PageExceedsBudget ==
    /\ phase = "outcomes"
    /\ aborted = {}
    /\ ~Fits(Outcome.bytes, Outcome.redirects)
    /\ Stop(Exceeded(Outcome.redirects))
    /\ phase' = "ending"
    /\ UNCHANGED <<spent, robots, sitemapVars, frontier, batch, output>>

\* An error, or a redirect out of scope.
PageFailed ==
    /\ phase = "outcomes"
    /\ aborted = {}
    /\ Fits(Outcome.bytes, Outcome.redirects)
    /\ ~Usable
    /\ Spend(Outcome.bytes, Outcome.redirects)
    /\ batch' = Tail(batch)
    /\ phase' = IF Len(batch) = 1 THEN "collect" ELSE phase
    /\ UNCHANGED <<signals, robots, sitemapVars, frontier, output>>

Recognized == seen \cup {Outcome.final, OutputKey(Outcome.final)}

\* The readable form of a new document needs more bytes than are left.
ReadableExceedsBudget ==
    /\ phase = "outcomes"
    /\ aborted = {}
    /\ Fits(Outcome.bytes, Outcome.redirects)
    /\ Usable
    /\ OutputKey(Outcome.final) \notin Emitted
    /\ ~Fits(Outcome.bytes + Outcome.extra, Outcome.redirects)
    /\ Spend(Outcome.bytes, Outcome.redirects)
    /\ seen' = Recognized
    /\ represented' = represented \cup (Recognized \ seen)
    /\ Stop("maxBytes")
    /\ phase' = "ending"
    /\ UNCHANGED <<robots, sitemapVars, queue, level, additions, queued, batch, output>>

MayExpandTooDeep(depth) == depth <= MaxDepth /\ mode.sitemap # "only"
MayExpand(depth) == depth < MaxDepth /\ mode.sitemap # "only"

Discovered(depth) ==
    LET links == Links[Outcome.final] IN
    ItemsOf(Picked(links, {i \in DOMAIN links : links[i] \in InScope \ Recognized}), depth)

\* Links wait until the level is finished.
EnqueueInLevel(items) == level' = items \o level /\ UNCHANGED additions
Enqueue(items) == additions' = additions \o items /\ UNCHANGED level

TakePage ==
    LET job == Head(batch)
        key == OutputKey(Outcome.final)
        fresh == key \notin Emitted
        extra == IF fresh THEN Outcome.extra ELSE 0
    IN  /\ phase = "outcomes"
        /\ aborted = {}
        /\ Usable
        /\ Fits(Outcome.bytes + extra, Outcome.redirects)
        /\ Spend(Outcome.bytes + extra, Outcome.redirects)
        /\ seen' = Recognized
        /\ represented' = represented \cup (Recognized \ seen)
        /\ documents' = IF fresh
                        THEN Append(documents, [url |-> job.url, key |-> key,
                                                final |-> Outcome.final,
                                                depth |-> job.depth])
                        ELSE documents
        /\ Enqueue(IF MayExpand(job.depth) THEN Discovered(job.depth + 1) ELSE <<>>)
        /\ batch' = Tail(batch)
        /\ phase' = IF Len(batch) = 1 THEN "collect" ELSE phase
        /\ UNCHANGED <<signals, robots, sitemapVars, queue, queued, visited, requests>>

\* The level is finished, or the limit reached: what it discovered is queued,
\* and anything left over makes the result partial.
New == Picked(additions, {i \in Firsts(additions) : additions[i].url \notin queued \cup seen})

LimitForgetsLevel ==
    /\ phase = "collect" /\ batch = <<>>
    /\ level = <<>> \/ visited >= Limit
    /\ queue' = queue \o New
    /\ queued' = queued \cup {New[i].url : i \in DOMAIN New}
    /\ IF visited >= Limit /\ queue' # <<>>
       THEN partial' = TRUE /\ stopped' = "limit" /\ phase' = "ending"
       ELSE phase' = "level" /\ UNCHANGED <<partial, stopped>>
    /\ UNCHANGED <<aborted, spent, robots, sitemapVars, level, additions, seen,
                   represented, batch, output>>

LevelDone ==
    /\ phase = "collect" /\ batch = <<>>
    /\ level = <<>> \/ visited >= Limit
    /\ queue' = queue \o New
    /\ queued' = queued \cup {New[i].url : i \in DOMAIN New}
    /\ IF visited >= Limit /\ (level # <<>> \/ queue' # <<>>)
       THEN partial' = TRUE /\ stopped' = "limit" /\ phase' = "ending"
       ELSE phase' = "level" /\ UNCHANGED <<partial, stopped>>
    /\ UNCHANGED <<aborted, spent, robots, sitemapVars, level, additions, seen,
                   represented, batch, output>>

\* What the result reports.
EndByAbort ==
    /\ phase = "ending"
    /\ phase' = "done"
    /\ IF aborted # {} \/ (stopped = NoReason /\ visited >= Limit /\ queue # <<>>)
       THEN /\ partial' = TRUE
            /\ stopped' = CASE "cancelled" \in aborted -> "cancelled"
                            [] aborted # {} -> "timeout"
                            [] OTHER -> "limit"
       ELSE UNCHANGED <<partial, stopped>>
    /\ UNCHANGED <<aborted, spent, robots, sitemapVars, frontier, batch, output>>
End ==
    /\ phase = "ending"
    /\ phase' = "done"
    /\ IF stopped = NoReason /\ (aborted # {} \/ (visited >= Limit /\ queue # <<>>))
       THEN /\ partial' = TRUE
            /\ stopped' = CASE "cancelled" \in aborted -> "cancelled"
                            [] aborted # {} -> "timeout"
                            [] OTHER -> "limit"
       ELSE UNCHANGED <<partial, stopped>>
    /\ UNCHANGED <<aborted, spent, robots, sitemapVars, frontier, batch, output>>

-----------------------------------------------------------------------------
Next ==
    /\ UNCHANGED mode
    /\ \/ \E source \in {"cancelled", "timeout"} : Abort(source)
       \/ ReadRootRobots \/ SkipSitemap \/ FetchSitemap \/ SitemapsDone
       \/ NextLevel \/ LeaveLevels \/ TakeCandidate \/ CandidatesTaken
       \/ AbortEligible \/ StartRound
       \/ \E i \in 1..MaxConcurrency :
            CheckRobots(i) \/ StartFetch(i) \/ FinishFetch(i) \/ ThrowFetch(i)
       \/ RoundDone
       \/ DropRound \/ PageExceedsBudget \/ PageFailed \/ ReadableExceedsBudget \/ TakePage
       \/ LevelDone \/ End

Spec == Init /\ [][Next]_vars

\* A fetch ends by its own timeout at the latest, and everything else the
\* crawl waits for is its own code.
FairSpec == Spec /\ WF_vars(Next)

-----------------------------------------------------------------------------
(* Properties.                                                              *)

Total(s) ==
    LET sum[n \in 0..Len(s)] == IF n = 0 THEN 0 ELSE sum[n - 1] + s[n]
    IN  sum[Len(s)]

Granted(field) == Total([i \in DOMAIN batch |-> batch[i][field]])

\* The budgets hold at every moment, counting what the fetches of a round are
\* allowed to use while none of them has answered yet.
WithinBudgets ==
    /\ spent.bytes <= MaxBytes /\ spent.redirects <= MaxRedirects
    /\ visited <= Limit
    /\ phase = "fetch" =>
         /\ spent.bytes + Granted("bytes") <= MaxBytes
         /\ spent.redirects + Granted("redirects") <= MaxRedirects

\* However redirects, canonical URLs, sitemaps and links lead to a page, it is
\* requested once and becomes one document, and an origin never serves two
\* requests at a time.
NothingTwice ==
    /\ \A u \in Urls : requests[u] <= 1
    /\ \A i, j \in DOMAIN documents : documents[i].key = documents[j].key => i = j
    /\ \A i, j \in DOMAIN batch :
         batch[i].state = "running" /\ batch[j].state = "running"
           /\ OriginOf[batch[i].url] = OriginOf[batch[j].url] => i = j

Welcome(u) ==
    /\ u \in InScope
    /\ \/ mode.robots = "ignore"
       \/ robots[OriginOf[u]] = "open"
       \/ robots[OriginOf[u]] = "rules" /\ u \notin Disallowed

\* No page is requested before its origin's robots policy is known, against
\* it, or out of scope; without a policy nothing of the origin is requested.
OnlyWelcomeRequests == \A u \in Urls : requests[u] > 0 => Welcome(u)

Expanded(d) == d.depth < MaxDepth /\ mode.sitemap # "only"

Handled(u) == requests[u] > 0 \/ ~Welcome(u) \/ u \in represented

\* A result that is not partial left nothing out: every URL that was queued or
\* linked from an expanded document was requested, refused, or is another name
\* of a page that was fetched.
CompleteIsExhaustive ==
    phase = "done" /\ ~partial =>
      /\ \A u \in queued : Handled(u)
      /\ \A i \in DOMAIN documents : Expanded(documents[i]) =>
           \A u \in ToSet(Links[documents[i].final]) : Handled(u)

\* "exact breadth-first": documents come in the order of their depth, none while
\* a page of a lesser depth waits, and no page is reached later than one level
\* below a document that links to it.
BreadthFirst ==
    \A i, j \in DOMAIN documents :
      /\ i < j => documents[i].depth <= documents[j].depth
      /\ \A item \in ToSet(level) \cup ToSet(queue) : documents[j].depth <= item.depth
      /\ Expanded(documents[i]) /\ documents[j].url \in ToSet(Links[documents[i].final])
           => documents[j].depth <= documents[i].depth + 1

\* The reason first given for stopping is the one reported, whatever else
\* stops or aborts the crawl before it ends.
FirstReasonStands ==
    [][stopped # NoReason => stopped' = stopped /\ partial']_vars

\* The crawl ends: no abort leaves a fetch waiting, and no site keeps it going.
CrawlEnds == <>(phase = "done")

\* What crawl.test.ts says of a crawl that respects robots.txt ("never fetch
\* robots-disallowed pages"), of the pages that make up its result.
DocumentsAllowed ==
    \A i \in DOMAIN documents :
      mode.robots = "respect" =>
        LET final == documents[i].final IN Allows(robots[OriginOf[final]], final)
=============================================================================
