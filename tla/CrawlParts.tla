----------------------------- MODULE CrawlParts -----------------------------
(* A behaviour is one of a part of the crawler: the crawl itself, the parsers *)
(* of robots.txt and of sitemaps, or the pace of the requests.                *)
EXTENDS Crawl, Integers

CONSTANTS
    Parts,
    Lines, MaxLines, Specificity, Length, Matches, Paths, Seconds,     \* Robots
    MaxDelay, MaxRules, MaxSitemaps,
    Tokens, MaxTokens, MaxStack, MaxElements, MaxLocations,            \* Sitemap
    Delays, MaxTime, MaxPages,                                         \* Pacing
    DefaultDelay                                                       \* of both

VARIABLES part,
    text, groups, agents, rules, delay, directivesStarted, declared,
    file, stack, root, rootClosed, elements, locationText, locations, thrown,
    now, signalled, waiting, serving, due, originNextRequest, originDelays, answered

ASSUME PartsAssumption == Parts \subseteq {"crawl", "robots", "sitemap", "pacing"}

-----------------------------------------------------------------------------
Policy == INSTANCE Robots WITH sitemaps <- declared
Tags == INSTANCE Sitemap
Pace == INSTANCE Pacing WITH aborted <- signalled

ASSUME PartAssumptions ==
    Policy!RobotsAssumption /\ Tags!SitemapAssumption /\ Pace!PacingAssumption

robotsVars == <<text, groups, agents, rules, delay, directivesStarted, declared>>
sitemapTextVars ==
    <<file, stack, root, rootClosed, elements, locationText, locations, thrown>>
paceVars == <<now, signalled, waiting, serving, due, originNextRequest, originDelays,
              answered>>

-----------------------------------------------------------------------------
PartsInit ==
    /\ part \in Parts
    /\ Init /\ (part # "crawl" => mode = CHOOSE m \in Modes : TRUE)
    /\ Policy!Init /\ Tags!Init /\ Pace!Init

PartsNext ==
    /\ UNCHANGED part
    /\ \/ /\ part = "crawl" /\ Next
          /\ UNCHANGED <<robotsVars, sitemapTextVars, paceVars>>
       \/ /\ part = "robots" /\ Policy!Next
          /\ UNCHANGED <<vars, sitemapTextVars, paceVars>>
       \/ /\ part = "sitemap" /\ Tags!Next
          /\ UNCHANGED <<vars, robotsVars, paceVars>>
       \/ /\ part = "pacing" /\ Pace!Next
          /\ UNCHANGED <<vars, robotsVars, sitemapTextVars>>

everything == <<part, vars, robotsVars, sitemapTextVars, paceVars>>

\* The fairness of the parts: FairSpec of Crawl and of Pacing.
PartsSpec ==
    /\ PartsInit /\ [][PartsNext]_everything
    /\ WF_vars(part = "crawl" /\ Next)
    /\ \A o \in Origins : WF_paceVars(part = "pacing" /\ Pace!Reject(o))

-----------------------------------------------------------------------------
\* The crawl ends, where it is the crawl that is looked at.
ChosenCrawlEnds == part = "crawl" => CrawlEnds

PolicyFollowsTheFile == Policy!PolicyFollowsTheFile
DisallowIsHonored == Policy!DisallowIsHonored
SitemapsFollowTheFile == Tags!SitemapsFollowTheFile
DelayKept == Pace!DelayKept
CancelEndsDelays == Pace!CancelEndsDelays
=============================================================================
