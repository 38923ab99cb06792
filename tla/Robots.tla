------------------------------- MODULE Robots -------------------------------
(***************************************************************************)
(* parseRobots and robotsAllows of extensions/web-access/crawl.ts: a        *)
(* robots.txt read line by line, and the policy it would give if it ended   *)
(* after any of its lines.  A line is its directive and its value; what a   *)
(* value is worth (how specific an agent name is, which paths a pattern     *)
(* matches) is a constant, and "" is a value the parser discards.           *)
(***************************************************************************)
EXTENDS Integers, SequencesExt

CONSTANTS
    Lines,           \* the lines a file is made of: [name, value]
    MaxLines,        \* bound: lines of a file
    Specificity,     \* agent -> 0 for *, its length if it is ours, or -1
    Length,          \* pattern -> characters of it that are not wildcards
    Matches,         \* <<pattern, path>> such that the path matches
    Paths,
    Seconds,         \* value of a crawl delay -> its length
    DefaultDelay, MaxDelay, MaxRules, MaxSitemaps  \* the parser's own bounds

Names == {"blank", "comment", "other", "sitemap", "user-agent",
          "allow", "disallow", "crawl-delay"}

RobotsAssumption ==
    /\ \A line \in Lines : line.name \in Names
    /\ \A line \in Lines : line.value # "" =>
         CASE line.name = "user-agent" -> Specificity[line.value] \in Nat \cup {-1}
           [] line.name \in {"allow", "disallow"} -> Length[line.value] \in Nat
           [] line.name = "crawl-delay" -> Seconds[line.value] \in Nat
           [] OTHER -> TRUE
    /\ {MaxLines, DefaultDelay, MaxDelay, MaxRules, MaxSitemaps} \subseteq Nat

VARIABLES
    text,        \* the lines read so far
    groups,      \* the groups that are finished: [agents, rules, delay]
    agents, rules, delay, directivesStarted,   \* the group being read
    sitemaps

group == <<agents, rules, delay, directivesStarted>>
vars == <<text, groups, group, sitemaps>>

NoDelay == -1

Init ==
    /\ text = <<>> /\ groups = <<>> /\ sitemaps = <<>>
    /\ agents = {} /\ rules = <<>> /\ delay = NoDelay /\ directivesStarted = FALSE

-----------------------------------------------------------------------------
(* parseRobots: one action for each kind of line.                           *)

Line(names) ==
    /\ Len(text) < MaxLines
    /\ \E line \in Lines : line.name \in names /\ text' = Append(text, line)

Value == Last(text').value

Grouped == IF agents = {} THEN groups
           ELSE Append(groups, [agents |-> agents, rules |-> rules, delay |-> delay])

Flush == groups' = Grouped /\ rules' = <<>> /\ delay' = NoDelay /\ directivesStarted' = FALSE

\* A comment is cut off its line, so a line of comment only is an empty one.
ReadEmptyLine ==
    /\ Line({"blank", "comment"})
    /\ Flush
    /\ agents' = {}
    /\ UNCHANGED sitemaps

\* A sitemap may stand anywhere; a line without a colon, or with a name the
\* parser does not know, is passed over.
ReadUngrouped ==
    /\ Line({"sitemap", "other"})
    /\ sitemaps' = IF Last(text').name = "sitemap" /\ Value # "" /\ Len(sitemaps) < MaxSitemaps
                   THEN Append(sitemaps, Value) ELSE sitemaps
    /\ UNCHANGED <<groups, group>>

\* Agents in a row share a group; one after a directive opens the next.
ReadAgent ==
    /\ Line({"user-agent"})
    /\ agents' = (IF directivesStarted THEN {} ELSE agents) \cup ({Value} \ {""})
    /\ IF directivesStarted THEN Flush
       ELSE UNCHANGED <<groups, rules, delay, directivesStarted>>
    /\ UNCHANGED sitemaps

\* A rule without a pattern permits everything: it is dropped, but starts the
\* directives.  Directives before any agent are skipped.
ReadRule ==
    /\ Line({"allow", "disallow"})
    /\ directivesStarted' = (directivesStarted \/ agents # {})
    /\ rules' = IF agents # {} /\ Value # ""
                THEN Append(rules, [allow |-> Last(text').name = "allow", pattern |-> Value])
                ELSE rules
    /\ UNCHANGED <<groups, agents, delay, sitemaps>>

\* Mutant: a delay is read as an unknown directive would be.
ReadDelayUnstarted ==
    /\ Line({"crawl-delay"})
    /\ delay' = IF agents # {} /\ Value # ""
                THEN Min({MaxDelay, Seconds[Value]}) ELSE delay
    /\ UNCHANGED <<groups, agents, rules, directivesStarted, sitemaps>>

ReadDelay ==
    /\ Line({"crawl-delay"})
    /\ directivesStarted' = (directivesStarted \/ agents # {})
    /\ delay' = IF agents # {} /\ Value # ""
                THEN Min({MaxDelay, Seconds[Value]}) ELSE delay
    /\ UNCHANGED <<groups, agents, rules, sitemaps>>

Next == ReadEmptyLine \/ ReadUngrouped \/ ReadAgent \/ ReadRule \/ ReadDelay

Spec == Init /\ [][Next]_vars

-----------------------------------------------------------------------------
(* The policy, were the file to end here.                                   *)

Score(g) == Max({Specificity[a] : a \in g.agents})

Best(found) == Max({-1} \cup {Score(found[i]) : i \in DOMAIN found})

\* Where the groups of the best specificity are, several if they tie.
Selected ==
    {n \in DOMAIN Grouped : Best(Grouped) >= 0 /\ Score(Grouped[n]) = Best(Grouped)}

PolicyRules ==
    LET found[n \in 0 .. Len(Grouped)] ==
          IF n = 0 THEN <<>>
          ELSE IF n \in Selected THEN found[n - 1] \o Grouped[n].rules ELSE found[n - 1]
        all == found[Len(Grouped)]
    IN  SubSeq(all, 1, Min({Len(all), MaxRules}))

PolicyDelay ==
    LET declared == {Grouped[n].delay : n \in Selected} \ {NoDelay}
    IN  IF declared = {} THEN DefaultDelay ELSE Max(declared)

\* robotsAllows: the longest rule that matches, Allow winning a tie.
Stronger(chosen, rule, path) ==
    IF /\ <<rule.pattern, path>> \in Matches
       /\ \/ Length[rule.pattern] > chosen.length
          \/ Length[rule.pattern] = chosen.length /\ rule.allow
    THEN [allow |-> rule.allow, length |-> Length[rule.pattern]]
    ELSE chosen

Allowed(path) ==
    LET kept == PolicyRules
        chosen[n \in 0 .. Len(kept)] ==
          IF n = 0 THEN [allow |-> TRUE, length |-> -1]
          ELSE Stronger(chosen[n - 1], kept[n], path)
    IN  chosen[Len(kept)].allow

-----------------------------------------------------------------------------
(***************************************************************************)
(* The reference: which agents a line is addressed to is said by the text   *)
(* alone, without a parser.                                                 *)
(***************************************************************************)
Directives == {"allow", "disallow", "crawl-delay"}

\* The agent line j addresses line i: nothing separates them, and no agent
\* line between them follows a directive.
Addresses(j, i, separators) ==
    /\ text[j].name = "user-agent" /\ text[j].value # "" /\ j < i
    /\ \A k \in j .. i : text[k].name \notin separators
    /\ ~ \E d, u \in j .. i : /\ d < u /\ text[d].name \in Directives
                              /\ text[u].name = "user-agent"

Addressees(i, separators) ==
    {text[j].value : j \in {k \in DOMAIN text : Addresses(k, i, separators)}}

Strictest == Max({-1} \cup {Specificity[line.value] :
                    line \in {l \in ToSet(text) : l.name = "user-agent" /\ l.value # ""}})

\* Line i is addressed to the most specific name of ours that the file knows.
Ours(i, separators) ==
    LET names == {Specificity[a] : a \in Addressees(i, separators)}
    IN  names # {} /\ Max(names) = Strictest /\ Strictest >= 0

OurLines(names, separators) ==
    {i \in DOMAIN text : text[i].name \in names /\ text[i].value # ""
                           /\ Ours(i, separators)}

\* The rules kept: the first MaxRules of those that are ours.
OurRules(separators) ==
    LET ours == OurLines({"allow", "disallow"}, separators)
    IN  {i \in ours : Cardinality({j \in ours : j < i}) < MaxRules}

Permits(path, separators) ==
    LET hits == {i \in OurRules(separators) : <<text[i].value, path>> \in Matches}
    IN  \/ hits = {}
        \/ \E i \in hits : /\ text[i].name = "allow"
                           /\ \A j \in hits : Length[text[j].value] <= Length[text[i].value]

\* A group's last delay counts, and the longest of the groups that tie.
OurDelays ==
    LET ours == OurLines({"crawl-delay"}, {"blank", "comment"})
        Joined(i, j) == \A k \in i .. j : text[k].name \notin {"blank", "comment", "user-agent"}
    IN  {Seconds[text[i].value] : i \in {k \in ours : ~ \E j \in ours : k < j /\ Joined(k, j)}}

(***************************************************************************)
(* Properties.                                                             *)
(***************************************************************************)

\* The verdict on a path is that of the lines addressed to the crawler's most
\* specific name, wherever the file puts them, whatever lines (other agents,
\* sitemaps, discarded values) stand between and around them.
VerdictsFollowTheFile ==
    \A path \in Paths : Allowed(path) = Permits(path, {"blank", "comment"})

\* The delay kept is the longest one declared to the crawler's most specific
\* name, within the parser's bound, or the default.
DelayFollowsTheFile ==
    PolicyDelay = IF OurDelays = {} THEN DefaultDelay
                  ELSE Min({MaxDelay, Max(OurDelays)})

\* What the crawl goes by is what the file says to it: both verdicts and delay.
PolicyFollowsTheFile == VerdictsFollowTheFile /\ DelayFollowsTheFile

\* "honors allow, delay, and sitemap directives" (crawl.test.ts): a path that
\* the file disallows, comments aside, is not allowed.
DisallowIsHonored ==
    \A path \in Paths : Allowed(path) => Permits(path, {"blank"})
=============================================================================
