---------------------------- MODULE FetchContent ----------------------------
(***************************************************************************)
(* fetch_content of extensions/web-access/index.ts over the helpers and the *)
(* browser: at most Concurrency URLs at a time (pLimit), each of them       *)
(* extracted by its helper, or rendered by a browser call where there is no *)
(* helper for it or the helper gives nothing (fetchWithGecko, extract.ts).  *)
(* Promise.all settles the operation; what is queued or running after that  *)
(* goes on.                                                                 *)
(*                                                                          *)
(* A URL of GitHub or of Captions is its own helper call.  Where the helper *)
(* is not installed, and in raw mode, a URL is one of Pages.  What follows  *)
(* the end of a helper or of a browser call runs in the same turn of the    *)
(* event loop, hence in the same step; only a PDF takes more turns.         *)
(***************************************************************************)
EXTENDS Helper, SequencesExt

CONSTANTS
    Inputs,       \* the values of input.urls, sequences
    Pages,        \* URLs that are rendered without a helper
    Malformed,    \* URLs on github.com whose path parseGitHubUrl throws at
    Concurrency   \* the bound given to pLimit

Urls == Calls \cup Pages \cup Malformed

ASSUME FetchAssumption ==
    /\ \A urls \in Inputs : IsInjective(urls) /\ ToSet(urls) \subseteq Urls
    /\ Calls \cap Pages = {} /\ Malformed \cap (Calls \cup Pages) = {}
    /\ Concurrency \in Nat \ {0}

VARIABLES
    input,              \* input.urls
    forced, answers,    \* forceClone, and mode is "answer"
    cancelled,          \* the operation's signal
    operation,          \* "new", "refused", "fetching", "answering", "resolved"
                        \* or "rejected"
    task,               \* URL -> "queued", "helper", "render", "pdf", "done" or
                        \* "rejected"
    document,           \* URL -> where its document comes from
    child, output, listening, settled, lost

Browser == INSTANCE BrowserCall WITH Renders <- Urls

browserVars == <<child, output, listening, settled, lost>>
fetchVars == <<input, forced, answers, cancelled, operation, task, document>>

FetchInit ==
    /\ Init
    /\ Browser!Init
    /\ input \in Inputs
    /\ forced \in BOOLEAN
    /\ answers \in BOOLEAN
    /\ cancelled = FALSE
    /\ operation = "new"
    /\ task = [u \in Urls |-> "queued"]
    /\ document = [u \in Urls |-> "none"]

-----------------------------------------------------------------------------
(* The operation, and its tasks.                                            *)

\* forceClone is for URLs parseGitHubUrl recognises, all of them; it throws
\* at others.
Accept ==
    /\ operation = "new"
    /\ operation' = IF forced /\ ~ ToSet(input) \subseteq GitHub THEN "refused" ELSE "fetching"
    /\ UNCHANGED <<input, forced, answers, cancelled, task, document, vars, browserVars>>

Active == {u \in Urls : task[u] \in {"helper", "render", "pdf"}}

\* Mutant: only helpers are counted.
NextUpUncounted(u) ==
    /\ operation \notin {"new", "refused"}
    /\ Cardinality({v \in Urls : task[v] = "helper"}) < Concurrency
    /\ \E j \in DOMAIN input :
         /\ input[j] = u /\ task[u] = "queued"
         /\ \A i \in 1 .. j - 1 : task[input[i]] # "queued"

\* The first URL that waits, once fewer than Concurrency are under way.
NextUp(u) ==
    /\ operation \notin {"new", "refused"}
    /\ Cardinality(Active) < Concurrency
    /\ \E j \in DOMAIN input :
         /\ input[j] = u /\ task[u] = "queued"
         /\ \A i \in 1 .. j - 1 : task[input[i]] # "queued"

\* The last document settles the operation, unless a rejection has.
Deliver(u, from) ==
    /\ task' = [task EXCEPT ![u] = "done"]
    /\ document' = [document EXCEPT ![u] = from]
    /\ operation' = IF operation = "fetching" /\ \A v \in ToSet(input) \ {u} : task[v] = "done"
                    THEN IF answers THEN "answering" ELSE "resolved"
                    ELSE operation

\* The first rejection settles it.
RejectAll(C) ==
    /\ task' = [u \in Urls |-> IF u \in C THEN "rejected" ELSE task[u]]
    /\ operation' = IF operation = "fetching" /\ C # {} THEN "rejected" ELSE operation
    /\ UNCHANGED document

\* fetchWithGecko, up to the browser call; one that rejects at once ends in an
\* error document, or fails where the signal has fired.
Render(u) ==
    /\ Browser!Call(u, cancelled)
    /\ IF settled'[u] = "no"
       THEN /\ task' = [task EXCEPT ![u] = "render"]
            /\ UNCHANGED <<operation, document>>
       ELSE IF cancelled THEN RejectAll({u}) ELSE Deliver(u, "error")

\* Mutant: captions that cannot be had fail the operation.
HelperFailedThrows(u) ==
    IF u \in GitHub /\ ~forced THEN Render(u)
    ELSE RejectAll({u}) /\ UNCHANGED browserVars

\* What a URL's failure leads to: a render, unless a clone was asked for.
HelperFailed(u) ==
    IF u \in GitHub /\ forced THEN RejectAll({u}) /\ UNCHANGED browserVars
    ELSE Render(u)

\* extract: the continuation of a helper call, if it has just returned.
AfterHelper(u) ==
    CASE stage'[u] = stage[u] -> UNCHANGED <<task, operation, document, browserVars>>
      [] stage'[u] = "running" /\ stage[u] # "running" ->
           /\ task' = [task EXCEPT ![u] = "helper"]
           /\ UNCHANGED <<operation, document, browserVars>>
      [] stage'[u] = "returned" /\ stage[u] # "returned" ->
           IF outcome'[u] = "content" THEN Deliver(u, "helper") /\ UNCHANGED browserVars
           ELSE HelperFailed(u)

StartHelper(u) ==
    /\ u \in Calls
    /\ NextUp(u)
    /\ Begin(u) \/ Unavailable(u)
    /\ AfterHelper(u)
    /\ UNCHANGED <<input, forced, answers, cancelled>>

StartRender(u) ==
    /\ u \in Pages
    /\ NextUp(u)
    /\ Render(u)
    /\ UNCHANGED <<input, forced, answers, cancelled, vars>>

\* extract throws before its try: the operation fails with the URL.
StartMalformed(u) ==
    /\ u \in Malformed
    /\ NextUp(u)
    /\ RejectAll({u})
    /\ UNCHANGED <<input, forced, answers, cancelled, vars, browserVars>>

Continue(u, step) ==
    /\ step
    /\ AfterHelper(u)
    /\ UNCHANGED <<input, forced, answers, cancelled>>

HelperProceeds(u) == u \in Calls /\ Continue(u, Proceed(u))

\* The last command of u could not be spawned.
Unstarted(u) == stage[u] # "waiting" /\ pid[u] = NoPid /\ outcome[u] # "unavailable"

\* If it was for want of descriptors, child.stdout.on has thrown before there
\* was a listener for the `error' event, which comes before or after the end of
\* the call.  Helper does not tell the errors of spawn apart: any may be this one.
HelperErrorUnheard(u) ==
    /\ u \in Calls
    /\ Unstarted(u)
    /\ lost' = TRUE
    /\ UNCHANGED <<vars, fetchVars, child, output, listening, settled>>

\* fetchWithGecko: an error is a document, as is a page that cannot be read.
AfterRender(u) ==
    IF settled'[u] = settled[u] THEN UNCHANGED <<task, operation, document>>
    ELSE \/ \E from \in IF settled'[u] = "result" THEN {"page", "error"} ELSE {"error"} :
                Deliver(u, from)
         \/ /\ settled'[u] = "result"
            /\ task' = [task EXCEPT ![u] = "pdf"]
            /\ UNCHANGED <<operation, document>>

RenderProceeds(u) ==
    /\ Browser!Step(u)
    /\ AfterRender(u)
    /\ UNCHANGED <<input, forced, answers, cancelled, vars>>

\* The text of a PDF has been extracted, whatever the signal; or it cannot be,
\* which the signal makes a rejection.
ReadPdf(u) ==
    /\ task[u] = "pdf"
    /\ \/ Deliver(u, "page")
       \/ IF cancelled THEN RejectAll({u}) ELSE Deliver(u, "error")
    /\ UNCHANGED <<input, forced, answers, cancelled, vars, browserVars>>

\* The signal fires while the operation or what it left is under way: helpers
\* are terminated, browser calls reject and with them their tasks.
Cancel ==
    /\ ~cancelled
    /\ operation \in {"fetching", "answering"} \/ Active # {}
    /\ cancelled' = TRUE
    /\ IF Calls = {} THEN UNCHANGED vars ELSE Abort(Calls)
    /\ Browser!AbortCalls(Urls)
    /\ RejectAll({u \in Urls : task[u] = "render" /\ settled'[u] # settled[u]})
    /\ UNCHANGED <<input, forced, answers>>

\* answerFromPage of one document: an error replaces the document's content,
\* that of a cancelled completion like any other; error documents stay.
Answer(u) ==
    /\ operation = "answering"
    /\ document[u] \in {"helper", "page", "error"}
    /\ \E from \in IF document[u] = "error" THEN {"no answer"}
                   ELSE {"answer", "answer failed"} :
           document' = [document EXCEPT ![u] = from]
    /\ operation' = IF \A v \in ToSet(input) \ {u} :
                         document[v] \in {"answer", "answer failed", "no answer"}
                    THEN "resolved" ELSE operation
    /\ UNCHANGED <<input, forced, answers, cancelled, task, vars, browserVars>>

-----------------------------------------------------------------------------
FetchNext ==
    /\ ~lost
    /\ \/ Accept \/ Cancel
       \/ \E u \in Urls :
            \/ StartHelper(u) \/ StartRender(u) \/ StartMalformed(u)
            \/ HelperProceeds(u) \/ HelperErrorUnheard(u)
            \/ RenderProceeds(u) \/ ReadPdf(u) \/ Answer(u)

allVars == <<vars, fetchVars, browserVars>>

\* The event loop runs what is due and delivers what has happened.  Nothing
\* is assumed of git, yt-dlp and the browser; a completion that was given a
\* signal that has fired comes back.
FetchFairness ==
    /\ \A u \in Urls :
         /\ WF_allVars(~lost /\ (StartHelper(u) \/ StartRender(u) \/ StartMalformed(u)))
         /\ WF_allVars(~lost /\ ReadPdf(u))
         /\ WF_allVars(~lost /\ cancelled /\ Answer(u))
    /\ \A u \in Calls :
         /\ WF_allVars(~lost /\ Continue(u, TimedOut(u)))
         /\ WF_allVars(~lost /\ Continue(u, KillTimer(u)))
         /\ WF_allVars(~lost /\ Continue(u, Settle(u)))

FetchSpec == FetchInit /\ [][FetchNext]_allVars /\ FetchFairness

-----------------------------------------------------------------------------
(***************************************************************************)
(* Properties.                                                             *)
(***************************************************************************)
Sources == {"none", "helper", "page", "error", "answer", "answer failed", "no answer"}

FetchTypeOK ==
    /\ TypeOK
    /\ forced \in BOOLEAN /\ answers \in BOOLEAN /\ cancelled \in BOOLEAN
    /\ operation \in {"new", "refused", "fetching", "answering", "resolved", "rejected"}
    /\ task \in [Urls -> {"queued", "helper", "render", "pdf", "done", "rejected"}]
    /\ document \in [Urls -> Sources]
    /\ Cardinality(Active) <= Concurrency
    /\ Browser!BrowserTypeOK

\* One URL's failure does not cost the others: the operation fails only if it
\* was cancelled, if clones were asked for, or at a malformed GitHub path.  An
\* `error' event without a listener, which ends the agent, is otherwise one of
\* a process there were no descriptors for, at any time; for any other error
\* of a browser call's spawn it comes only after a cancelled operation has failed.
FailsForAReason ==
    /\ operation = "rejected" =>
         cancelled \/ forced \/ \E u \in Malformed : task[u] = "rejected"
    /\ lost => \/ cancelled /\ operation = "rejected"
               \/ \E u \in Urls : child[u] = "starved"
               \/ \E u \in Calls : Unstarted(u)

\* An operation that goes on to its answers or resolves has the document of
\* every URL, none from a helper that was ended or a response that was cut
\* off, and no helper of it runs any more.
WholeOrNothing ==
    operation \in {"answering", "resolved"} =>
        /\ \A u \in ToSet(input) : task[u] = "done" /\ document[u] # "none"
        /\ \A u \in Urls : document[u] = "page" => output[u] = "read"
        /\ \A u \in Calls : /\ stage[u] # "running"
                            /\ document[u] = "helper" => outcome[u] = "content"

\* An operation cancelled while it fetches settles, whatever helpers and browser
\* do, and fails unless all it waits for is the text of PDFs; or the agent dies.
CancelReturns ==
    /\ cancelled /\ operation = "fetching" ~> operation # "fetching" \/ lost
    /\ cancelled /\ operation = "fetching" /\ (\A u \in Urls : task[u] # "pdf")
       ~> operation = "rejected" \/ lost

\* And so does all it left behind: no URL waits or is under way for ever.
NothingIsLeftBehind ==
    cancelled ~> \/ lost
                 \/ /\ \A u \in ToSet(input) : task[u] \in {"done", "rejected"}
                    /\ \A u \in Calls : stage[u] # "running"

\* A cancel ends the operation and everything it has started.
CancelEndsEverything == CancelReturns /\ NothingIsLeftBehind

\* A helper call that has started returns, whatever the helper does, also when
\* the operation has already failed.
HelpersReturn ==
    \A c \in Calls : stage[c] = "running" ~> stage[c] = "returned" \/ lost
=============================================================================
