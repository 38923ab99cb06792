------------------------------- MODULE Pacing -------------------------------
(***************************************************************************)
(* The pace of a crawl: fetchRaw, abortableDelay and the delays that        *)
(* robotsForOrigin reads (extensions/web-access/crawl.ts).  Each origin has *)
(* a queue of its own, served one request at a time; a request waits until  *)
(* originNextRequest.  Time is counted in units; a timer may be late.  The  *)
(* system clock is not set back or forward.                                 *)
(***************************************************************************)
EXTENDS Integers

CONSTANTS
    Origins,
    Delays,          \* the crawl delays a robots.txt may declare
    DefaultDelay,    \* DEFAULT_CRAWL_DELAY_MS, in units
    MaxTime,         \* bound: the clock
    MaxPages         \* bound: page requests waiting at an origin

VARIABLES
    now, aborted,
    waiting,         \* origin -> page requests in its queue
    serving,         \* origin -> "idle", "delayed" or "fetching"
    due,             \* origin -> when the delay of its request ends
    originNextRequest,
    originDelays,    \* origin -> its crawl delay, once robots.txt is read
    answered         \* history: origin -> when its last request was answered

vars == <<now, aborted, waiting, serving, due, originNextRequest, originDelays, answered>>

Unknown == -1
Never == -1

PacingAssumption ==
    /\ Delays \subseteq Nat
    /\ {DefaultDelay, MaxTime, MaxPages} \subseteq Nat

Init ==
    /\ now = 0 /\ aborted = FALSE
    /\ waiting = [o \in Origins |-> 0]
    /\ serving = [o \in Origins |-> "idle"]
    /\ due = [o \in Origins |-> 0]
    /\ originNextRequest = [o \in Origins |-> 0]
    /\ originDelays = [o \in Origins |-> Unknown]
    /\ answered = [o \in Origins |-> Never]

Tick ==
    /\ now < MaxTime
    /\ now' = now + 1
    /\ UNCHANGED <<aborted, waiting, serving, due, originNextRequest, originDelays,
                   answered>>

Abort ==
    /\ ~ aborted
    /\ aborted' = TRUE
    /\ UNCHANGED <<now, waiting, serving, due, originNextRequest, originDelays, answered>>

\* A page of the origin is to be fetched: its robots.txt has been read.
Request(o) ==
    /\ originDelays[o] # Unknown
    /\ waiting[o] < MaxPages
    /\ waiting' = [waiting EXCEPT ![o] = @ + 1]
    /\ UNCHANGED <<now, aborted, serving, due, originNextRequest, originDelays, answered>>

\* The first request of the origin is the one for its robots.txt.
Pending(o) == waiting[o] > 0 \/ originDelays[o] = Unknown

\* The turn of the next request: a delay, or the fetch at once.
Serve(o) ==
    /\ serving[o] = "idle"
    /\ Pending(o)
    /\ ~ aborted
    /\ due' = [due EXCEPT ![o] = originNextRequest[o]]
    /\ serving' = [serving EXCEPT ![o] =
                      IF originNextRequest[o] <= now THEN "fetching" ELSE "delayed"]
    /\ UNCHANGED <<now, aborted, waiting, originNextRequest, originDelays, answered>>

\* The timer of the delay.
DelayEnds(o) ==
    /\ serving[o] = "delayed"
    /\ now >= due[o]
    /\ serving' = [serving EXCEPT ![o] = "fetching"]
    /\ UNCHANGED <<now, aborted, waiting, due, originNextRequest, originDelays, answered>>

\* Mutant: a delayed request does not listen to the signal.
RejectUndelayed(o) ==
    /\ aborted
    /\ serving[o] = "fetching" \/ (serving[o] = "idle" /\ waiting[o] > 0)
    /\ serving' = [serving EXCEPT ![o] = "idle"]
    /\ waiting' = [waiting EXCEPT ![o] = IF @ > 0 THEN @ - 1 ELSE 0]
    /\ UNCHANGED <<now, aborted, due, originNextRequest, originDelays, answered>>

\* An abort rejects the request being delayed or fetched and, in their turn,
\* those behind it; an unread robots.txt then counts as unavailable.
Reject(o) ==
    /\ aborted
    /\ serving[o] # "idle" \/ waiting[o] > 0
    /\ serving' = [serving EXCEPT ![o] = "idle"]
    /\ waiting' = [waiting EXCEPT ![o] = IF @ > 0 THEN @ - 1 ELSE 0]
    /\ UNCHANGED <<now, aborted, due, originNextRequest, originDelays, answered>>

Answered(o) ==
    /\ serving[o] = "fetching"
    /\ serving' = [serving EXCEPT ![o] = "idle"]
    /\ answered' = [answered EXCEPT ![o] = now]
    /\ UNCHANGED <<now, aborted, due>>

\* Mutant: the delay that was declared counts from the first page on.
AnswerRobotsLate(o) ==
    /\ originDelays[o] = Unknown
    /\ Answered(o)
    /\ \E delay \in Delays \cup {DefaultDelay} :
         /\ originDelays' = [originDelays EXCEPT ![o] = delay]
         /\ originNextRequest' = [originNextRequest EXCEPT ![o] = now + DefaultDelay]
    /\ UNCHANGED waiting

\* fetchRaw sets the default, and the policy replaces it in the same turn.
AnswerRobots(o) ==
    /\ originDelays[o] = Unknown
    /\ Answered(o)
    /\ \E delay \in Delays \cup {DefaultDelay} :
         /\ originDelays' = [originDelays EXCEPT ![o] = delay]
         /\ originNextRequest' = [originNextRequest EXCEPT ![o] = now + delay]
    /\ UNCHANGED waiting

AnswerPage(o) ==
    /\ originDelays[o] # Unknown
    /\ Answered(o)
    /\ waiting' = [waiting EXCEPT ![o] = @ - 1]
    /\ originNextRequest' = [originNextRequest EXCEPT ![o] = now + originDelays[o]]
    /\ UNCHANGED originDelays

Next ==
    \/ Tick \/ Abort
    \/ \E o \in Origins : \/ Request(o) \/ Serve(o) \/ DelayEnds(o) \/ Reject(o)
                          \/ AnswerRobots(o) \/ AnswerPage(o)

Spec == Init /\ [][Next]_vars

\* The signal's listeners run; time need not pass and nothing need answer.
FairSpec == Spec /\ \A o \in Origins : WF_vars(Reject(o))

-----------------------------------------------------------------------------
(***************************************************************************)
(* Properties.                                                             *)
(***************************************************************************)

\* Between the answer to one request of an origin and the start of its next,
\* the delay the origin declared passes (or the default, if it declared none):
\* also after robots.txt itself, and whatever other origins do.
DelayKept ==
    [][\A o \in Origins :
          serving[o] # "fetching" /\ serving'[o] = "fetching" /\ answered[o] # Never
          => now - answered[o] >= originDelays[o]]_vars

\* A crawl that is cancelled waits for no crawl delay, however long.
CancelEndsDelays ==
    \A o \in Origins : aborted ~> serving[o] = "idle"
=============================================================================
