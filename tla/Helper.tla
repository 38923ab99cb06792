------------------------------ MODULE Helper ------------------------------
(***************************************************************************)
(* The helper processes behind fetch_content: extractGitHub runs a series  *)
(* of git commands and extractYouTubeCaptions one yt-dlp command, each in  *)
(* a scratch directory of its own and each in a process group of its own   *)
(* (detached: true).  Four fetches may be under way at once (pLimit(4)).   *)
(*                                                                         *)
(* A run ends with its `close' event: the leader has exited and nothing    *)
(* holds its pipes.  Until then an abort, the timeout, the output limit or *)
(* the disk monitor may record a pending error and send SIGTERM, with a    *)
(* SIGKILL a second later.  What follows `close' is synchronous: the next  *)
(* command is spawned, or the result is read and the directory removed.    *)
(*                                                                         *)
(* SIGTERM's only effect is that a process may exit, which it may do       *)
(* anyway, so sending it leaves no trace here but the timer.               *)
(***************************************************************************)
EXTENDS Naturals

CONSTANTS
    Captions,     \* calls of extractYouTubeCaptions
    GitHub,       \* calls of extractGitHub
    Pids,         \* process ids, which are also process group ids
    NoPid,        \* the pid of a child that could not be spawned
    Workers,      \* the kinds of process a helper may start: [grouped, piped]
    NoWorker,
    MaxRuns,      \* bound: git commands in one extraction
    MaxTimers     \* bound: kill timers of one run outstanding at once

Calls == Captions \cup GitHub

\* A process that has left the group and still holds the pipes is beyond any
\* signal the code sends; git's own daemons close their standard streams.
ASSUME HelperAssumption ==
    /\ Captions \cap GitHub = {}
    /\ NoPid \notin Pids
    /\ Workers \subseteq [grouped : BOOLEAN, piped : BOOLEAN]
    /\ [grouped |-> FALSE, piped |-> TRUE] \notin Workers
    /\ NoWorker \notin [grouped : BOOLEAN, piped : BOOLEAN, pid : Pids]
    /\ MaxRuns \in Nat \ {0}
    /\ MaxTimers \in Nat \ {0}

VARIABLES
    stage,     \* "waiting", "running" or "returned", per call
    aborted,   \* the call's AbortSignal
    scratch,   \* does the call's scratch directory exist?
    left,      \* commands still to run after the current one
    pid,       \* child.pid of the current run
    leader,    \* the child: "up", or its exit: "zero" or "nonzero"
    worker,    \* a process the helper has started and that is alive
    killed,    \* has SIGKILL ended the child of the current run?
    cause,     \* pendingError
    timers,    \* kill timers set by terminate() and not yet fired or cleared
    timeout,   \* is the command's timeout still set?
    outcome    \* what the call resolved or rejected with

vars == <<stage, aborted, scratch, left, pid, leader, worker, killed, cause,
          timers, timeout, outcome>>

(***************************************************************************)
(* Errors, and the message a caption call reports for each of them.        *)
(***************************************************************************)
Causes == {"cancelled", "timed out", "output", "limits"}

\* What may go wrong once yt-dlp has succeeded.
CaptionFailures == {"no captions", "empty track", "no metadata", "transcript"}

\* What may be refused of what git returned: refs, identity, objects, files.
GitHubFailures == {"refused"}

\* The words availabilityError looks for that each message contains.  The
\* message for "no captions" ends in "the requested languages".
Mentions ==
    [ error \in Causes \cup CaptionFailures \cup {"not started"} |->
        CASE error = "cancelled"   -> {"cancel"}
          [] error = "timed out"   -> {"timed out"}
          [] error = "output"      -> {"too much"}
          [] error = "limits"      -> {"exceed"}
          [] error = "no captions" -> {"age", "no captions"}
          [] error = "empty track" -> {"caption track is empty"}
          [] error = "transcript"  -> {"exceed"}
          [] OTHER                 -> {} ]

\* The tests of availabilityError in their order, and what each reports.
Tests == << <<"private", "private">>, <<"age", "age-restricted">>,
            <<"geo", "region">>, <<"live", "live">>, <<"rate", "rate-limited">>,
            <<"removed", "removed">>, <<"too much", "size">>,
            <<"exceed", "size">>, <<"cancel", "cancelled">>,
            <<"timed out", "timed out">>, <<"no captions", "no captions">>,
            <<"caption track is empty", "empty track">> >>

Reports == {Tests[n][2] : n \in DOMAIN Tests} \cup {"failed"}

AvailabilityError(error) ==
    LET hits == {n \in DOMAIN Tests : Tests[n][1] \in Mentions[error]}
    IN  IF hits = {} THEN "failed"
        ELSE Tests[CHOOSE n \in hits : \A m \in hits : n <= m][2]

\* A call that throws an error of its own; a failing yt-dlp says anything.
Reported(c, error) ==
    IF c \in GitHub THEN {error}
    ELSE IF aborted[c] THEN {"cancelled"}
    ELSE IF error = "status" THEN Reports
    ELSE {AvailabilityError(error)}

(***************************************************************************)
(* Processes.                                                              *)
(***************************************************************************)
Alive(c) == leader[c] = "up" \/ worker[c] # NoWorker

\* Ids are handed out in cyclic order: none is reused while a process or an
\* unsettled run still answers to it.
FreePids ==
    {p \in Pids : \A c \in Calls :
        /\ stage[c] = "running" => pid[c] # p
        /\ worker[c] # NoWorker => worker[c].pid # p}

\* process.kill(-p, "SIGKILL") ends every process of group p.
SigKill(p) ==
    LET hit == {c \in Calls : pid[c] = p /\ leader[c] = "up"}
    IN  /\ leader' = [c \in Calls |-> IF c \in hit THEN "nonzero" ELSE leader[c]]
        /\ killed' = [c \in Calls |-> killed[c] \/ c \in hit]
        /\ worker' = [c \in Calls |->
                        IF worker[c] # NoWorker
                           /\ worker[c].grouped /\ worker[c].pid = p
                        THEN NoWorker ELSE worker[c]]

(***************************************************************************)
(* A run: spawn, and what happens while the child lives.                   *)
(***************************************************************************)

\* Mutant: the listener is added to a signal that has already fired.
StartRunListening(c) ==
    \E p \in FreePids \cup {NoPid} :
        /\ pid' = [pid EXCEPT ![c] = p]
        /\ leader' = [leader EXCEPT ![c] = IF p = NoPid THEN "nonzero" ELSE "up"]
        /\ killed' = [killed EXCEPT ![c] = FALSE]
        /\ cause' = [cause EXCEPT ![c] = "none"]
        /\ timers' = [timers EXCEPT ![c] = 0]
        /\ timeout' = [timeout EXCEPT ![c] = TRUE]
        /\ stage' = [stage EXCEPT ![c] = "running"]

\* runGit and runYtDlp up to their return: an aborted signal terminates the
\* child at once, and a child that could not be spawned has no pid to signal.
StartRun(c) ==
    \E p \in FreePids \cup {NoPid} :
        /\ pid' = [pid EXCEPT ![c] = p]
        /\ leader' = [leader EXCEPT ![c] = IF p = NoPid THEN "nonzero" ELSE "up"]
        /\ killed' = [killed EXCEPT ![c] = FALSE]
        /\ cause' = [cause EXCEPT ![c] = IF aborted[c] THEN "cancelled" ELSE "none"]
        /\ timers' = [timers EXCEPT ![c] = IF aborted[c] /\ p # NoPid THEN 1 ELSE 0]
        /\ timeout' = [timeout EXCEPT ![c] = TRUE]
        /\ stage' = [stage EXCEPT ![c] = "running"]

\* The call makes its directory and spawns its first command.
Begin(c) ==
    /\ stage[c] = "waiting"
    /\ scratch' = [scratch EXCEPT ![c] = TRUE]
    /\ \E n \in IF c \in GitHub THEN 0 .. MaxRuns - 1 ELSE {0} :
           left' = [left EXCEPT ![c] = n]
    /\ StartRun(c)
    /\ UNCHANGED <<aborted, worker, outcome>>

\* Mutant: the last error is kept instead of the first.
TerminateLastError(C, error) ==
    /\ \A c \in C : timers[c] < MaxTimers
    /\ cause' = [c \in Calls |-> IF c \in C THEN error ELSE cause[c]]
    /\ timers' = [c \in Calls |-> IF c \in C /\ pid[c] # NoPid THEN timers[c] + 1
                                  ELSE timers[c]]

\* Mutant: SIGTERM without the SIGKILL.
TerminateGently(C, error) ==
    /\ \A c \in C : timers[c] < MaxTimers
    /\ cause' = [c \in Calls |-> IF c \in C /\ cause[c] = "none" THEN error ELSE cause[c]]
    /\ timers' = timers

\* terminate() in the runs of C: every call of it sets another timer.
Terminate(C, error) ==
    /\ \A c \in C : timers[c] < MaxTimers
    /\ cause' = [c \in Calls |-> IF c \in C /\ cause[c] = "none" THEN error ELSE cause[c]]
    /\ timers' = [c \in Calls |-> IF c \in C /\ pid[c] # NoPid THEN timers[c] + 1
                                  ELSE timers[c]]

\* A signal given to the calls of C fires; a run listens to it while it lasts.
Abort(C) ==
    /\ \E c \in C : ~aborted[c]
    /\ aborted' = [c \in Calls |-> aborted[c] \/ c \in C]
    /\ Terminate({c \in C : stage[c] = "running"}, "cancelled")
    /\ UNCHANGED <<stage, scratch, left, pid, leader, worker, killed, timeout, outcome>>

TimedOut(c) ==
    /\ stage[c] = "running"
    /\ timeout[c]
    /\ Terminate({c}, "timed out")
    /\ timeout' = [timeout EXCEPT ![c] = FALSE]
    /\ UNCHANGED <<stage, aborted, scratch, left, pid, leader, worker, killed, outcome>>

\* collect(): each further chunk terminates again.
TooMuchOutput(c) ==
    /\ stage[c] = "running"
    /\ pid[c] # NoPid
    /\ Terminate({c}, "output")
    /\ UNCHANGED <<stage, aborted, scratch, left, pid, leader, worker, killed,
                   timeout, outcome>>

\* diskMonitor and tempMonitor: every 100 ms, again and again.
OverLimits(c) ==
    /\ stage[c] = "running"
    /\ Terminate({c}, "limits")
    /\ UNCHANGED <<stage, aborted, scratch, left, pid, leader, worker, killed,
                   timeout, outcome>>

\* Mutant: the timer does not look at `closed'.
KillTimerRegardless(c) ==
    /\ timers[c] > 0
    /\ timers' = [timers EXCEPT ![c] = @ - 1]
    /\ SigKill(pid[c])
    /\ UNCHANGED <<stage, aborted, scratch, left, pid, cause, timeout, outcome>>

\* A timer of a run that has closed does nothing.
KillTimer(c) ==
    /\ timers[c] > 0
    /\ timers' = [timers EXCEPT ![c] = @ - 1]
    /\ IF stage[c] = "running" THEN SigKill(pid[c])
       ELSE UNCHANGED <<leader, killed, worker>>
    /\ UNCHANGED <<stage, aborted, scratch, left, pid, cause, timeout, outcome>>

\* The helper starts a process of its own.
Fork(c) ==
    /\ stage[c] = "running"
    /\ leader[c] = "up"
    /\ worker[c] = NoWorker
    /\ \E w \in Workers :
           worker' = [worker EXCEPT ![c] =
                         [grouped |-> w.grouped, piped |-> w.piped, pid |-> pid[c]]]
    /\ UNCHANGED <<stage, aborted, scratch, left, pid, leader, killed, cause,
                   timers, timeout, outcome>>

ChildExits(c) ==
    /\ leader[c] = "up"
    /\ \E code \in {"zero", "nonzero"} : leader' = [leader EXCEPT ![c] = code]
    /\ UNCHANGED <<stage, aborted, scratch, left, pid, worker, killed, cause,
                   timers, timeout, outcome>>

WorkerExits(c) ==
    /\ worker[c] # NoWorker
    /\ worker' = [worker EXCEPT ![c] = NoWorker]
    /\ UNCHANGED <<stage, aborted, scratch, left, pid, leader, killed, cause,
                   timers, timeout, outcome>>

(***************************************************************************)
(* The end of a run.                                                       *)
(***************************************************************************)

\* The finally block: rmSync meets no other writer when the processes of the
\* call are gone, and may fail, throwing in its turn, when one is left.
\* `close' has cleared the last timer; earlier ones are still set.
Return(c, results) ==
    /\ stage' = [stage EXCEPT ![c] = "returned"]
    /\ timers' = [timers EXCEPT ![c] = IF @ > 0 THEN @ - 1 ELSE 0]
    /\ timeout' = [timeout EXCEPT ![c] = FALSE]
    /\ \/ /\ scratch' = [scratch EXCEPT ![c] = FALSE]
          /\ \E r \in results : outcome' = [outcome EXCEPT ![c] = r]
       \/ /\ Alive(c)
          /\ scratch' = scratch
          /\ outcome' = [outcome EXCEPT ![c] = "not removed"]
    /\ UNCHANGED <<aborted, left, pid, leader, worker, killed, cause>>

\* Mutant: `exit' instead of `close'.
Exited(c) ==
    /\ stage[c] = "running"
    /\ leader[c] # "up"

\* `close': the child has exited and no process holds the pipes of the run.
Closed(c) ==
    /\ stage[c] = "running"
    /\ leader[c] # "up"
    /\ worker[c] # NoWorker => ~ worker[c].piped

Succeeded(c) == cause[c] = "none" /\ leader[c] = "zero"

\* The `error' event of spawn, whatever error is pending; or the executor has
\* thrown, at spawn or at a child.stdout there were no descriptors for.
NotStarted(c) ==
    /\ stage[c] = "running"
    /\ pid[c] = NoPid
    /\ Return(c, Reported(c, "not started"))

RunFails(c) ==
    /\ Closed(c)
    /\ pid[c] # NoPid
    /\ ~ Succeeded(c)
    /\ Return(c, Reported(c, IF cause[c] = "none" THEN "status" ELSE cause[c]))

\* extractGitHub goes on to its next command.
RunNext(c) ==
    /\ Closed(c)
    /\ Succeeded(c)
    /\ left[c] > 0
    /\ left' = [left EXCEPT ![c] = @ - 1]
    /\ StartRun(c)
    /\ UNCHANGED <<aborted, scratch, worker, outcome>>

\* The repository or the captions are read and returned.
ReadResult(c) ==
    /\ Closed(c)
    /\ Succeeded(c)
    /\ left[c] = 0
    /\ Return(c, {"content"})

\* What was returned is refused: for git after any of its commands.
RefuseResult(c) ==
    /\ Closed(c)
    /\ Succeeded(c)
    /\ \E error \in IF c \in GitHub THEN GitHubFailures ELSE CaptionFailures :
           Return(c, Reported(c, error))

\* The helper is not installed: the call throws before it makes a directory.
Unavailable(c) ==
    /\ stage[c] = "waiting"
    /\ stage' = [stage EXCEPT ![c] = "returned"]
    /\ outcome' = [outcome EXCEPT ![c] = "unavailable"]
    /\ UNCHANGED <<aborted, scratch, left, pid, leader, worker, killed, cause,
                   timers, timeout>>

(***************************************************************************)
(* The specification.                                                      *)
(***************************************************************************)
Init ==
    /\ stage = [c \in Calls |-> "waiting"]
    /\ aborted = [c \in Calls |-> FALSE]
    /\ scratch = [c \in Calls |-> FALSE]
    /\ left = [c \in Calls |-> 0]
    /\ pid = [c \in Calls |-> NoPid]
    /\ leader = [c \in Calls |-> "nonzero"]
    /\ worker = [c \in Calls |-> NoWorker]
    /\ killed = [c \in Calls |-> FALSE]
    /\ cause = [c \in Calls |-> "none"]
    /\ timers = [c \in Calls |-> 0]
    /\ timeout = [c \in Calls |-> FALSE]
    /\ outcome = [c \in Calls |-> "none"]

Settle(c) == NotStarted(c) \/ RunFails(c) \/ RunNext(c) \/ ReadResult(c) \/ RefuseResult(c)

\* What happens to a call once it has begun, its signal apart.
Proceed(c) ==
    \/ TimedOut(c) \/ TooMuchOutput(c) \/ OverLimits(c) \/ KillTimer(c)
    \/ Fork(c) \/ ChildExits(c) \/ WorkerExits(c)
    \/ Settle(c)

Next ==
    \E c \in Calls :
        \/ Begin(c) \/ Unavailable(c)
        \/ stage[c] # "returned" /\ Abort({c})
        \/ Proceed(c)

Spec == Init /\ [][Next]_vars

-----------------------------------------------------------------------------
(***************************************************************************)
(* Properties.                                                             *)
(***************************************************************************)
GitHubOutcomes == Causes \cup GitHubFailures \cup {"not started", "status"}

\* The state has its types; in particular a caption call reports one of the
\* fixed messages of availabilityError, never what a helper wrote.
TypeOK ==
    /\ stage \in [Calls -> {"waiting", "running", "returned"}]
    /\ aborted \in [Calls -> BOOLEAN]
    /\ scratch \in [Calls -> BOOLEAN]
    /\ left \in [Calls -> 0 .. MaxRuns - 1]
    /\ pid \in [Calls -> Pids \cup {NoPid}]
    /\ leader \in [Calls -> {"up", "zero", "nonzero"}]
    /\ worker \in [Calls -> [grouped : BOOLEAN, piped : BOOLEAN, pid : Pids]
                               \cup {NoWorker}]
    /\ killed \in [Calls -> BOOLEAN]
    /\ cause \in [Calls -> Causes \cup {"none"}]
    /\ timers \in [Calls -> 0 .. MaxTimers]
    /\ timeout \in [Calls -> BOOLEAN]
    /\ outcome \in [Calls -> {"none", "content", "unavailable", "not removed"}
                                \cup GitHubOutcomes \cup Reports]
    /\ \A c \in Captions : outcome[c] \notin GitHubOutcomes \ Reports

\* A scratch directory is not removed under a process that holds the pipes of
\* its call: cancelling waits for `close', however the signals and the exits
\* of child and workers interleave.
RemovedAfterClose ==
    \A c \in Calls :
        stage[c] = "returned" =>
            leader[c] # "up" /\ (worker[c] # NoWorker => ~ worker[c].piped)

\* SIGKILL ends only a child whose own run has a pending error, although the
\* timers of closed runs go on firing and process ids come back into use.
KillsOnlyItsOwn == \A c \in Calls : killed[c] => cause[c] # "none"

\* A call aborted before it returned does not return content.
AbortedReturnsNothing ==
    [][\A c \in Calls :
          aborted[c] /\ stage[c] # "returned" => outcome'[c] # "content"]_vars

\* The first error to arise stands: a run that is already being ended for one
\* reason (a timeout, say) is not reported as ended for a later one.
FirstErrorStands ==
    [][\A c \in Calls :
          /\ stage[c] = "running" /\ cause[c] # "none"
          => /\ cause'[c] = cause[c]
             /\ c \in GitHub /\ stage'[c] = "returned"
                => outcome'[c] \in {cause[c], "not started", "not removed"}]_vars

\* What the error thrown for missing captions says, and the message kept for
\* it: a video whose helper succeeded is not reported as age-restricted.  The
\* test for "age" finds it in "languages" before "no captions" is tried.
NoCaptionsIsReported ==
    [][\A c \in Captions :
          outcome'[c] = "age-restricted" /\ outcome[c] = "none"
          => leader[c] = "nonzero"]_vars
=============================================================================
