------------------------- MODULE FetchContentProofs -------------------------
(***************************************************************************)
(* Proofs about Helper and FetchContent, for any calls, process ids, kinds *)
(* of worker and URLs.                                                     *)
(*                                                                         *)
(* First the helper processes by themselves.  What keeps a SIGKILL of one  *)
(* run from the child of another is that an id belongs to one unsettled    *)
(* run at a time, and that a timer of the current run is only set with an  *)
(* error pending.                                                          *)
(***************************************************************************)
EXTENDS FetchContent, FiniteSetTheorems, WellFoundedInduction, NaturalsInduction, TLAPS

\* Does a process hold the pipes of the run besides the child?
Held(c) == worker[c] # NoWorker /\ worker[c].piped

\* A call that has not begun, or whose last spawn failed, has no process but
\* workers of earlier commands that hold no pipe.
NoChild ==
    \A c \in Calls :
        /\ stage[c] = "waiting" => pid[c] = NoPid
        /\ pid[c] = NoPid => leader[c] # "up" /\ ~ Held(c)

\* An id answers for one run under way.
OwnPids ==
    \A c, d \in Calls :
        /\ stage[c] = "running" /\ stage[d] = "running"
        /\ pid[c] = pid[d] /\ pid[c] # NoPid
        => c = d

\* What ends a run has a reason, and an abort is one.
Pending ==
    \A c \in Calls :
        /\ stage[c] = "running" /\ timers[c] > 0 => cause[c] # "none"
        /\ stage[c] = "running" /\ aborted[c] => cause[c] # "none"
        /\ stage[c] # "returned" => outcome[c] = "none"

HelperInv ==
    /\ TypeOK /\ NoChild /\ OwnPids /\ Pending
    /\ RemovedAfterClose /\ KillsOnlyItsOwn
-----------------------------------------------------------------------------
(* What calls report.                                                       *)

\* A set of numbers has a smallest: the first test of availabilityError that hits.
LEMMA Smallest ==
    ASSUME NEW T \in SUBSET Nat, T # {}
    PROVE  \E n \in T : \A m \in T : n <= m
<1> DEFINE R == {ss \in Nat \X Nat : ss[1] < ss[2]}
<1>1. OpToRel(<, Nat) = R
  BY DEF OpToRel
<1>2. IsWellFoundedOn(R, Nat)
  BY <1>1, NatLessThanWellFounded
<1>3. PICK n \in T : \A m \in T : ~ (<<m, n>> \in R)
  <2> HIDE DEF R
  <2> QED BY <1>2, WFMin
<1>4. n \in Nat /\ \A m \in T : m \in Nat /\ (m < n => <<m, n>> \in R)
  OBVIOUS
<1> HIDE DEF R
<1>5. \A m \in T : ~ (m < n)
  BY <1>3, <1>4
<1>6. \A m \in T : n <= m
  BY <1>4, <1>5
<1> QED
  BY <1>6

LEMMA AvailabilityType == ASSUME NEW error PROVE AvailabilityError(error) \in Reports
<1> DEFINE hits == {n \in DOMAIN Tests : Tests[n][1] \in Mentions[error]}
           first == CHOOSE n \in hits : \A m \in hits : n <= m
<1>1. CASE hits = {}
  BY <1>1 DEF AvailabilityError, Reports
<1>2. CASE hits # {}
  <2>1. DOMAIN Tests \in SUBSET Nat
    BY DEF Tests
  <2>2. hits \in SUBSET Nat
    BY <2>1
  <2>3. first \in hits
    <3> HIDE DEF hits
    <3> QED BY <1>2, <2>2, Smallest
  <2>4. AvailabilityError(error) = Tests[first][2]
    BY <1>2 DEF AvailabilityError
  <2>5. first \in DOMAIN Tests
    BY <2>3
  <2> HIDE DEF first
  <2> QED BY <2>4, <2>5 DEF Reports
<1> QED BY <1>1, <1>2

LEMMA ReportsType ==
    /\ "cancelled" \in Reports /\ "failed" \in Reports
    /\ {"content", "none", "unavailable", "not removed"} \cap (Reports \cup GitHubOutcomes) = {}
<1>1. /\ DOMAIN Tests = 1..12 /\ Tests[9][2] = "cancelled"
      /\ \A n \in 1..12 : Tests[n][2] \in {"private", "age-restricted", "region", "live",
           "rate-limited", "removed", "size", "cancelled", "timed out", "no captions",
           "empty track"}
  BY DEF Tests
<1>2. Reports \subseteq {"private", "age-restricted", "region", "live",
           "rate-limited", "removed", "size", "cancelled", "timed out", "no captions",
           "empty track", "failed"}
  BY <1>1 DEF Reports
<1>3. "cancelled" \in Reports /\ "failed" \in Reports
  <2>1. 9 \in 1..12
    OBVIOUS
  <2> QED BY <1>1, <2>1, Zenon DEF Reports
<1> QED
  BY <1>2, <1>3 DEF GitHubOutcomes, Causes, GitHubFailures

\* A call of git reports its error, a call of yt-dlp one of the fixed messages.
LEMMA ReportedType ==
    ASSUME NEW c \in Calls, NEW error
    PROVE  /\ c \in GitHub => Reported(c, error) = {error}
           /\ c \notin GitHub => Reported(c, error) \subseteq Reports
  BY AvailabilityType, ReportsType DEF Reported
-----------------------------------------------------------------------------
(* What the steps of a run make of the state.                               *)

LEMMA BoundsType == MaxRuns \in Nat \ {0} /\ MaxTimers \in Nat \ {0}
  BY HelperAssumption DEF HelperAssumption

LEMMA StartRunEffect ==
    ASSUME TypeOK, NEW c \in Calls, StartRun(c)
    PROVE  /\ stage' \in [Calls -> {"waiting", "running", "returned"}]
           /\ pid' \in [Calls -> Pids \cup {NoPid}]
           /\ leader' \in [Calls -> {"up", "zero", "nonzero"}]
           /\ killed' \in [Calls -> BOOLEAN]
           /\ cause' \in [Calls -> Causes \cup {"none"}]
           /\ timers' \in [Calls -> 0 .. MaxTimers]
           /\ timeout' \in [Calls -> BOOLEAN]
           /\ stage'[c] = "running" /\ ~ killed'[c]
           /\ pid'[c] \in FreePids \cup {NoPid}
           /\ pid'[c] = NoPid => leader'[c] # "up"
           /\ aborted[c] \/ timers'[c] > 0 => cause'[c] # "none"
           /\ \A d \in Calls \ {c} :
                /\ stage'[d] = stage[d] /\ pid'[d] = pid[d] /\ leader'[d] = leader[d]
                /\ killed'[d] = killed[d] /\ cause'[d] = cause[d] /\ timers'[d] = timers[d]
<1>1. PICK p \in FreePids \cup {NoPid} :
        /\ pid' = [pid EXCEPT ![c] = p]
        /\ leader' = [leader EXCEPT ![c] = IF p = NoPid THEN "nonzero" ELSE "up"]
        /\ killed' = [killed EXCEPT ![c] = FALSE]
        /\ cause' = [cause EXCEPT ![c] = IF aborted[c] THEN "cancelled" ELSE "none"]
        /\ timers' = [timers EXCEPT ![c] = IF aborted[c] /\ p # NoPid THEN 1 ELSE 0]
        /\ timeout' = [timeout EXCEPT ![c] = TRUE]
        /\ stage' = [stage EXCEPT ![c] = "running"]
  BY DEF StartRun
<1>2. p \in Pids \cup {NoPid}
  BY DEF FreePids
<1>3. 0 \in 0 .. MaxTimers /\ 1 \in 0 .. MaxTimers
  BY HelperAssumption DEF HelperAssumption
<1>4. /\ stage' \in [Calls -> {"waiting", "running", "returned"}]
      /\ pid' \in [Calls -> Pids \cup {NoPid}]
      /\ leader' \in [Calls -> {"up", "zero", "nonzero"}]
      /\ killed' \in [Calls -> BOOLEAN]
      /\ timeout' \in [Calls -> BOOLEAN]
  BY <1>1, <1>2 DEF TypeOK
<1>5. /\ cause' \in [Calls -> Causes \cup {"none"}]
      /\ timers' \in [Calls -> 0 .. MaxTimers]
  BY <1>1, <1>3 DEF TypeOK, Causes
<1>6. /\ stage'[c] = "running" /\ ~ killed'[c] /\ pid'[c] = p
      /\ leader'[c] = IF p = NoPid THEN "nonzero" ELSE "up"
      /\ cause'[c] = IF aborted[c] THEN "cancelled" ELSE "none"
      /\ timers'[c] = IF aborted[c] /\ p # NoPid THEN 1 ELSE 0
  BY <1>1 DEF TypeOK
<1>7. \A d \in Calls \ {c} :
        /\ stage'[d] = stage[d] /\ pid'[d] = pid[d] /\ leader'[d] = leader[d]
        /\ killed'[d] = killed[d] /\ cause'[d] = cause[d] /\ timers'[d] = timers[d]
  BY <1>1 DEF TypeOK
<1> QED
  BY <1>4, <1>5, <1>6, <1>7

LEMMA ReturnEffect ==
    ASSUME TypeOK, NEW c \in Calls, NEW results, Return(c, results)
    PROVE  /\ stage' \in [Calls -> {"waiting", "running", "returned"}]
           /\ scratch' \in [Calls -> BOOLEAN]
           /\ timers' \in [Calls -> 0 .. MaxTimers]
           /\ timeout' \in [Calls -> BOOLEAN]
           /\ UNCHANGED <<aborted, left, pid, leader, worker, killed, cause>>
           /\ stage'[c] = "returned"
           /\ \E result \in results \cup {"not removed"} :
                outcome' = [outcome EXCEPT ![c] = result]
           /\ \A d \in Calls \ {c} : stage'[d] = stage[d] /\ timers'[d] = timers[d]
<1>1. \A n \in 0 .. MaxTimers : (IF n > 0 THEN n - 1 ELSE 0) \in 0 .. MaxTimers
  BY HelperAssumption DEF HelperAssumption
<1> QED
  BY <1>1 DEF Return, TypeOK

LEMMA TerminateEffect ==
    ASSUME TypeOK, NEW C \in SUBSET Calls, NEW error \in Causes, Terminate(C, error)
    PROVE  /\ cause' \in [Calls -> Causes \cup {"none"}]
           /\ timers' \in [Calls -> 0 .. MaxTimers]
           /\ \A c \in C : cause'[c] # "none"
           /\ \A c \in Calls : cause[c] # "none" => cause'[c] = cause[c]
           /\ \A c \in Calls \ C : cause'[c] = cause[c] /\ timers'[c] = timers[c]
<1>1. \A c \in C : timers[c] \in 0 .. MaxTimers /\ timers[c] + 1 \in 0 .. MaxTimers
  <2>1. MaxTimers \in Nat
    BY HelperAssumption DEF HelperAssumption
  <2>2. \A c \in C : timers[c] \in 0 .. MaxTimers /\ timers[c] < MaxTimers
    BY DEF Terminate, TypeOK
  <2> QED BY <2>1, <2>2
<1> QED
  BY <1>1 DEF Terminate, TypeOK, Causes

LEMMA SigKillEffect ==
    ASSUME TypeOK, NEW p, SigKill(p)
    PROVE  /\ leader' \in [Calls -> {"up", "zero", "nonzero"}]
           /\ killed' \in [Calls -> BOOLEAN]
           /\ worker' \in [Calls -> [grouped : BOOLEAN, piped : BOOLEAN, pid : Pids]
                                      \cup {NoWorker}]
           /\ \A c \in Calls :
                /\ leader'[c] = leader[c] \/ leader'[c] # "up"
                /\ killed'[c] => killed[c] \/ (pid[c] = p /\ leader[c] = "up")
                /\ worker'[c] \in {worker[c], NoWorker}
  BY DEF SigKill, TypeOK

\* What the caller of a helper sees: fixed words for captions, any of git's
\* errors for a repository.
Outcomes(c) ==
    {"none", "content", "unavailable", "not removed"}
      \cup (IF c \in GitHub THEN GitHubOutcomes ELSE Reports)

LEMMA OutcomesType ==
    ASSUME TypeOK, NEW c \in Calls, NEW result \in Outcomes(c),
           outcome' = [outcome EXCEPT ![c] = result]
    PROVE  /\ outcome' \in [Calls -> {"none", "content", "unavailable", "not removed"}
                                       \cup GitHubOutcomes \cup Reports]
           /\ \A d \in Captions : outcome'[d] \notin GitHubOutcomes \ Reports
<1>1. c \in Captions => result \notin GitHubOutcomes \ Reports
  BY HelperAssumption, ReportsType DEF HelperAssumption, Outcomes
<1>2. /\ outcome'[c] = result /\ \A d \in Calls \ {c} : outcome'[d] = outcome[d]
      /\ DOMAIN outcome' = Calls /\ outcome' = [d \in Calls |-> outcome'[d]]
  BY DEF TypeOK
<1>3. /\ \A d \in Captions : d \in Calls
      /\ result \in {"none", "content", "unavailable", "not removed"}
                      \cup GitHubOutcomes \cup Reports
  BY DEF Calls, Outcomes
<1> QED
  BY <1>1, <1>2, <1>3 DEF TypeOK

\* The results a run can end with are outcomes of its call.
LEMMA ReportedOutcome ==
    ASSUME NEW c \in Calls, NEW error, c \in GitHub => error \in GitHubOutcomes
    PROVE  Reported(c, error) \in SUBSET (Outcomes(c) \ {"none", "content"})
<1>1. CASE c \in GitHub
  <2>1. Reported(c, error) = {error} /\ error \in GitHubOutcomes
    BY <1>1, ReportedType
  <2>2. Outcomes(c) = {"none", "content", "unavailable", "not removed"} \cup GitHubOutcomes
    BY <1>1 DEF Outcomes
  <2> QED BY <2>1, <2>2, ReportsType
<1>2. CASE c \notin GitHub
  <2>1. Reported(c, error) \subseteq Reports
    BY <1>2, ReportedType
  <2>2. Outcomes(c) = {"none", "content", "unavailable", "not removed"} \cup Reports
    BY <1>2 DEF Outcomes
  <2> QED BY <2>1, <2>2, ReportsType
<1> QED BY <1>1, <1>2
-----------------------------------------------------------------------------
(* The helpers' invariant.                                                  *)

\* What happens to helpers, under the signals of any calls.
HelperStep ==
    \/ \E c \in Calls : Begin(c) \/ Unavailable(c) \/ Proceed(c)
    \/ \E C \in SUBSET Calls : Abort(C)

\* The results of the settled runs.
LEMMA SettleEffect ==
    ASSUME TypeOK, NEW c \in Calls, Settle(c), ~ RunNext(c)
    PROVE  /\ stage[c] = "running"
           /\ \/ Closed(c)
              \/ pid[c] = NoPid
           /\ \E results \in SUBSET (Outcomes(c) \ {"none"}) :
                /\ "content" \in results => Succeeded(c)
                /\ c \in GitHub /\ cause[c] # "none" => results \subseteq {cause[c], "not started"}
                /\ Return(c, results)
<1>1. CASE NotStarted(c)
  <2>1. Reported(c, "not started") \in SUBSET (Outcomes(c) \ {"none", "content"})
    BY ReportedOutcome DEF GitHubOutcomes
  <2>2. c \in GitHub => Reported(c, "not started") = {"not started"}
    BY ReportedType
  <2> QED BY <1>1, <2>1, <2>2 DEF NotStarted
<1>2. CASE RunFails(c)
  <2> DEFINE error == IF cause[c] = "none" THEN "status" ELSE cause[c]
  <2>1. error \in GitHubOutcomes
    BY DEF TypeOK, GitHubOutcomes
  <2>2. Reported(c, error) \in SUBSET (Outcomes(c) \ {"none", "content"})
    <3> HIDE DEF error
    <3> QED BY <2>1, ReportedOutcome
  <2>3. c \in GitHub => Reported(c, error) = {error}
    BY ReportedType
  <2>4. stage[c] = "running" /\ Closed(c) /\ Return(c, Reported(c, error))
    BY <1>2 DEF RunFails, Closed
  <2>5. c \in GitHub /\ cause[c] # "none" => Reported(c, error) \subseteq {cause[c], "not started"}
    BY <2>3
  <2> HIDE DEF error
  <2> QED BY <2>2, <2>4, <2>5
<1>3. CASE ReadResult(c)
  <2>1. {"content"} \in SUBSET (Outcomes(c) \ {"none"})
    BY DEF Outcomes
  <2>2. stage[c] = "running" /\ Closed(c) /\ Return(c, {"content"}) /\ Succeeded(c)
    BY <1>3 DEF ReadResult, Closed
  <2>3. cause[c] = "none"
    BY <2>2 DEF Succeeded
  <2> QED BY <2>1, <2>2, <2>3
<1>4. CASE RefuseResult(c)
  <2>1. PICK error \in IF c \in GitHub THEN GitHubFailures ELSE CaptionFailures :
          Return(c, Reported(c, error))
    BY <1>4 DEF RefuseResult
  <2>2. c \in GitHub => error \in GitHubOutcomes
    BY <2>1 DEF GitHubOutcomes
  <2>3. Reported(c, error) \in SUBSET (Outcomes(c) \ {"none", "content"})
    BY <2>2, ReportedOutcome
  <2>4. stage[c] = "running" /\ Closed(c) /\ cause[c] = "none"
    BY <1>4 DEF RefuseResult, Closed, Succeeded
  <2> QED BY <2>1, <2>3, <2>4
<1> QED BY <1>1, <1>2, <1>3, <1>4 DEF Settle

LEMMA HelperTypeStep == TypeOK /\ NoChild /\ HelperStep => TypeOK'
<1> SUFFICES ASSUME TypeOK, NoChild, HelperStep PROVE TypeOK'
  OBVIOUS
<1>1. ASSUME NEW c \in Calls, Begin(c) PROVE TypeOK'
  <2>1. left' \in [Calls -> 0 .. MaxRuns - 1]
    <3>1. PICK n \in 0 .. MaxRuns - 1 : left' = [left EXCEPT ![c] = n]
      <4>1. 0 \in 0 .. MaxRuns - 1
        BY BoundsType
      <4> QED BY <1>1, <4>1 DEF Begin
    <3> QED BY <3>1 DEF TypeOK
  <2>2. scratch' \in [Calls -> BOOLEAN]
    BY <1>1 DEF Begin, TypeOK
  <2>3. UNCHANGED <<aborted, worker, outcome>> /\ StartRun(c)
    BY <1>1 DEF Begin
  <2> QED BY <2>1, <2>2, <2>3, StartRunEffect DEF TypeOK
<1>2. ASSUME NEW c \in Calls, Unavailable(c) PROVE TypeOK'
  <2>1. /\ outcome' \in [Calls -> {"none", "content", "unavailable", "not removed"}
                                    \cup GitHubOutcomes \cup Reports]
        /\ \A d \in Captions : outcome'[d] \notin GitHubOutcomes \ Reports
    BY <1>2, OutcomesType DEF Unavailable, Outcomes
  <2> QED BY <1>2, <2>1 DEF Unavailable, TypeOK
<1>3. ASSUME NEW C \in SUBSET Calls, Abort(C) PROVE TypeOK'
  <2>1. Terminate({c \in C : stage[c] = "running"}, "cancelled") /\ "cancelled" \in Causes
    BY <1>3 DEF Abort, Causes
  <2>2. aborted' \in [Calls -> BOOLEAN]
    BY <1>3 DEF Abort, TypeOK
  <2>3. UNCHANGED <<stage, scratch, left, pid, leader, worker, killed, timeout, outcome>>
    BY <1>3 DEF Abort
  <2> QED BY <2>1, <2>2, <2>3, TerminateEffect DEF TypeOK
<1>4. ASSUME NEW c \in Calls, TimedOut(c) \/ TooMuchOutput(c) \/ OverLimits(c) PROVE TypeOK'
  <2>1. \E error \in Causes : Terminate({c}, error)
    BY <1>4 DEF TimedOut, TooMuchOutput, OverLimits, Causes
  <2>2. timeout' \in [Calls -> BOOLEAN]
    BY <1>4 DEF TimedOut, TooMuchOutput, OverLimits, TypeOK
  <2>3. UNCHANGED <<stage, aborted, scratch, left, pid, leader, worker, killed, outcome>>
    BY <1>4 DEF TimedOut, TooMuchOutput, OverLimits
  <2> QED BY <2>1, <2>2, <2>3, TerminateEffect DEF TypeOK
<1>5. ASSUME NEW c \in Calls, KillTimer(c) PROVE TypeOK'
  <2>1. timers' \in [Calls -> 0 .. MaxTimers]
    <3>1. timers[c] \in 0 .. MaxTimers /\ timers[c] > 0
      BY <1>5 DEF KillTimer, TypeOK
    <3>2. timers[c] - 1 \in 0 .. MaxTimers
      BY <3>1, BoundsType
    <3> QED BY <1>5, <3>2 DEF KillTimer, TypeOK
  <2>2. /\ leader' \in [Calls -> {"up", "zero", "nonzero"}]
        /\ killed' \in [Calls -> BOOLEAN]
        /\ worker' \in [Calls -> [grouped : BOOLEAN, piped : BOOLEAN, pid : Pids]
                                   \cup {NoWorker}]
    BY <1>5, SigKillEffect DEF KillTimer, TypeOK
  <2> QED BY <1>5, <2>1, <2>2 DEF KillTimer, TypeOK
<1>6. ASSUME NEW c \in Calls, Fork(c) PROVE TypeOK'
  <2>1. pid[c] \in Pids
    BY <1>6 DEF Fork, NoChild, TypeOK
  <2>2. PICK w \in Workers :
          worker' = [worker EXCEPT ![c] =
                       [grouped |-> w.grouped, piped |-> w.piped, pid |-> pid[c]]]
    BY <1>6 DEF Fork
  <2>3. w.grouped \in BOOLEAN /\ w.piped \in BOOLEAN
    BY HelperAssumption DEF HelperAssumption
  <2> QED BY <1>6, <2>1, <2>2, <2>3 DEF Fork, TypeOK
<1>7. ASSUME NEW c \in Calls, ChildExits(c) \/ WorkerExits(c) PROVE TypeOK'
  <2>1. CASE ChildExits(c)
    <3>1. leader' \in [Calls -> {"up", "zero", "nonzero"}]
      BY <2>1 DEF ChildExits, TypeOK
    <3>2. UNCHANGED <<stage, aborted, scratch, left, pid, worker, killed, cause,
                      timers, timeout, outcome>>
      BY <2>1 DEF ChildExits
    <3> QED BY <3>1, <3>2 DEF TypeOK
  <2>2. CASE WorkerExits(c)
    BY <2>2 DEF WorkerExits, TypeOK
  <2> QED BY <1>7, <2>1, <2>2
<1>8. ASSUME NEW c \in Calls, RunNext(c) PROVE TypeOK'
  <2>1. left' \in [Calls -> 0 .. MaxRuns - 1]
    <3>1. left[c] - 1 \in 0 .. MaxRuns - 1 /\ left' = [left EXCEPT ![c] = left[c] - 1]
      <4>1. left[c] \in 0 .. MaxRuns - 1 /\ left[c] > 0
        BY <1>8 DEF RunNext, TypeOK
      <4> QED BY <1>8, <4>1, BoundsType DEF RunNext
    <3> QED BY <3>1 DEF TypeOK
  <2>2. UNCHANGED <<aborted, scratch, worker, outcome>> /\ StartRun(c)
    BY <1>8 DEF RunNext
  <2> QED BY <2>1, <2>2, StartRunEffect DEF TypeOK
<1>9. ASSUME NEW c \in Calls, Settle(c), ~ RunNext(c) PROVE TypeOK'
  <2>1. PICK results \in SUBSET (Outcomes(c) \ {"none"}) : Return(c, results)
    BY <1>9, SettleEffect
  <2>2. PICK result \in results \cup {"not removed"} :
          outcome' = [outcome EXCEPT ![c] = result]
    BY <2>1, ReturnEffect
  <2>3. result \in Outcomes(c)
    BY <2>1, <2>2 DEF Outcomes
  <2>4. /\ outcome' \in [Calls -> {"none", "content", "unavailable", "not removed"}
                                    \cup GitHubOutcomes \cup Reports]
        /\ \A d \in Captions : outcome'[d] \notin GitHubOutcomes \ Reports
    BY <2>2, <2>3, OutcomesType
  <2> QED BY <2>1, <2>4, ReturnEffect DEF TypeOK
<1> QED
  BY <1>1, <1>2, <1>3, <1>4, <1>5, <1>6, <1>7, <1>8, <1>9 DEF HelperStep, Proceed
\* A run of c begins, its first or the next one of an extraction.
Starts(c) ==
    /\ stage[c] = "waiting" \/ (Closed(c) /\ Succeeded(c))
    /\ stage'[c] = "running" /\ ~ killed'[c]
    /\ pid'[c] \in FreePids \cup {NoPid}
    /\ pid'[c] = NoPid => leader'[c] # "up"
    /\ aborted[c] \/ timers'[c] > 0 => cause'[c] # "none"
    /\ aborted'[c] = aborted[c] /\ worker'[c] = worker[c] /\ outcome'[c] = outcome[c]
    /\ \A d \in Calls \ {c} : stage'[d] = stage[d] /\ pid'[d] = pid[d]

\* The call of c returns, without a run or at the end of one.
Ends(c) ==
    /\ \/ stage[c] = "waiting"
       \/ stage[c] = "running" /\ (Closed(c) \/ pid[c] = NoPid)
    /\ stage'[c] = "returned"
    /\ pid'[c] = pid[c] /\ leader'[c] = leader[c] /\ worker'[c] = worker[c]
    /\ killed'[c] = killed[c] /\ cause'[c] = cause[c]
    /\ outcome'[c] = "content" => stage[c] = "running" /\ Succeeded(c)
    /\ stage[c] = "running" /\ c \in GitHub /\ cause[c] # "none" =>
         outcome'[c] \in {cause[c], "not started", "not removed"}

\* Anything else: in particular a SIGKILL came from a timer that has the id.
GoesOn(c) ==
    /\ stage'[c] = stage[c] /\ pid'[c] = pid[c] /\ outcome'[c] = outcome[c]
    /\ leader'[c] = leader[c] \/ leader'[c] # "up"
    /\ Held(c)' => Held(c) \/ leader[c] = "up"
    /\ cause[c] # "none" => cause'[c] = cause[c]
    /\ stage[c] = "running" /\ aborted'[c] => aborted[c] \/ cause'[c] # "none"
    /\ timers'[c] > 0 => timers[c] > 0 \/ cause'[c] # "none"
    /\ killed'[c] => \/ killed[c]
                     \/ /\ leader[c] = "up"
                        /\ \E d \in Calls : /\ stage[d] = "running" /\ timers[d] > 0
                                            /\ pid[d] = pid[c]

\* Steps of one call or of none leave the others going on.
LEMMA Elsewhere ==
    ASSUME TypeOK, NEW c \in Calls,
           stage'[c] = stage[c], pid'[c] = pid[c], outcome'[c] = outcome[c],
           leader'[c] = leader[c], worker'[c] = worker[c], cause'[c] = cause[c],
           aborted'[c] = aborted[c], timers'[c] = timers[c], killed'[c] = killed[c]
    PROVE  GoesOn(c)
  BY DEF GoesOn, Held

LEMMA Moves ==
    ASSUME TypeOK, HelperStep, NEW c \in Calls
    PROVE  Starts(c) \/ Ends(c) \/ GoesOn(c)
<1>1. ASSUME NEW d \in Calls, Begin(d) \/ RunNext(d)
      PROVE  Starts(c) \/ GoesOn(c)
  <2>1. /\ StartRun(d) /\ UNCHANGED <<aborted, worker, outcome>>
        /\ stage[d] = "waiting" \/ (Closed(d) /\ Succeeded(d))
    BY <1>1 DEF Begin, RunNext
  <2>2. CASE c = d
    BY <2>1, <2>2, StartRunEffect DEF Starts
  <2>3. CASE c # d
    BY <2>1, <2>3, StartRunEffect, Elsewhere
  <2> QED BY <2>2, <2>3
<1>2. ASSUME NEW d \in Calls, Unavailable(d) PROVE Ends(c) \/ GoesOn(c)
  <2>1. /\ UNCHANGED <<aborted, pid, leader, worker, killed, cause, timers>>
        /\ stage[d] = "waiting" /\ stage'[d] = "returned" /\ outcome'[d] = "unavailable"
        /\ \A e \in Calls \ {d} : stage'[e] = stage[e] /\ outcome'[e] = outcome[e]
    BY <1>2 DEF Unavailable, TypeOK
  <2>2. CASE c = d
    BY <2>1, <2>2 DEF Ends
  <2>3. CASE c # d
    BY <2>1, <2>3, Elsewhere
  <2> QED BY <2>2, <2>3
<1>3. ASSUME NEW d \in Calls, Settle(d), ~ RunNext(d) PROVE Ends(c) \/ GoesOn(c)
  <2>1. PICK results \in SUBSET (Outcomes(d) \ {"none"}) :
          /\ "content" \in results => Succeeded(d)
          /\ d \in GitHub /\ cause[d] # "none" => results \subseteq {cause[d], "not started"}
          /\ Return(d, results)
    BY <1>3, SettleEffect
  <2>2. PICK result \in results \cup {"not removed"} :
          outcome' = [outcome EXCEPT ![d] = result]
    BY <2>1, ReturnEffect
  <2>3. /\ UNCHANGED <<aborted, left, pid, leader, worker, killed, cause>>
        /\ stage'[d] = "returned" /\ outcome'[d] = result
        /\ \A e \in Calls \ {d} :
             stage'[e] = stage[e] /\ timers'[e] = timers[e] /\ outcome'[e] = outcome[e]
    <3>1. /\ outcome'[d] = result
          /\ \A e \in Calls \ {d} : outcome'[e] = outcome[e]
      BY <2>2 DEF TypeOK
    <3> QED BY <2>1, <3>1, ReturnEffect
  <2>4. stage[d] = "running" /\ (Closed(d) \/ pid[d] = NoPid)
    BY <1>3, SettleEffect
  <2>5. CASE c = d
    BY <2>1, <2>2, <2>3, <2>4, <2>5 DEF Ends
  <2>6. CASE c # d
    BY <2>3, <2>6, Elsewhere
  <2> QED BY <2>5, <2>6
<1>4. ASSUME NEW C \in SUBSET Calls, Abort(C) PROVE GoesOn(c)
  <2> DEFINE running == {d \in C : stage[d] = "running"}
  <2>1. /\ Terminate(running, "cancelled") /\ "cancelled" \in Causes
        /\ aborted' = [d \in Calls |-> aborted[d] \/ d \in C]
        /\ UNCHANGED <<stage, pid, leader, worker, killed, outcome>>
    BY <1>4 DEF Abort, Causes
  <2>2. running \in SUBSET Calls
    OBVIOUS
  <2>3. /\ \A d \in running : cause'[d] # "none"
        /\ \A d \in Calls : cause[d] # "none" => cause'[d] = cause[d]
        /\ \A d \in Calls \ running : cause'[d] = cause[d] /\ timers'[d] = timers[d]
    <3> HIDE DEF running
    <3> QED BY <2>1, <2>2, TerminateEffect
  <2>4. aborted'[c] => aborted[c] \/ c \in C
    BY <2>1
  <2> QED BY <2>1, <2>3, <2>4 DEF GoesOn, Held
<1>5. ASSUME NEW d \in Calls, TimedOut(d) \/ TooMuchOutput(d) \/ OverLimits(d)
      PROVE  GoesOn(c)
  <2>1. \E error \in Causes : Terminate({d}, error)
    BY <1>5 DEF TimedOut, TooMuchOutput, OverLimits, Causes
  <2>2. UNCHANGED <<stage, aborted, pid, leader, worker, killed, outcome>>
    BY <1>5 DEF TimedOut, TooMuchOutput, OverLimits
  <2>3. /\ c = d => cause'[c] # "none"
        /\ cause[c] # "none" => cause'[c] = cause[c]
        /\ c # d => cause'[c] = cause[c] /\ timers'[c] = timers[c]
    <3>1. PICK error \in Causes : Terminate({d}, error)
      BY <2>1
    <3>2. {d} \in SUBSET Calls
      OBVIOUS
    <3>3. /\ \A e \in {d} : cause'[e] # "none"
          /\ \A e \in Calls : cause[e] # "none" => cause'[e] = cause[e]
          /\ \A e \in Calls \ {d} : cause'[e] = cause[e] /\ timers'[e] = timers[e]
      BY <3>1, <3>2, TerminateEffect
    <3> QED BY <3>3
  <2> QED BY <2>2, <2>3 DEF GoesOn, Held
<1>6. ASSUME NEW d \in Calls, KillTimer(d) PROVE GoesOn(c)
  <2>1. /\ timers[d] > 0 /\ timers' = [timers EXCEPT ![d] = timers[d] - 1]
        /\ UNCHANGED <<stage, aborted, pid, cause, outcome>>
    BY <1>6 DEF KillTimer
  <2>2. timers'[c] > 0 => timers[c] > 0
    BY <2>1, BoundsType DEF TypeOK
  <2>3. CASE stage[d] = "running"
    <3>1. SigKill(pid[d])
      BY <1>6, <2>3 DEF KillTimer
    <3>2. /\ leader'[c] = leader[c] \/ leader'[c] # "up"
          /\ killed'[c] => killed[c] \/ (pid[c] = pid[d] /\ leader[c] = "up")
          /\ worker'[c] \in {worker[c], NoWorker}
      BY <3>1, SigKillEffect
    <3> QED BY <2>1, <2>2, <2>3, <3>2 DEF GoesOn, Held
  <2>4. CASE stage[d] # "running"
    <3>1. UNCHANGED <<leader, killed, worker>>
      BY <1>6, <2>4 DEF KillTimer
    <3> QED BY <2>1, <2>2, <3>1 DEF GoesOn, Held
  <2> QED BY <2>3, <2>4
<1>7. ASSUME NEW d \in Calls, Fork(d) \/ ChildExits(d) \/ WorkerExits(d) PROVE GoesOn(c)
  <2>1. /\ UNCHANGED <<stage, aborted, pid, killed, cause, timers, outcome>>
        /\ leader'[c] = leader[c] \/ leader'[c] # "up"
        /\ worker'[c] \in {worker[c], NoWorker} \/ (c = d /\ leader[c] = "up")
    BY <1>7 DEF Fork, ChildExits, WorkerExits, TypeOK
  <2> QED BY <2>1 DEF GoesOn, Held
<1> QED
  BY <1>1, <1>2, <1>3, <1>4, <1>5, <1>6, <1>7 DEF HelperStep, Proceed

LEMMA NoChildStep ==
    TypeOK /\ NoChild /\ HelperStep => NoChild'
<1> SUFFICES ASSUME TypeOK, NoChild, HelperStep, NEW c \in Calls
             PROVE  /\ stage'[c] = "waiting" => pid'[c] = NoPid
                    /\ pid'[c] = NoPid => leader'[c] # "up" /\ ~ Held(c)'
  BY DEF NoChild
<1>1. CASE Starts(c)
  BY <1>1 DEF Starts, Closed, Held, NoChild
<1>2. CASE Ends(c)
  BY <1>2 DEF Ends, Held, NoChild
<1>3. CASE GoesOn(c)
  BY <1>3 DEF GoesOn, NoChild
<1> QED BY <1>1, <1>2, <1>3, Moves

\* An id that is handed out is none of a run under way.
LEMMA OwnPidsStep == TypeOK /\ OwnPids /\ HelperStep => OwnPids'
<1> SUFFICES ASSUME TypeOK, OwnPids, HelperStep, NEW c \in Calls, NEW d \in Calls, c # d,
                    stage'[c] = "running", stage'[d] = "running",
                    pid'[c] = pid'[d], pid'[c] # NoPid
             PROVE  FALSE
  BY DEF OwnPids
<1>1. ASSUME NEW e \in Calls, Starts(e), NEW f \in Calls, f # e,
             stage'[f] = "running", pid'[e] = pid'[f], pid'[e] # NoPid
      PROVE  FALSE
  <2>1. pid'[e] \in FreePids /\ stage[f] = "running" /\ pid[f] = pid'[e]
    BY <1>1 DEF Starts
  <2> QED BY <2>1 DEF FreePids
<1>2. CASE GoesOn(c) /\ GoesOn(d)
  BY <1>2 DEF GoesOn, OwnPids
<1>3. ~ Ends(c) /\ ~ Ends(d)
  BY DEF Ends
<1> QED BY <1>1, <1>2, <1>3, Moves

LEMMA PendingStep == TypeOK /\ Pending /\ HelperStep => Pending'
<1> SUFFICES ASSUME TypeOK, Pending, HelperStep, NEW c \in Calls
             PROVE  /\ stage'[c] = "running" /\ timers'[c] > 0 => cause'[c] # "none"
                    /\ stage'[c] = "running" /\ aborted'[c] => cause'[c] # "none"
                    /\ stage'[c] # "returned" => outcome'[c] = "none"
  BY DEF Pending
<1>1. CASE Starts(c)
  BY <1>1 DEF Starts, Closed, Pending
<1>2. CASE Ends(c)
  BY <1>2 DEF Ends
<1>3. CASE GoesOn(c)
  BY <1>3 DEF GoesOn, Pending
<1> QED BY <1>1, <1>2, <1>3, Moves

LEMMA RemovedStep ==
    TypeOK /\ NoChild /\ RemovedAfterClose /\ HelperStep => RemovedAfterClose'
<1> SUFFICES ASSUME TypeOK, NoChild, RemovedAfterClose, HelperStep, NEW c \in Calls,
                    stage'[c] = "returned"
             PROVE  leader'[c] # "up" /\ ~ Held(c)'
  BY DEF RemovedAfterClose, Held
<1>1. ~ Starts(c)
  BY DEF Starts
<1>2. CASE Ends(c)
  BY <1>2 DEF Ends, Closed, Held, NoChild
<1>3. CASE GoesOn(c)
  BY <1>3 DEF GoesOn, Held, RemovedAfterClose
<1> QED BY <1>1, <1>2, <1>3, Moves

LEMMA KillsStep == HelperInv /\ HelperStep => KillsOnlyItsOwn'
<1> SUFFICES ASSUME HelperInv, HelperStep, NEW c \in Calls, killed'[c]
             PROVE  cause'[c] # "none"
  BY DEF KillsOnlyItsOwn
<1>1. ~ Starts(c)
  BY DEF Starts
<1>2. CASE Ends(c)
  BY <1>2 DEF Ends, HelperInv, KillsOnlyItsOwn
<1>3. CASE GoesOn(c) /\ killed[c]
  BY <1>3 DEF GoesOn, HelperInv, KillsOnlyItsOwn
<1>4. CASE GoesOn(c) /\ ~ killed[c]
  <2>1. PICK d \in Calls : stage[d] = "running" /\ timers[d] > 0 /\ pid[d] = pid[c]
    BY <1>4 DEF GoesOn
  <2>2. leader[c] = "up"
    BY <1>4 DEF GoesOn
  <2>3. stage[c] = "running" /\ pid[c] # NoPid
    BY <2>2 DEF HelperInv, TypeOK, NoChild, RemovedAfterClose
  <2>4. c = d
    BY <2>1, <2>3 DEF HelperInv, OwnPids
  <2> QED BY <1>4, <2>1, <2>4 DEF GoesOn, HelperInv, Pending
<1> QED BY <1>1, <1>2, <1>3, <1>4, Moves DEF HelperInv

LEMMA HelperInvStep == HelperInv /\ HelperStep => HelperInv'
  BY HelperTypeStep, NoChildStep, OwnPidsStep, PendingStep, RemovedStep, KillsStep
  DEF HelperInv

LEMMA HelperInvKept == HelperInv /\ UNCHANGED vars => HelperInv'
<1> SUFFICES ASSUME HelperInv, UNCHANGED vars PROVE HelperInv'
  OBVIOUS
<1>1. TypeOK'
  BY DEF HelperInv, TypeOK, vars
<1>2. NoChild' /\ OwnPids' /\ Pending'
  BY DEF HelperInv, NoChild, OwnPids, Pending, Held, vars
<1>3. RemovedAfterClose' /\ KillsOnlyItsOwn'
  BY DEF HelperInv, RemovedAfterClose, KillsOnlyItsOwn, vars
<1> QED
  BY <1>1, <1>2, <1>3 DEF HelperInv

LEMMA HelperInvInit == Init => HelperInv
<1> SUFFICES ASSUME Init PROVE HelperInv
  OBVIOUS
<1>1. 0 \in 0 .. MaxRuns - 1 /\ 0 \in 0 .. MaxTimers
  BY BoundsType
<1>2. TypeOK
  BY <1>1, ReportsType DEF Init, TypeOK, Calls
<1>3. NoChild /\ OwnPids /\ Pending /\ RemovedAfterClose /\ KillsOnlyItsOwn
  BY DEF Init, NoChild, OwnPids, Pending, RemovedAfterClose, KillsOnlyItsOwn, Held
<1> QED
  BY <1>2, <1>3 DEF HelperInv

LEMMA HelpersMove == Next => HelperStep
  BY DEF Next, HelperStep

LEMMA HelperInvariance == Spec => []HelperInv
<1> QED
  BY HelperInvInit, HelperInvStep, HelperInvKept, HelpersMove, PTL DEF Spec
-----------------------------------------------------------------------------
(* Theorems about the helpers by themselves.                                *)

\* No scratch directory is removed under a process that holds the pipes of its
\* call (close of runGit and runYtDlp), for any number of calls, process ids,
\* commands and timers.
THEOREM DirectoriesRemovedAfterClose == Spec => []RemovedAfterClose
<1>1. HelperInv => RemovedAfterClose
  BY DEF HelperInv
<1> QED BY <1>1, HelperInvariance, PTL

\* SIGKILL ends only children of runs with a pending error (terminate), whatever
\* ids come back into use while timers of closed runs are still set.
THEOREM KilledForAReason == Spec => []KillsOnlyItsOwn
<1>1. HelperInv => KillsOnlyItsOwn
  BY DEF HelperInv
<1> QED BY <1>1, HelperInvariance, PTL

LEMMA AbortedStep ==
    ASSUME HelperInv, HelperStep, NEW c \in Calls, aborted[c], stage[c] # "returned"
    PROVE  outcome'[c] # "content"
<1>1. outcome[c] # "content"
  BY DEF HelperInv, Pending
<1>2. CASE Ends(c)
  BY <1>2 DEF Ends, Succeeded, HelperInv, Pending
<1>3. CASE Starts(c) \/ GoesOn(c)
  BY <1>1, <1>3 DEF Starts, GoesOn
<1> QED BY <1>2, <1>3, Moves DEF HelperInv

\* A call aborted before it returned does not return content: an abort before a
\* spawn, during a run or between two commands (runGit, runYtDlp).
THEOREM AbortedNeverReturns == Spec => AbortedReturnsNothing
<1>1. HelperInv /\ [Next]_vars =>
        [\A c \in Calls : aborted[c] /\ stage[c] # "returned" => outcome'[c] # "content"]_vars
  BY HelpersMove, AbortedStep
<1> QED BY <1>1, HelperInvariance, PTL DEF Spec, AbortedReturnsNothing

LEMMA FirstErrorStep ==
    ASSUME HelperInv, HelperStep, NEW c \in Calls, stage[c] = "running", cause[c] # "none"
    PROVE  /\ cause'[c] = cause[c]
           /\ c \in GitHub /\ stage'[c] = "returned"
              => outcome'[c] \in {cause[c], "not started", "not removed"}
<1>1. ~ Starts(c)
  BY DEF Starts, Succeeded
<1>2. CASE Ends(c)
  BY <1>2 DEF Ends
<1>3. CASE GoesOn(c)
  BY <1>3 DEF GoesOn
<1> QED BY <1>1, <1>2, <1>3, Moves DEF HelperInv

\* The first error of a run is the one it ends with, however many timeouts,
\* limits and aborts follow it (pendingError).
THEOREM FirstErrorAlwaysStands == Spec => FirstErrorStands
<1>1. HelperInv /\ [Next]_vars =>
        [\A c \in Calls :
          /\ stage[c] = "running" /\ cause[c] # "none"
          => /\ cause'[c] = cause[c]
             /\ c \in GitHub /\ stage'[c] = "returned"
                => outcome'[c] \in {cause[c], "not started", "not removed"}]_vars
  BY HelpersMove, FirstErrorStep
<1> QED BY <1>1, HelperInvariance, PTL DEF Spec, FirstErrorStands
-----------------------------------------------------------------------------
(* fetch_content over the helpers and the browser.                          *)

\* A URL with a helper waits, or is with its helper, exactly as long as its
\* call does; the document of a helper is what its call returned.
TasksFollowHelpers ==
    \A c \in Calls :
        /\ stage[c] = "waiting" <=> task[c] = "queued"
        /\ stage[c] = "running" <=> task[c] = "helper"
        /\ document[c] = "helper" => outcome[c] = "content"

\* A URL is being rendered exactly as long as its browser call is unsettled,
\* which it is only with its listeners; what is taken for a page was read to
\* its end.
TasksFollowRenders ==
    \A u \in Urls :
        /\ task[u] \in {"queued", "helper"} => child[u] = "none"
        /\ task[u] = "render" <=> child[u] # "none" /\ settled[u] = "no"
        /\ task[u] = "render" => listening[u]
        /\ child[u] = "none" => ~ listening[u] /\ output[u] = "nothing"
        /\ task[u] = "pdf" \/ document[u] = "page" => output[u] = "read"

\* What the operation has done with the URLs: none but those of the input, none
\* before it has accepted them, all of them before it goes on.
OperationFollowsTasks ==
    /\ \A u \in Urls : document[u] # "none" <=> task[u] = "done"
    /\ \A u \in Urls : task[u] # "queued" =>
         u \in ToSet(input) /\ operation \notin {"new", "refused"}
    /\ operation \in {"answering", "resolved"} =>
         \A u \in ToSet(input) : task[u] = "done"

\* A child that has an `error' event to come, and pipes, but no listener, was
\* spawned for an operation that has failed.
Unheard ==
    \A u \in Urls :
        child[u] = "unspawned" /\ ~ listening[u] => cancelled /\ operation = "rejected"

FetchInv ==
    /\ HelperInv /\ FetchTypeOK /\ IsFiniteSet(Active) /\ input \in Inputs
    /\ TasksFollowHelpers /\ TasksFollowRenders /\ OperationFollowsTasks
    /\ Unheard /\ FailsForAReason
-----------------------------------------------------------------------------
(* What the parts of a step make of tasks and browser calls.                *)

TaskStates == {"queued", "helper", "render", "pdf", "done", "rejected"}
Operations == {"new", "refused", "fetching", "answering", "resolved", "rejected"}

\* The types of the operation's own state, and of the browser's.
TaskTypes ==
    /\ operation \in Operations
    /\ task \in [Urls -> TaskStates]
    /\ document \in [Urls -> Sources]

LEMMA FetchTypes ==
    FetchTypeOK <=> /\ TypeOK /\ TaskTypes /\ Browser!BrowserTypeOK
                    /\ forced \in BOOLEAN /\ answers \in BOOLEAN /\ cancelled \in BOOLEAN
                    /\ Cardinality(Active) <= Concurrency
  BY DEF FetchTypeOK, TaskTypes, TaskStates, Operations

LEMMA DeliverEffect ==
    ASSUME TaskTypes, NEW u \in Urls, NEW from \in Sources, Deliver(u, from)
    PROVE  /\ TaskTypes'
           /\ task'[u] = "done" /\ document'[u] = from
           /\ \A v \in Urls \ {u} : task'[v] = task[v] /\ document'[v] = document[v]
           /\ operation' # operation =>
                /\ operation = "fetching" /\ operation' \in {"answering", "resolved"}
                /\ \A v \in ToSet(input) \ {u} : task[v] = "done"
  BY DEF Deliver, TaskTypes, TaskStates, Operations

LEMMA RejectEffect ==
    ASSUME TaskTypes, NEW C \in SUBSET Urls, RejectAll(C)
    PROVE  /\ TaskTypes' /\ document' = document
           /\ \A v \in C : task'[v] = "rejected"
           /\ \A v \in Urls \ C : task'[v] = task[v]
           /\ operation' = IF operation = "fetching" /\ C # {} THEN "rejected" ELSE operation
  BY DEF RejectAll, TaskTypes, TaskStates, Operations

\* What becomes of a browser call that is made: it is under way; it is refused
\* by the signal; or there is no descriptor for it.
Rendering(u) ==
    /\ settled'[u] = "no" /\ listening'[u] /\ task'[u] = "render"
    /\ document'[u] = document[u] /\ operation' = operation

Refused(u) ==
    /\ cancelled /\ settled'[u] = "error" /\ ~ listening'[u]
    /\ task'[u] = "rejected" /\ document'[u] = document[u]
    /\ operation' = IF operation = "fetching" THEN "rejected" ELSE operation

Starved(u) ==
    /\ child'[u] = "starved" /\ settled'[u] = "error" /\ ~ listening'[u]
    /\ task'[u] = "done" /\ document'[u] = "error"
    /\ operation' # operation =>
         /\ operation = "fetching" /\ operation' \in {"answering", "resolved"}
         /\ \A v \in ToSet(input) \ {u} : task[v] = "done"

LEMMA RenderEffect ==
    ASSUME TaskTypes, Browser!BrowserTypeOK, cancelled \in BOOLEAN,
           NEW u \in Urls, Render(u)
    PROVE  /\ TaskTypes' /\ Browser!BrowserTypeOK'
           /\ child[u] = "none" /\ child'[u] # "none"
           /\ output' = output /\ lost' = lost
           /\ \A v \in Urls \ {u} :
                /\ child'[v] = child[v] /\ listening'[v] = listening[v]
                /\ settled'[v] = settled[v] /\ task'[v] = task[v]
           /\ \A v \in Urls \ {u} : document'[v] = document[v]
           /\ \/ Rendering(u) \/ Refused(u) \/ Starved(u)
<1>1. Browser!Call(u, cancelled)
  BY DEF Render
<1>2. PICK c \in {"up", "unspawned", "starved"} :
        /\ child' = [child EXCEPT ![u] = c]
        /\ listening' = [listening EXCEPT ![u] = c # "starved" /\ ~ cancelled]
        /\ settled' = [settled EXCEPT ![u] = IF listening'[u] THEN "no" ELSE "error"]
        /\ child[u] = "none" /\ UNCHANGED <<output, lost>>
  BY <1>1 DEF Browser!Call
<1>3. listening' \in [Urls -> BOOLEAN] /\ listening'[u] = (c # "starved" /\ ~ cancelled)
  BY <1>2 DEF Browser!BrowserTypeOK
<1>4. /\ Browser!BrowserTypeOK'
      /\ child'[u] = c /\ settled'[u] = IF listening'[u] THEN "no" ELSE "error"
      /\ \A v \in Urls \ {u} : /\ child'[v] = child[v] /\ listening'[v] = listening[v]
                               /\ settled'[v] = settled[v]
  BY <1>2, <1>3 DEF Browser!BrowserTypeOK
<1>5. CASE cancelled
  <2>1. RejectAll({u})
    BY <1>3, <1>4, <1>5 DEF Render
  <2>2. {u} \in SUBSET Urls /\ {u} # {}
    OBVIOUS
  <2>3. /\ TaskTypes' /\ document' = document /\ task'[u] = "rejected"
        /\ \A v \in Urls \ {u} : task'[v] = task[v]
        /\ operation' = IF operation = "fetching" THEN "rejected" ELSE operation
    BY <2>1, <2>2, RejectEffect
  <2>4. Refused(u)
    BY <1>3, <1>4, <1>5, <2>3 DEF Refused
  <2> QED BY <1>2, <1>4, <2>3, <2>4
<1>6. CASE ~ cancelled /\ c # "starved"
  <2>1. task' = [task EXCEPT ![u] = "render"] /\ UNCHANGED <<operation, document>>
    BY <1>3, <1>4, <1>6 DEF Render
  <2>2. /\ TaskTypes' /\ task'[u] = "render"
        /\ \A v \in Urls \ {u} : task'[v] = task[v]
    BY <2>1 DEF TaskTypes, TaskStates
  <2>3. Rendering(u)
    BY <1>3, <1>4, <1>6, <2>1, <2>2 DEF Rendering
  <2> QED BY <1>2, <1>4, <2>1, <2>2, <2>3
<1>7. CASE ~ cancelled /\ c = "starved"
  <2>1. Deliver(u, "error") /\ "error" \in Sources
    BY <1>3, <1>4, <1>7 DEF Render, Sources
  <2>2. /\ TaskTypes' /\ task'[u] = "done" /\ document'[u] = "error"
        /\ \A v \in Urls \ {u} : task'[v] = task[v] /\ document'[v] = document[v]
        /\ operation' # operation =>
             /\ operation = "fetching" /\ operation' \in {"answering", "resolved"}
             /\ \A v \in ToSet(input) \ {u} : task[v] = "done"
    BY <2>1, DeliverEffect
  <2>3. Starved(u)
    BY <1>3, <1>4, <1>7, <2>2 DEF Starved
  <2> QED BY <1>2, <1>4, <2>2, <2>3
<1> QED BY <1>5, <1>6, <1>7

\* An event of u's child finds no listener.
EventUnheard(u) ==
    child[u] \in {"unspawned", "starved"} /\ ~ listening[u] /\ child'[u] = child[u]

\* A step of a browser call: a result means that the response was read.
LEMMA BrowserEffect ==
    ASSUME Browser!BrowserTypeOK, NEW u \in Urls, Browser!Step(u),
           child[u] = "none" => output[u] = "nothing"
    PROVE  /\ Browser!BrowserTypeOK'
           /\ child[u] # "none" /\ child'[u] # "none"
           /\ \A v \in Urls \ {u} :
                child'[v] = child[v] /\ output'[v] = output[v] /\ settled'[v] = settled[v]
           /\ listening' = listening
           /\ output[u] = "read" => output'[u] = "read"
           /\ settled'[u] # settled[u] =>
                /\ settled[u] = "no" /\ settled'[u] \in {"result", "error"}
                /\ settled'[u] = "result" => output'[u] = "read"
           /\ child'[u] \in {"gone", child[u]}
           /\ lost' => lost \/ EventUnheard(u)
<1>1. CASE Browser!Respond(u)
  BY <1>1 DEF Browser!Respond, Browser!BrowserTypeOK
<1>2. CASE Browser!ReadOutput(u)
  BY <1>2 DEF Browser!ReadOutput, Browser!BrowserTypeOK
<1>3. CASE Browser!Oversized(u)
  BY <1>3 DEF Browser!Oversized, Browser!Finish, Browser!BrowserTypeOK
<1>4. CASE Browser!Exit(u)
  <2>1. PICK how \in {"result", "error"} :
          /\ how = "result" => output[u] = "read"
          /\ Browser!Finish(u, how)
    BY <1>4 DEF Browser!Exit
  <2>2. /\ child[u] = "up" /\ child' = [child EXCEPT ![u] = "gone"]
        /\ UNCHANGED <<output, listening, lost>>
    BY <1>4 DEF Browser!Exit
  <2>3. settled' = [settled EXCEPT ![u] = IF settled[u] = "no" THEN how ELSE settled[u]]
    BY <2>1 DEF Browser!Finish
  <2> QED BY <2>1, <2>2, <2>3 DEF Browser!BrowserTypeOK
<1>5. CASE Browser!SpawnError(u)
  BY <1>5 DEF Browser!SpawnError, Browser!Finish, Browser!BrowserTypeOK
<1>6. CASE Browser!SpawnErrorUnheard(u)
  BY <1>6 DEF Browser!SpawnErrorUnheard, EventUnheard, Browser!BrowserTypeOK
<1> QED BY <1>1, <1>2, <1>3, <1>4, <1>5, <1>6 DEF Browser!Step

\* A helper call, seen from its task.
LEMMA BeginEffect ==
    ASSUME TypeOK, NEW u \in Calls, Begin(u) \/ Unavailable(u)
    PROVE  /\ stage[u] = "waiting"
           /\ \/ stage'[u] = "running" /\ outcome'[u] = outcome[u]
              \/ stage'[u] = "returned" /\ outcome'[u] # "content"
           /\ \A c \in Calls \ {u} : stage'[c] = stage[c] /\ outcome'[c] = outcome[c]
<1>1. CASE Begin(u)
  BY <1>1, StartRunEffect DEF Begin
<1>2. CASE Unavailable(u)
  BY <1>2 DEF Unavailable, TypeOK
<1> QED BY <1>1, <1>2

LEMMA ProceedEffect ==
    ASSUME TypeOK, NEW u \in Calls, Proceed(u)
    PROVE  /\ \/ stage'[u] = stage[u] /\ outcome'[u] = outcome[u]
              \/ stage[u] = "running" /\ stage'[u] = "returned"
           /\ \A c \in Calls \ {u} : stage'[c] = stage[c] /\ outcome'[c] = outcome[c]
<1>1. CASE RunNext(u)
  <2>1. StartRun(u) /\ stage[u] = "running" /\ outcome' = outcome
    BY <1>1 DEF RunNext, Closed
  <2> QED BY <2>1, StartRunEffect
<1>2. CASE Settle(u) /\ ~ RunNext(u)
  <2>1. PICK results \in SUBSET (Outcomes(u) \ {"none"}) : Return(u, results)
    BY <1>2, SettleEffect
  <2>2. PICK result : outcome' = [outcome EXCEPT ![u] = result]
    BY <2>1, ReturnEffect
  <2>3. \A c \in Calls \ {u} : outcome'[c] = outcome[c]
    BY <2>2 DEF TypeOK
  <2> QED BY <1>2, <2>1, <2>3, SettleEffect, ReturnEffect
<1>3. CASE ~ Settle(u)
  BY <1>3 DEF Proceed, TimedOut, TooMuchOutput, OverLimits, KillTimer, Fork, ChildExits,
              WorkerExits
<1> QED BY <1>1, <1>2, <1>3

LEMMA AfterHelperCases ==
    ASSUME NEW u, AfterHelper(u),
           stage'[u] # stage[u] => stage'[u] \in {"running", "returned"}
    PROVE  /\ stage'[u] = stage[u] => UNCHANGED <<task, operation, document, browserVars>>
           /\ stage'[u] # stage[u] /\ stage'[u] = "running" =>
                /\ task' = [task EXCEPT ![u] = "helper"]
                /\ UNCHANGED <<operation, document, browserVars>>
           /\ stage'[u] # stage[u] /\ stage'[u] = "returned" =>
                IF outcome'[u] = "content" THEN Deliver(u, "helper") /\ UNCHANGED browserVars
                ELSE HelperFailed(u)
<1>1. CASE stage'[u] = stage[u]
  BY <1>1, Zenon DEF AfterHelper
<1>2. CASE stage'[u] # stage[u] /\ stage'[u] = "running"
  BY <1>2, Zenon DEF AfterHelper
<1>3. CASE stage'[u] # stage[u] /\ stage'[u] = "returned"
  BY <1>3, Zenon DEF AfterHelper
<1> QED BY <1>1, <1>2, <1>3
-----------------------------------------------------------------------------
(* The moves of one URL.                                                    *)

BrowserKept(u) ==
    /\ child'[u] = child[u] /\ output'[u] = output[u]
    /\ listening'[u] = listening[u] /\ settled'[u] = settled[u]

CallKept(u) == u \in Calls => stage'[u] = stage[u] /\ outcome'[u] = outcome[u]

\* Browser calls do not come to be or begin to be read, and what was read is.
CallGoesOn(u) ==
    /\ child'[u] = "none" <=> child[u] = "none"
    /\ child'[u] = "unspawned" => child[u] = "unspawned"
    /\ child[u] = "none" => output'[u] = output[u]
    /\ output[u] = "read" => output'[u] = "read"
    /\ listening'[u] = listening[u]

Keeps(u) ==
    /\ task'[u] = task[u] /\ document'[u] = document[u] /\ settled'[u] = settled[u]
    /\ CallGoesOn(u) /\ CallKept(u)

\* A URL is up for a helper or, after it, for a browser call.
Due(u) ==
    \/ /\ task[u] = "queued" /\ u \in ToSet(input)
       /\ operation \notin {"new", "refused"} /\ Cardinality(Active) < Concurrency
    \/ task[u] = "helper"

Asks(u) ==
    /\ Due(u) /\ task[u] = "queued" /\ u \in Calls /\ BrowserKept(u)
    /\ task'[u] = "helper" /\ stage'[u] = "running"
    /\ document'[u] = document[u] /\ operation' = operation

Renders(u) ==
    /\ Due(u) /\ (u \in Calls => stage'[u] = "returned")
    /\ child[u] = "none" /\ child'[u] # "none" /\ output'[u] = output[u]
    /\ Rendering(u)

Starves(u) ==
    /\ Due(u) /\ (u \in Calls => stage'[u] = "returned")
    /\ child[u] = "none" /\ output'[u] = output[u]
    /\ Starved(u)

Fails(u) ==
    /\ Due(u) \/ task[u] = "pdf"
    /\ cancelled \/ forced \/ u \in Malformed
    /\ u \in Calls => stage'[u] = "returned"
    /\ \/ BrowserKept(u)
       \/ /\ child[u] = "none" /\ child'[u] # "none" /\ settled'[u] = "error"
          /\ ~ listening'[u] /\ cancelled /\ output'[u] = output[u]
    /\ task'[u] = "rejected" /\ document'[u] = document[u]
    /\ operation' = IF operation = "fetching" THEN "rejected" ELSE operation

Gets(u) ==
    /\ task[u] \in {"helper", "render", "pdf"}
    /\ task'[u] = "done" /\ document'[u] \in {"helper", "page", "error"}
    /\ document'[u] = "helper" => u \in Calls /\ outcome'[u] = "content"
    /\ document'[u] = "page" => output'[u] = "read"
    /\ u \in Calls => stage'[u] = "returned"
    /\ CallGoesOn(u) /\ (child[u] # "none" => settled'[u] # "no")
    /\ operation' # operation =>
         /\ operation = "fetching" /\ operation' \in {"answering", "resolved"}
         /\ \A v \in ToSet(input) \ {u} : task[v] = "done"

Reads(u) ==
    /\ task[u] = "render" /\ task'[u] = "pdf" /\ output'[u] = "read"
    /\ child[u] # "none" /\ settled'[u] # "no" /\ CallGoesOn(u) /\ CallKept(u)
    /\ document'[u] = document[u] /\ operation' = operation

UrlMove(u) ==
    \/ Keeps(u) /\ operation' = operation
    \/ Asks(u) \/ Renders(u) \/ Starves(u) \/ Fails(u) \/ Gets(u) \/ Reads(u)

UrlStep(u) ==
    /\ TaskTypes' /\ Browser!BrowserTypeOK'
    /\ UNCHANGED <<input, forced, answers, cancelled>>
    /\ \A v \in Urls \ {u} : Keeps(v)
    /\ lost' => lost \/ EventUnheard(u)
    /\ UrlMove(u)

LEMMA NextUpIsDue ==
    ASSUME NEW u \in Urls, NextUp(u) PROVE Due(u) /\ task[u] = "queued"
  BY DEF NextUp, Due, ToSet

\* A rejection that leaves the browser alone.
LEMMA FailsAlone ==
    ASSUME FetchInv, NEW u \in Urls, RejectAll({u}), UNCHANGED browserVars,
           UNCHANGED <<input, forced, answers, cancelled>>,
           Due(u) \/ task[u] = "pdf", cancelled \/ forced \/ u \in Malformed,
           u \in Calls => stage'[u] = "returned",
           \A v \in Calls \ {u} : CallKept(v)
    PROVE  UrlStep(u)
<1>1. TaskTypes /\ Browser!BrowserTypeOK
  BY FetchTypes DEF FetchInv
<1>2. {u} \in SUBSET Urls /\ {u} # {}
  OBVIOUS
<1>3. /\ TaskTypes' /\ document' = document /\ task'[u] = "rejected"
      /\ \A v \in Urls \ {u} : task'[v] = task[v]
      /\ operation' = IF operation = "fetching" THEN "rejected" ELSE operation
  BY <1>1, <1>2, RejectEffect
<1>4. Browser!BrowserTypeOK' /\ lost' = lost /\ \A v \in Urls : BrowserKept(v)
  BY <1>1 DEF browserVars, Browser!BrowserTypeOK, BrowserKept
<1>5. Fails(u)
  BY <1>3, <1>4 DEF Fails
<1>6. \A v \in Urls \ {u} : Keeps(v)
  BY <1>3, <1>4 DEF Keeps, CallGoesOn, CallKept, BrowserKept
<1> QED
  BY <1>3, <1>4, <1>5, <1>6 DEF UrlStep, UrlMove

LEMMA RenderMove ==
    ASSUME FetchInv, NEW u \in Urls, Render(u), Due(u),
           UNCHANGED <<input, forced, answers, cancelled>>,
           u \in Calls => stage'[u] = "returned",
           \A v \in Calls \ {u} : CallKept(v)
    PROVE  UrlStep(u)
<1>1. TaskTypes /\ Browser!BrowserTypeOK /\ cancelled \in BOOLEAN
  BY FetchTypes DEF FetchInv
<1>2. /\ TaskTypes' /\ Browser!BrowserTypeOK'
      /\ child[u] = "none" /\ child'[u] # "none"
      /\ output' = output /\ lost' = lost
      /\ \A v \in Urls \ {u} :
           /\ child'[v] = child[v] /\ listening'[v] = listening[v]
           /\ settled'[v] = settled[v] /\ task'[v] = task[v]
           /\ document'[v] = document[v]
      /\ Rendering(u) \/ Refused(u) \/ Starved(u)
  BY <1>1, RenderEffect
<1>3. \A v \in Urls \ {u} : Keeps(v)
  BY <1>2 DEF Keeps, CallGoesOn, CallKept
<1>4. Renders(u) \/ Starves(u) \/ Fails(u)
  BY <1>2 DEF Renders, Starves, Fails, Refused
<1> QED
  BY <1>2, <1>3, <1>4 DEF UrlStep, UrlMove

\* The continuation of a helper call that returns.
LEMMA HelperReturns ==
    ASSUME FetchInv, NEW u \in Calls, Due(u), stage'[u] = "returned",
           outcome'[u] = "content" => task[u] = "helper",
           \A v \in Calls \ {u} : CallKept(v),
           UNCHANGED <<input, forced, answers, cancelled>>,
           IF outcome'[u] = "content" THEN Deliver(u, "helper") /\ UNCHANGED browserVars
           ELSE HelperFailed(u)
    PROVE  UrlStep(u)
<1>1. TaskTypes /\ Browser!BrowserTypeOK /\ u \in Urls /\ "helper" \in Sources
  BY FetchTypes DEF FetchInv, Urls, Sources
<1>2. CASE outcome'[u] = "content"
  <2>1. Deliver(u, "helper") /\ UNCHANGED browserVars /\ task[u] = "helper"
    BY <1>2
  <2>2. /\ TaskTypes' /\ task'[u] = "done" /\ document'[u] = "helper"
        /\ \A v \in Urls \ {u} : task'[v] = task[v] /\ document'[v] = document[v]
        /\ operation' # operation =>
             /\ operation = "fetching" /\ operation' \in {"answering", "resolved"}
             /\ \A v \in ToSet(input) \ {u} : task[v] = "done"
    BY <1>1, <2>1, DeliverEffect
  <2>3. Browser!BrowserTypeOK' /\ lost' = lost /\ \A v \in Urls : BrowserKept(v)
    BY <1>1, <2>1 DEF browserVars, Browser!BrowserTypeOK, BrowserKept
  <2>4. child[u] = "none"
    BY <1>1, <2>1 DEF FetchInv, TasksFollowRenders
  <2>5. Gets(u)
    BY <1>1, <1>2, <2>1, <2>2, <2>3, <2>4 DEF Gets, CallGoesOn, BrowserKept
  <2>6. \A v \in Urls \ {u} : Keeps(v)
    BY <2>2, <2>3 DEF Keeps, CallGoesOn, CallKept, BrowserKept
  <2> QED
    BY <2>2, <2>3, <2>5, <2>6 DEF UrlStep, UrlMove
<1>3. CASE outcome'[u] # "content"
  <2>1. \/ RejectAll({u}) /\ UNCHANGED browserVars /\ forced
        \/ Render(u)
    BY <1>3 DEF HelperFailed
  <2> QED
    BY <1>1, <2>1, FailsAlone, RenderMove
<1> QED BY <1>2, <1>3

LEMMA StartHelperMove ==
    ASSUME FetchInv, NEW u \in Urls, StartHelper(u) PROVE UrlStep(u)
<1>1. /\ u \in Calls /\ Due(u) /\ task[u] = "queued" /\ AfterHelper(u)
      /\ Begin(u) \/ Unavailable(u)
      /\ UNCHANGED <<input, forced, answers, cancelled>>
  BY NextUpIsDue DEF StartHelper
<1>2. TypeOK /\ TaskTypes /\ Browser!BrowserTypeOK
  BY FetchTypes DEF FetchInv
<1>3. /\ stage[u] = "waiting"
      /\ \/ stage'[u] = "running" /\ outcome'[u] = outcome[u]
         \/ stage'[u] = "returned" /\ outcome'[u] # "content"
      /\ \A c \in Calls \ {u} : CallKept(c)
  BY <1>1, <1>2, BeginEffect DEF CallKept
<1>4. CASE stage'[u] = "returned"
  BY <1>1, <1>3, <1>4, AfterHelperCases, HelperReturns
<1>5. CASE stage'[u] = "running"
  <2>1. task' = [task EXCEPT ![u] = "helper"] /\ UNCHANGED <<operation, document, browserVars>>
    BY <1>1, <1>3, <1>5, AfterHelperCases
  <2>2. Browser!BrowserTypeOK' /\ lost' = lost /\ \A v \in Urls : BrowserKept(v)
    BY <1>2, <2>1 DEF browserVars, Browser!BrowserTypeOK, BrowserKept
  <2>3. TaskTypes' /\ task'[u] = "helper" /\ \A v \in Urls \ {u} : task'[v] = task[v]
    BY <1>2, <2>1 DEF TaskTypes, TaskStates
  <2>4. Asks(u)
    BY <1>1, <1>5, <2>1, <2>2, <2>3 DEF Asks
  <2>5. \A v \in Urls \ {u} : Keeps(v)
    BY <1>3, <2>1, <2>2, <2>3 DEF Keeps, CallGoesOn, CallKept, BrowserKept
  <2> QED BY <1>1, <2>2, <2>3, <2>4, <2>5 DEF UrlStep, UrlMove
<1> QED BY <1>3, <1>4, <1>5

LEMMA HelperProceedsMove ==
    ASSUME FetchInv, NEW u \in Urls, HelperProceeds(u) PROVE UrlStep(u)
<1>1. /\ u \in Calls /\ Proceed(u) /\ AfterHelper(u)
      /\ UNCHANGED <<input, forced, answers, cancelled>>
  BY DEF HelperProceeds, Continue
<1>2. TypeOK /\ TaskTypes /\ Browser!BrowserTypeOK
  BY FetchTypes DEF FetchInv
<1>3. /\ \/ stage'[u] = stage[u] /\ outcome'[u] = outcome[u]
         \/ stage[u] = "running" /\ stage'[u] = "returned"
      /\ \A c \in Calls \ {u} : CallKept(c)
  BY <1>1, <1>2, ProceedEffect DEF CallKept
<1>4. CASE stage'[u] = stage[u] /\ outcome'[u] = outcome[u]
  <2>1. UNCHANGED <<task, operation, document, browserVars>>
    BY <1>1, <1>4, AfterHelperCases
  <2>2. Browser!BrowserTypeOK' /\ TaskTypes' /\ lost' = lost
    BY <1>2, <2>1 DEF browserVars, Browser!BrowserTypeOK, TaskTypes
  <2>3. \A v \in Urls : Keeps(v)
    BY <1>3, <1>4, <2>1 DEF browserVars, Keeps, CallGoesOn, CallKept
  <2> QED BY <1>1, <2>1, <2>2, <2>3 DEF UrlStep, UrlMove
<1>5. CASE stage[u] = "running" /\ stage'[u] = "returned"
  <2>1. task[u] = "helper"
    BY <1>1, <1>5 DEF FetchInv, TasksFollowHelpers
  <2> QED BY <1>1, <1>3, <1>5, <2>1, AfterHelperCases, HelperReturns DEF Due
<1> QED BY <1>3, <1>4, <1>5

\* The URLs without a helper, and the PDFs: helpers stand still.
LEMMA CallsStandStill ==
    ASSUME FetchInv, UNCHANGED vars
    PROVE  /\ \A v \in Calls : CallKept(v)
           /\ \A v \in Calls : task[v] \in {"render", "pdf"} => stage'[v] = "returned"
<1>1. \A v \in Calls : stage[v] \in {"waiting", "running", "returned"}
  BY FetchTypes DEF FetchInv, TypeOK
<1> QED
  BY <1>1 DEF vars, CallKept, FetchInv, TasksFollowHelpers

LEMMA StartOtherMove ==
    ASSUME FetchInv, NEW u \in Urls, StartRender(u) \/ StartMalformed(u) PROVE UrlStep(u)
<1>1. Due(u) /\ UNCHANGED <<input, forced, answers, cancelled, vars>>
  BY NextUpIsDue DEF StartRender, StartMalformed
<1>2. u \notin Calls
  BY FetchAssumption DEF FetchAssumption, StartRender, StartMalformed
<1>3. \A v \in Calls : CallKept(v)
  BY <1>1, CallsStandStill
<1>4. CASE StartRender(u)
  BY <1>1, <1>2, <1>3, <1>4, RenderMove DEF StartRender
<1>5. CASE StartMalformed(u)
  BY <1>1, <1>2, <1>3, <1>5, FailsAlone DEF StartMalformed
<1> QED BY <1>4, <1>5

LEMMA RenderProceedsMove ==
    ASSUME FetchInv, NEW u \in Urls, RenderProceeds(u) PROVE UrlStep(u)
<1>1. /\ Browser!Step(u) /\ AfterRender(u)
      /\ UNCHANGED <<input, forced, answers, cancelled, vars>>
  BY DEF RenderProceeds
<1>2. TaskTypes /\ Browser!BrowserTypeOK
  BY FetchTypes DEF FetchInv
<1>3. child[u] = "none" => output[u] = "nothing"
  BY DEF FetchInv, TasksFollowRenders
<1>4. /\ Browser!BrowserTypeOK'
      /\ child[u] # "none" /\ child'[u] # "none"
      /\ \A v \in Urls \ {u} :
           child'[v] = child[v] /\ output'[v] = output[v] /\ settled'[v] = settled[v]
      /\ listening' = listening
      /\ output[u] = "read" => output'[u] = "read"
      /\ settled'[u] # settled[u] =>
           /\ settled[u] = "no" /\ settled'[u] \in {"result", "error"}
           /\ settled'[u] = "result" => output'[u] = "read"
      /\ child'[u] \in {"gone", child[u]}
      /\ lost' => lost \/ EventUnheard(u)
  BY <1>1, <1>2, <1>3, BrowserEffect
<1>5. \A v \in Calls : CallKept(v)
  BY <1>1, CallsStandStill
<1>6. CallGoesOn(u) /\ \A v \in Urls \ {u} : CallGoesOn(v)
  BY <1>4 DEF CallGoesOn
<1>7. CASE settled'[u] = settled[u]
  <2>1. UNCHANGED <<task, operation, document>>
    BY <1>1, <1>7 DEF AfterRender
  <2>2. TaskTypes'
    BY <1>2, <2>1 DEF TaskTypes
  <2>3. \A v \in Urls : Keeps(v)
    BY <1>4, <1>5, <1>6, <1>7, <2>1 DEF Keeps, CallKept
  <2> QED BY <1>1, <1>4, <2>1, <2>2, <2>3 DEF UrlStep, UrlMove
<1>8. CASE settled'[u] # settled[u]
  <2>1. task[u] = "render" /\ settled'[u] # "no"
    BY <1>4, <1>8 DEF FetchInv, TasksFollowRenders
  <2>2. u \in Calls => stage'[u] = "returned"
    BY <1>1, <2>1, CallsStandStill
  <2>3. ASSUME NEW from \in {"page", "error"}, Deliver(u, from),
               from = "page" => settled'[u] = "result"
        PROVE  UrlStep(u)
    <3>1. /\ TaskTypes' /\ task'[u] = "done" /\ document'[u] = from
          /\ \A v \in Urls \ {u} : task'[v] = task[v] /\ document'[v] = document[v]
          /\ operation' # operation =>
               /\ operation = "fetching" /\ operation' \in {"answering", "resolved"}
               /\ \A v \in ToSet(input) \ {u} : task[v] = "done"
      <4>1. from \in Sources
        BY DEF Sources
      <4> QED BY <1>2, <2>3, <4>1, DeliverEffect
    <3>2. Gets(u)
      BY <1>4, <1>6, <1>8, <2>1, <2>2, <2>3, <3>1 DEF Gets
    <3>3. \A v \in Urls \ {u} : Keeps(v)
      BY <1>4, <1>5, <1>6, <3>1 DEF Keeps, CallKept
    <3> QED BY <1>1, <1>4, <3>1, <3>2, <3>3 DEF UrlStep, UrlMove
  <2>4. ASSUME settled'[u] = "result", task' = [task EXCEPT ![u] = "pdf"],
               UNCHANGED <<operation, document>>
        PROVE  UrlStep(u)
    <3>1. TaskTypes' /\ task'[u] = "pdf" /\ \A v \in Urls \ {u} : task'[v] = task[v]
      BY <1>2, <2>4 DEF TaskTypes, TaskStates
    <3>2. Reads(u)
      BY <1>4, <1>5, <1>6, <1>8, <2>1, <2>4, <3>1 DEF Reads, CallKept
    <3>3. \A v \in Urls \ {u} : Keeps(v)
      BY <1>4, <1>5, <1>6, <2>4, <3>1 DEF Keeps, CallKept
    <3> QED BY <1>1, <1>4, <3>1, <3>2, <3>3 DEF UrlStep, UrlMove
  <2> QED BY <1>1, <1>8, <2>3, <2>4 DEF AfterRender
<1> QED BY <1>7, <1>8

LEMMA ReadPdfMove ==
    ASSUME FetchInv, NEW u \in Urls, ReadPdf(u) PROVE UrlStep(u)
<1>1. /\ task[u] = "pdf"
      /\ UNCHANGED <<input, forced, answers, cancelled, vars, browserVars>>
      /\ \/ \E from \in {"page", "error"} : Deliver(u, from)
         \/ cancelled /\ RejectAll({u})
  BY DEF ReadPdf
<1>2. TaskTypes /\ Browser!BrowserTypeOK
  BY FetchTypes DEF FetchInv
<1>3. /\ \A v \in Calls : CallKept(v)
      /\ u \in Calls => stage'[u] = "returned"
  BY <1>1, CallsStandStill
<1>4. CASE cancelled /\ RejectAll({u})
  BY <1>1, <1>3, <1>4, FailsAlone
<1>5. ASSUME NEW from \in {"page", "error"}, Deliver(u, from) PROVE UrlStep(u)
  <2>1. /\ TaskTypes' /\ task'[u] = "done" /\ document'[u] = from
        /\ \A v \in Urls \ {u} : task'[v] = task[v] /\ document'[v] = document[v]
        /\ operation' # operation =>
             /\ operation = "fetching" /\ operation' \in {"answering", "resolved"}
             /\ \A v \in ToSet(input) \ {u} : task[v] = "done"
    <3>1. from \in Sources
      BY DEF Sources
    <3> QED BY <1>2, <1>5, <3>1, DeliverEffect
  <2>2. Browser!BrowserTypeOK' /\ lost' = lost /\ \A v \in Urls : BrowserKept(v)
    BY <1>1, <1>2 DEF browserVars, Browser!BrowserTypeOK, BrowserKept
  <2>3. output[u] = "read" /\ (child[u] # "none" => settled[u] # "no")
    BY <1>1 DEF FetchInv, TasksFollowRenders
  <2>4. Gets(u)
    BY <1>1, <1>3, <1>5, <2>1, <2>2, <2>3 DEF Gets, BrowserKept, CallGoesOn
  <2>5. \A v \in Urls \ {u} : Keeps(v)
    BY <1>3, <2>1, <2>2 DEF Keeps, CallKept, BrowserKept, CallGoesOn
  <2> QED BY <1>1, <2>1, <2>2, <2>4, <2>5 DEF UrlStep, UrlMove
<1> QED BY <1>1, <1>4, <1>5
-----------------------------------------------------------------------------
(* A step of one URL keeps the invariant.                                   *)

LEMMA ActiveStep ==
    ASSUME FetchInv, NEW u \in Urls, UrlStep(u)
    PROVE  IsFiniteSet(Active') /\ Cardinality(Active') <= Concurrency
<1>1. /\ IsFiniteSet(Active) /\ Cardinality(Active) <= Concurrency
      /\ Concurrency \in Nat /\ Cardinality(Active) \in Nat
  BY FetchTypes, FetchAssumption, FS_CardinalityType DEF FetchInv, FetchAssumption
<1>2. Active' \subseteq Active \cup {u}
  BY DEF Active, UrlStep, Keeps
<1>3. CASE Cardinality(Active) < Concurrency
  <2>1. /\ IsFiniteSet(Active \cup {u})
        /\ Cardinality(Active \cup {u}) <= Cardinality(Active) + 1
    BY <1>1, FS_AddElement
  <2>2. /\ IsFiniteSet(Active') /\ Cardinality(Active') \in Nat
        /\ Cardinality(Active \cup {u}) \in Nat
        /\ Cardinality(Active') <= Cardinality(Active \cup {u})
    BY <1>2, <2>1, FS_Subset, FS_CardinalityType
  <2> QED BY <1>1, <1>3, <2>1, <2>2
<1>4. CASE ~ (Cardinality(Active) < Concurrency)
  <2>1. u \in Active \/ u \notin Active'
    BY <1>4 DEF UrlStep, UrlMove, Keeps, Asks, Renders, Rendering, Starves, Starved,
                Fails, Gets, Reads, Due, Active
  <2>2. Active' \subseteq Active
    BY <1>2, <2>1
  <2>3. /\ IsFiniteSet(Active') /\ Cardinality(Active') \in Nat
        /\ Cardinality(Active') <= Cardinality(Active)
    BY <1>1, <2>2, FS_Subset, FS_CardinalityType
  <2> QED BY <1>1, <2>3
<1> QED BY <1>3, <1>4

LEMMA HelpersFollowed ==
    ASSUME FetchInv, NEW u \in Urls, UrlStep(u) PROVE TasksFollowHelpers'
<1> SUFFICES ASSUME NEW c \in Calls
             PROVE  /\ stage'[c] = "waiting" <=> task'[c] = "queued"
                    /\ stage'[c] = "running" <=> task'[c] = "helper"
                    /\ document'[c] = "helper" => outcome'[c] = "content"
  BY DEF TasksFollowHelpers
<1>1. /\ stage[c] = "waiting" <=> task[c] = "queued"
      /\ stage[c] = "running" <=> task[c] = "helper"
      /\ document[c] = "helper" => outcome[c] = "content"
      /\ document[c] # "none" <=> task[c] = "done"
      /\ c \in Urls
  BY DEF FetchInv, TasksFollowHelpers, OperationFollowsTasks, Urls
<1>2. CASE c # u
  BY <1>1, <1>2 DEF UrlStep, Keeps, CallKept
<1>3. CASE c = u /\ Keeps(u)
  BY <1>1, <1>3 DEF Keeps, CallKept
<1>4. CASE c = u /\ (Asks(u) \/ Renders(u) \/ Starves(u) \/ Fails(u))
  BY <1>1, <1>4 DEF Asks, Renders, Rendering, Starves, Starved, Fails, Due
<1>5. CASE c = u /\ (Gets(u) \/ Reads(u))
  BY <1>1, <1>5 DEF Gets, Reads, CallKept
<1> QED BY <1>2, <1>3, <1>4, <1>5 DEF UrlStep, UrlMove

LEMMA RendersFollowed ==
    ASSUME FetchInv, NEW u \in Urls, UrlStep(u) PROVE TasksFollowRenders'
<1> SUFFICES ASSUME NEW v \in Urls
             PROVE  /\ task'[v] \in {"queued", "helper"} => child'[v] = "none"
                    /\ task'[v] = "render" <=> child'[v] # "none" /\ settled'[v] = "no"
                    /\ task'[v] = "render" => listening'[v]
                    /\ child'[v] = "none" => ~ listening'[v] /\ output'[v] = "nothing"
                    /\ task'[v] = "pdf" \/ document'[v] = "page" => output'[v] = "read"
  BY DEF TasksFollowRenders
<1>1. /\ task[v] \in {"queued", "helper"} => child[v] = "none"
      /\ task[v] = "render" <=> child[v] # "none" /\ settled[v] = "no"
      /\ task[v] = "render" => listening[v]
      /\ child[v] = "none" => ~ listening[v] /\ output[v] = "nothing"
      /\ task[v] = "pdf" \/ document[v] = "page" => output[v] = "read"
      /\ document[v] # "none" <=> task[v] = "done"
  BY DEF FetchInv, TasksFollowRenders, OperationFollowsTasks
<1>2. CASE Keeps(v)
  BY <1>1, <1>2 DEF Keeps, CallGoesOn
<1>3. CASE v = u /\ Asks(u)
  BY <1>1, <1>3 DEF Asks, BrowserKept
<1>4. CASE v = u /\ (Renders(u) \/ Starves(u))
  BY <1>1, <1>4 DEF Renders, Rendering, Starves, Starved, Due
<1>5. CASE v = u /\ Fails(u)
  BY <1>1, <1>5 DEF Fails, Due, BrowserKept
<1>6. CASE v = u /\ Gets(u)
  BY <1>1, <1>6 DEF Gets, CallGoesOn
<1>7. CASE v = u /\ Reads(u)
  BY <1>1, <1>7 DEF Reads, CallGoesOn
<1> QED BY <1>2, <1>3, <1>4, <1>5, <1>6, <1>7 DEF UrlStep, UrlMove

LEMMA OperationFollowed ==
    ASSUME FetchInv, NEW u \in Urls, UrlStep(u) PROVE OperationFollowsTasks'
<1>1. input' = input /\ \A v \in Urls \ {u} : task'[v] = task[v] /\ document'[v] = document[v]
  BY DEF UrlStep, Keeps
<1>2. task[u] # "queued" => u \in ToSet(input) /\ operation \notin {"new", "refused"}
  BY DEF FetchInv, OperationFollowsTasks
<1>3. /\ document'[u] # "none" <=> task'[u] = "done"
      /\ task'[u] # "queued" => u \in ToSet(input) /\ operation \notin {"new", "refused"}
      /\ task'[u] # task[u] => task[u] # "done"
  <2>1. document[u] # "none" <=> task[u] = "done"
    BY DEF FetchInv, OperationFollowsTasks
  <2>2. CASE Keeps(u)
    BY <1>2, <2>1, <2>2 DEF Keeps
  <2>3. CASE Asks(u) \/ Renders(u) \/ Starves(u) \/ Fails(u)
    BY <1>2, <2>1, <2>3 DEF Asks, Renders, Rendering, Starves, Starved, Fails, Due
  <2>4. CASE Gets(u) \/ Reads(u)
    BY <1>2, <2>1, <2>4 DEF Gets, Reads
  <2> QED BY <2>2, <2>3, <2>4 DEF UrlStep, UrlMove
<1>4. /\ operation' \in {"new", "refused"} => operation' = operation
      /\ operation' \in {"answering", "resolved"} /\ operation' # operation =>
           task'[u] = "done" /\ \A v \in ToSet(input) \ {u} : task[v] = "done"
  BY DEF UrlStep, UrlMove, Keeps, Asks, Renders, Rendering, Starves, Starved, Fails, Gets,
         Reads
<1>5. operation' \in {"answering", "resolved"} => \A v \in ToSet(input) : task'[v] = "done"
  <2>1. \A v \in ToSet(input) : v \in Urls
    BY FetchTypes, FetchAssumption DEF FetchInv, FetchAssumption
  <2> QED BY <1>1, <1>3, <1>4, <2>1 DEF FetchInv, OperationFollowsTasks
<1>6. operation \notin {"new", "refused"} => operation' \notin {"new", "refused"}
  BY <1>4
<1> QED
  BY <1>1, <1>3, <1>5, <1>6 DEF FetchInv, OperationFollowsTasks

\* While a URL is due the operation fetches or has failed.
LEMMA DueWhileFetching ==
    ASSUME FetchInv, NEW u \in Urls, Due(u) PROVE operation \in {"fetching", "rejected"}
<1>1. operation \in Operations
  BY FetchTypes DEF FetchInv, TaskTypes
<1>2. u \in ToSet(input) /\ operation \notin {"new", "refused"} /\ task[u] # "done"
  BY DEF Due, FetchInv, OperationFollowsTasks
<1> QED
  BY <1>1, <1>2 DEF Operations, FetchInv, OperationFollowsTasks

LEMMA UnheardStep ==
    ASSUME FetchInv, ~ lost, NEW u \in Urls, UrlStep(u) PROVE Unheard' /\ FailsForAReason'
<1>1. operation = "rejected" => operation' = "rejected"
  BY DEF UrlStep, UrlMove, Keeps, Asks, Renders, Rendering, Starves, Starved, Fails, Gets,
         Reads
<1>2. cancelled' = cancelled /\ forced' = forced
  BY DEF UrlStep
<1>3. Unheard'
  <2> SUFFICES ASSUME NEW v \in Urls, child'[v] = "unspawned", ~ listening'[v]
               PROVE  cancelled /\ operation' = "rejected"
    BY <1>2 DEF Unheard
  <2>1. CASE CallGoesOn(v)
    BY <1>1, <2>1 DEF CallGoesOn, FetchInv, Unheard
  <2>2. CASE BrowserKept(v)
    BY <1>1, <2>2 DEF BrowserKept, FetchInv, Unheard
  <2>3. CASE v = u /\ Fails(u) /\ ~ BrowserKept(u)
    <3>1. child[u] = "none" /\ cancelled
      BY <2>3 DEF Fails
    <3>2. task[u] # "pdf"
      BY <3>1, <2>3 DEF FetchInv, TasksFollowRenders
    <3> QED BY <2>3, <3>1, <3>2, DueWhileFetching DEF Fails
  <2> QED
    BY <2>1, <2>2, <2>3
    DEF UrlStep, UrlMove, Keeps, Asks, Renders, Rendering, Starves, Starved, Gets, Reads
<1>4. FailsForAReason'
  <2>1. \A v \in Malformed : task[v] = "rejected" => task'[v] = "rejected"
    <3>1. \A v \in Malformed : v \in Urls
      BY DEF Urls
    <3> QED
      BY <3>1 DEF UrlStep, UrlMove, Keeps, Asks, Renders, Starves, Fails, Gets, Reads, Due
  <2>2. operation' = "rejected" /\ operation # "rejected" =>
          cancelled \/ forced \/ \E v \in Malformed : task'[v] = "rejected"
    BY DEF UrlStep, UrlMove, Keeps, Asks, Renders, Rendering, Starves, Starved, Fails, Gets,
           Reads
  <2>3. lost' => \/ cancelled /\ operation' = "rejected"
                 \/ child'[u] = "starved"
    BY <1>1 DEF UrlStep, EventUnheard, FetchInv, Unheard
  <2> QED
    BY <1>1, <1>2, <2>1, <2>2, <2>3 DEF FetchInv, FailsForAReason
<1> QED BY <1>3, <1>4

LEMMA UrlStepKeeps ==
    ASSUME FetchInv, HelperInv', ~ lost, NEW u \in Urls, UrlStep(u) PROVE FetchInv'
<1>1. /\ forced' \in BOOLEAN /\ answers' \in BOOLEAN /\ cancelled' \in BOOLEAN
      /\ input' \in Inputs
  BY FetchTypes DEF FetchInv, UrlStep
<1>2. FetchTypeOK'
  BY <1>1, ActiveStep DEF UrlStep, FetchTypeOK, TaskTypes, TaskStates, Operations, HelperInv
<1> QED
  BY <1>1, <1>2, ActiveStep, HelpersFollowed, RendersFollowed, OperationFollowed,
     UnheardStep
  DEF FetchInv
-----------------------------------------------------------------------------
(* The steps of the operation itself.                                       *)

LEMMA AcceptKeeps == ASSUME FetchInv, HelperInv', ~ lost, Accept PROVE FetchInv'
<1>1. /\ operation = "new" /\ operation' \in {"refused", "fetching"}
      /\ UNCHANGED <<input, forced, answers, cancelled, task, document, vars, browserVars>>
  BY DEF Accept
<1>2. Active' = Active
  BY <1>1 DEF Active
<1>3. FetchTypeOK' /\ input' \in Inputs
  BY <1>1, <1>2 DEF FetchInv, HelperInv, FetchTypeOK, Browser!BrowserTypeOK, browserVars
<1>4. TasksFollowHelpers' /\ TasksFollowRenders'
  BY <1>1 DEF FetchInv, TasksFollowHelpers, TasksFollowRenders, vars, browserVars
<1>5. OperationFollowsTasks'
  BY <1>1 DEF FetchInv, OperationFollowsTasks
<1>6. Unheard' /\ FailsForAReason'
  BY <1>1 DEF FetchInv, Unheard, FailsForAReason, browserVars
<1> QED
  BY <1>2, <1>3, <1>4, <1>5, <1>6 DEF FetchInv

\* The signal makes exactly the renders under way fail.
LEMMA CancelKeeps == ASSUME FetchInv, HelperInv', ~ lost, Cancel PROVE FetchInv'
<1> DEFINE C == {u \in Urls : task[u] = "render" /\ settled'[u] # settled[u]}
<1>1. TypeOK /\ TaskTypes /\ Browser!BrowserTypeOK
  BY FetchTypes DEF FetchInv
<1>2. /\ cancelled' = TRUE /\ RejectAll(C)
      /\ UNCHANGED <<input, forced, answers, child, output, listening, lost>>
      /\ settled' = [u \in Urls |-> IF u \in Urls /\ listening[u] /\ settled[u] = "no"
                                    THEN "error" ELSE settled[u]]
  BY DEF Cancel, Browser!AbortCalls
<1>3. C \in SUBSET Urls
  OBVIOUS
<1>4. /\ TaskTypes' /\ document' = document
      /\ \A v \in C : task'[v] = "rejected"
      /\ \A v \in Urls \ C : task'[v] = task[v]
      /\ operation' = IF operation = "fetching" /\ C # {} THEN "rejected" ELSE operation
  <2> HIDE DEF C
  <2> QED BY <1>1, <1>2, <1>3, RejectEffect
<1>5. \A u \in Urls : /\ settled'[u] = IF listening[u] /\ settled[u] = "no" THEN "error"
                                       ELSE settled[u]
                      /\ u \in C <=> task[u] = "render" /\ listening[u] /\ settled[u] = "no"
                      /\ u \in C => child[u] # "none"
  BY <1>1, <1>2 DEF FetchInv, TasksFollowRenders
<1>6. \A c \in Calls : stage'[c] = stage[c] /\ outcome'[c] = outcome[c]
  BY DEF Cancel, Abort, vars
<1> HIDE DEF C
<1>7. Browser!BrowserTypeOK'
  BY <1>1, <1>2 DEF Browser!BrowserTypeOK
<1>8. IsFiniteSet(Active') /\ Cardinality(Active') <= Concurrency
  <2>1. Active' \subseteq Active
    BY <1>3, <1>4 DEF Active
  <2>2. /\ IsFiniteSet(Active) /\ Cardinality(Active) <= Concurrency
        /\ Concurrency \in Nat /\ Cardinality(Active) \in Nat
    BY FetchTypes, FetchAssumption, FS_CardinalityType DEF FetchInv, FetchAssumption
  <2> QED BY <2>1, <2>2, FS_Subset, FS_CardinalityType
<1>9. FetchTypeOK' /\ input' \in Inputs
  BY <1>2, <1>4, <1>7, <1>8
  DEF FetchInv, HelperInv, FetchTypeOK, TaskTypes, TaskStates, Operations
<1>10. TasksFollowHelpers'
  <2>1. \A c \in Calls : c \in Urls
    BY DEF Urls
  <2> QED BY <1>4, <1>5, <1>6, <2>1 DEF FetchInv, TasksFollowHelpers
<1>11. TasksFollowRenders'
  BY <1>2, <1>4, <1>5 DEF FetchInv, TasksFollowRenders
<1>12. OperationFollowsTasks'
  <2>1. \A u \in C : u \in Urls /\ task[u] = "render"
    BY <1>3, <1>5
  <2>2. \A v \in ToSet(input) : v \in Urls
    BY FetchAssumption DEF FetchInv, FetchAssumption
  <2>3. operation' \in {"new", "refused"} => operation = operation'
    BY <1>4
  <2>4. \A u \in Urls : document'[u] # "none" <=> task'[u] = "done"
    BY <1>4, <2>1 DEF FetchInv, OperationFollowsTasks
  <2>5. \A u \in Urls : task'[u] # "queued" =>
          u \in ToSet(input') /\ operation' \notin {"new", "refused"}
    BY <1>2, <1>4, <2>1, <2>3 DEF FetchInv, OperationFollowsTasks
  <2>6. operation' \in {"answering", "resolved"} =>
          \A u \in ToSet(input') : task'[u] = "done"
    BY <1>2, <1>4, <2>1, <2>2 DEF FetchInv, OperationFollowsTasks
  <2> QED BY <2>4, <2>5, <2>6 DEF OperationFollowsTasks
<1>13. Unheard' /\ FailsForAReason'
  <2>1. operation = "rejected" => operation' = "rejected"
    BY <1>4
  <2> QED BY <1>2, <2>1 DEF FetchInv, Unheard, FailsForAReason
<1> QED
  BY <1>8, <1>9, <1>10, <1>11, <1>12, <1>13 DEF FetchInv

LEMMA AnswerKeeps ==
    ASSUME FetchInv, HelperInv', ~ lost, NEW u \in Urls, Answer(u) PROVE FetchInv'
<1>1. TaskTypes
  BY FetchTypes DEF FetchInv
<1>2. /\ operation = "answering" /\ operation' \in {"answering", "resolved"}
      /\ document[u] # "none"
      /\ UNCHANGED <<input, forced, answers, cancelled, task, vars, browserVars>>
  BY DEF Answer
<1>3. PICK from \in {"answer", "answer failed", "no answer"} :
        document' = [document EXCEPT ![u] = from]
  BY DEF Answer
<1>4. /\ document' \in [Urls -> Sources] /\ document'[u] = from
      /\ \A v \in Urls \ {u} : document'[v] = document[v]
  BY <1>1, <1>3 DEF TaskTypes, Sources
<1>5. Active' = Active
  BY <1>2 DEF Active
<1>6. FetchTypeOK' /\ input' \in Inputs
  BY <1>2, <1>4, <1>5 DEF FetchInv, HelperInv, FetchTypeOK, Browser!BrowserTypeOK, browserVars
<1>7. TasksFollowHelpers' /\ TasksFollowRenders'
  <2>1. \A v \in Urls : document'[v] \in {"helper", "page"} => document[v] = document'[v]
    BY <1>4
  <2>2. \A c \in Calls : c \in Urls
    BY DEF Urls
  <2> QED
    BY <1>2, <2>1, <2>2 DEF FetchInv, TasksFollowHelpers, TasksFollowRenders, vars, browserVars
<1>8. OperationFollowsTasks'
  BY <1>2, <1>4 DEF FetchInv, OperationFollowsTasks
<1>9. Unheard' /\ FailsForAReason'
  BY <1>2 DEF FetchInv, Unheard, FailsForAReason, browserVars
<1> QED
  BY <1>5, <1>6, <1>7, <1>8, <1>9 DEF FetchInv

\* The event of a helper changes nothing but that the agent is lost.
LEMMA HelperErrorKeeps ==
    ASSUME FetchInv, HelperInv', NEW u \in Urls, HelperErrorUnheard(u) PROVE FetchInv'
<1>1. /\ u \in Calls /\ Unstarted(u) /\ lost'
      /\ UNCHANGED <<vars, input, forced, answers, cancelled, operation, task, document,
                     child, output, listening, settled>>
  BY DEF HelperErrorUnheard, fetchVars
<1>2. Active' = Active
  BY <1>1 DEF Active
<1>3. FetchTypeOK' /\ input' \in Inputs
  BY <1>1, <1>2 DEF FetchInv, HelperInv, FetchTypeOK, Browser!BrowserTypeOK, HelperErrorUnheard
<1>4. TasksFollowHelpers' /\ TasksFollowRenders' /\ OperationFollowsTasks' /\ Unheard'
  BY <1>1
  DEF FetchInv, TasksFollowHelpers, TasksFollowRenders, OperationFollowsTasks, Unheard, vars
<1>5. FailsForAReason'
  <2>1. Unstarted(u)'
    BY <1>1 DEF Unstarted, vars
  <2> QED BY <1>1, <2>1 DEF FetchInv, FailsForAReason
<1> QED BY <1>2, <1>3, <1>4, <1>5 DEF FetchInv

LEMMA FetchHelpers == FetchInv /\ [FetchNext]_allVars => HelperInv'
<1> SUFFICES ASSUME FetchInv, [FetchNext]_allVars PROVE HelperInv'
  OBVIOUS
<1>1. HelperInv
  BY DEF FetchInv
<1>2. CASE UNCHANGED vars
  BY <1>1, <1>2, HelperInvKept
<1>3. CASE HelperStep
  BY <1>1, <1>3, HelperInvStep
<1>4. HelperStep \/ UNCHANGED vars
  <2>1. CASE Cancel
    <3>1. UNCHANGED vars \/ Abort(Calls)
      BY <2>1 DEF Cancel
    <3> QED BY <3>1 DEF HelperStep
  <2>2. ASSUME NEW u \in Urls, StartHelper(u) \/ HelperProceeds(u) PROVE HelperStep
    BY <2>2 DEF StartHelper, HelperProceeds, Continue, HelperStep
  <2>3. CASE UNCHANGED allVars
    BY <2>3 DEF allVars
  <2> QED
    BY <2>1, <2>2, <2>3
    DEF FetchNext, Accept, StartRender, StartMalformed, HelperErrorUnheard, RenderProceeds,
        ReadPdf, Answer
<1> QED BY <1>2, <1>3, <1>4

LEMMA FetchInvStep == FetchInv /\ [FetchNext]_allVars => FetchInv'
<1> SUFFICES ASSUME FetchInv, [FetchNext]_allVars PROVE FetchInv'
  OBVIOUS
<1>1. HelperInv'
  BY FetchHelpers
<1>2. ASSUME ~ lost, NEW u \in Urls,
             \/ StartHelper(u) \/ StartRender(u) \/ StartMalformed(u)
             \/ HelperProceeds(u) \/ RenderProceeds(u) \/ ReadPdf(u)
      PROVE  FetchInv'
  BY <1>1, <1>2, UrlStepKeeps, StartHelperMove, StartOtherMove, HelperProceedsMove,
     RenderProceedsMove, ReadPdfMove
<1>3. CASE UNCHANGED allVars
  <2>1. UNCHANGED <<vars, input, forced, answers, cancelled, operation, task, document,
                    child, output, listening, settled, lost>>
    BY <1>3 DEF allVars, fetchVars, browserVars
  <2>2. Active' = Active
    BY <2>1 DEF Active
  <2>3. FetchTypeOK' /\ input' \in Inputs
    BY <1>1, <2>1, <2>2 DEF FetchInv, HelperInv, FetchTypeOK, Browser!BrowserTypeOK
  <2>4. TasksFollowHelpers' /\ TasksFollowRenders' /\ OperationFollowsTasks'
    BY <2>1 DEF FetchInv, TasksFollowHelpers, TasksFollowRenders, OperationFollowsTasks, vars
  <2>5. Unheard' /\ FailsForAReason'
    BY <2>1 DEF FetchInv, Unheard, FailsForAReason, Unstarted, vars
  <2> QED BY <1>1, <2>2, <2>3, <2>4, <2>5 DEF FetchInv
<1> QED
  BY <1>1, <1>2, <1>3, AcceptKeeps, CancelKeeps, AnswerKeeps, HelperErrorKeeps
  DEF FetchNext

LEMMA FetchInvInit == FetchInit => FetchInv
<1> SUFFICES ASSUME FetchInit PROVE FetchInv
  OBVIOUS
<1>1. HelperInv
  BY HelperInvInit DEF FetchInit
<1>2. Active = {} /\ IsFiniteSet({}) /\ Cardinality({}) = 0
  BY FS_EmptySet DEF FetchInit, Active
<1>3. 0 <= Concurrency
  BY FetchAssumption DEF FetchAssumption
<1>4. Browser!BrowserTypeOK
  BY DEF FetchInit, Browser!Init, Browser!BrowserTypeOK
<1>5. FetchTypeOK
  BY <1>1, <1>2, <1>3, <1>4 DEF FetchInit, FetchTypeOK, HelperInv, Sources
<1>6. TasksFollowHelpers
  BY DEF FetchInit, Init, TasksFollowHelpers, Urls
<1>7. TasksFollowRenders /\ Unheard
  BY DEF FetchInit, Browser!Init, TasksFollowRenders, Unheard
<1>8. OperationFollowsTasks /\ FailsForAReason
  BY DEF FetchInit, Browser!Init, OperationFollowsTasks, FailsForAReason
<1> QED
  BY <1>1, <1>2, <1>5, <1>6, <1>7, <1>8 DEF FetchInv, FetchInit

LEMMA FetchInvariance == FetchSpec => []FetchInv
<1> QED
  BY FetchInvInit, FetchInvStep, PTL DEF FetchSpec
-----------------------------------------------------------------------------
(* Theorems about fetch_content.                                            *)

\* The types, and the bound of pLimit: never more than Concurrency URLs are with
\* a helper, a browser call or a PDF at once, for any number of URLs.
THEOREM FetchTypeCorrect == FetchSpec => []FetchTypeOK
<1>1. FetchInv => FetchTypeOK
  BY DEF FetchInv
<1> QED BY <1>1, FetchInvariance, PTL

\* The operation fails only if it was cancelled, if clones were asked for, or at a
\* path parseGitHubUrl throws at; and the agent dies of an `error' event nobody
\* listens to only after a cancelled operation has failed, or if there were no
\* descriptors for a process (extract.ts, wildbuzzard-cli.ts, github.ts, youtube.ts).
THEOREM OperationFailsForAReason == FetchSpec => []FailsForAReason
<1>1. FetchInv => FailsForAReason
  BY DEF FetchInv
<1> QED BY <1>1, FetchInvariance, PTL

\* An operation goes on to its answers or resolves with the document of every URL,
\* none from a helper that was ended or a response that was cut off, and leaves no
\* helper running (Promise.all of index.ts).
THEOREM OperationIsWhole == FetchSpec => []WholeOrNothing
<1>1. FetchInv => WholeOrNothing
  <2> SUFFICES ASSUME FetchInv, operation \in {"answering", "resolved"}
               PROVE  /\ \A u \in ToSet(input) : task[u] = "done" /\ document[u] # "none"
                      /\ \A u \in Urls : document[u] = "page" => output[u] = "read"
                      /\ \A u \in Calls : /\ stage[u] # "running"
                                          /\ document[u] = "helper" => outcome[u] = "content"
    BY DEF WholeOrNothing
  <2>1. \A u \in ToSet(input) : u \in Urls
    BY FetchAssumption DEF FetchInv, FetchAssumption
  <2>2. \A u \in ToSet(input) : task[u] = "done" /\ document[u] # "none"
    BY <2>1 DEF FetchInv, OperationFollowsTasks
  <2>3. \A u \in Calls : u \in Urls /\ task[u] # "helper"
    BY <2>2 DEF Urls, FetchInv, OperationFollowsTasks
  <2> QED
    BY <2>2, <2>3 DEF FetchInv, TasksFollowRenders, TasksFollowHelpers
<1> QED BY <1>1, FetchInvariance, PTL
=============================================================================
