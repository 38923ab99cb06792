---------------------------- MODULE BrowserCall ----------------------------
(***************************************************************************)
(* callBrowserTool of extensions/web-access/wildbuzzard-cli.ts: one child   *)
(* process for each call, settled by its exit, an error of spawn, too much  *)
(* output, or the signal.  Nothing here has a timeout, and SIGTERM is all a *)
(* child is sent; it may go on, so sending it leaves no trace.              *)
(*                                                                          *)
(* A child that could not be spawned has its pipes and an `error' event to  *)
(* come.  Only where there were no descriptors (EMFILE, ENFILE) it has no   *)
(* pipes: child.stdout is undefined, and using it throws before there is a  *)
(* listener for the event.  A spawn that throws is one whose event does not *)
(* come, which nothing here forces.                                         *)
(***************************************************************************)
EXTENDS Naturals

CONSTANTS Renders      \* the calls

VARIABLES
    child,       \* "none", "up", "unspawned", "starved" of descriptors, or "gone"
    output,      \* the response: "nothing", "written" by the child, "read" by us
    listening,   \* are the listeners of the child in place?
    settled,     \* "no", "result" or "error"
    lost         \* has an `error' event found no listener? Then the agent dies.

vars == <<child, output, listening, settled, lost>>

Init ==
    /\ child = [r \in Renders |-> "none"]
    /\ output = [r \in Renders |-> "nothing"]
    /\ listening = [r \in Renders |-> FALSE]
    /\ settled = [r \in Renders |-> "no"]
    /\ lost = FALSE

\* Mutant: the signal is not looked at before it is listened to.
CallUnaborted(r, aborted) ==
    /\ child[r] = "none"
    /\ \E c \in {"up", "unspawned", "starved"} :
         /\ child' = [child EXCEPT ![r] = c]
         /\ listening' = [listening EXCEPT ![r] = c # "starved"]
         /\ settled' = [settled EXCEPT ![r] = IF listening'[r] THEN "no" ELSE "error"]
    /\ UNCHANGED <<output, lost>>

\* The call rejects at once where spawn or the use of child.stdout throws, and
\* for a signal that has already fired; no listener is in place then.
Call(r, aborted) ==
    /\ child[r] = "none"
    /\ \E c \in {"up", "unspawned", "starved"} :
         /\ child' = [child EXCEPT ![r] = c]
         /\ listening' = [listening EXCEPT ![r] = c # "starved" /\ ~aborted]
         /\ settled' = [settled EXCEPT ![r] = IF listening'[r] THEN "no" ELSE "error"]
    /\ UNCHANGED <<output, lost>>

Finish(r, how) == settled' = [settled EXCEPT ![r] = IF @ = "no" THEN how ELSE @]

\* The signal fires: every call that listens rejects.
AbortCalls(C) ==
    /\ settled' = [r \in Renders |->
                     IF r \in C /\ listening[r] /\ settled[r] = "no" THEN "error"
                     ELSE settled[r]]
    /\ UNCHANGED <<child, output, listening, lost>>

\* The child writes a response that says ok and has the right form; what it
\* writes to a call that has settled changes nothing.
Respond(r) ==
    /\ child[r] = "up"
    /\ settled[r] = "no"
    /\ output[r] = "nothing"
    /\ output' = [output EXCEPT ![r] = "written"]
    /\ UNCHANGED <<child, listening, settled, lost>>

\* The whole of it arrives.
ReadOutput(r) ==
    /\ output[r] = "written"
    /\ settled[r] = "no"
    /\ output' = [output EXCEPT ![r] = "read"]
    /\ UNCHANGED <<child, listening, settled, lost>>

\* More than 64 MiB of output, or 1 MiB of diagnostics.
Oversized(r) ==
    /\ child[r] = "up"
    /\ settled[r] = "no"
    /\ Finish(r, "error")
    /\ UNCHANGED <<child, output, listening, lost>>

\* Mutant: the exit status alone decides.
ExitByStatus(r) ==
    /\ child[r] = "up"
    /\ child' = [child EXCEPT ![r] = "gone"]
    /\ \E code \in {"zero", "nonzero"} :
         Finish(r, IF code = "zero" THEN "result" ELSE "error")
    /\ UNCHANGED <<output, listening, lost>>

\* `exit', not `close': what is still in the pipe is not waited for.
Exit(r) ==
    /\ child[r] = "up"
    /\ child' = [child EXCEPT ![r] = "gone"]
    /\ \E code \in {"zero", "nonzero"} :
         Finish(r, IF code = "zero" /\ output[r] = "read" THEN "result" ELSE "error")
    /\ UNCHANGED <<output, listening, lost>>

\* The `error' event of a child that could not be spawned.
SpawnError(r) ==
    /\ child[r] = "unspawned" /\ listening[r]
    /\ child' = [child EXCEPT ![r] = "gone"]
    /\ Finish(r, "error")
    /\ UNCHANGED <<output, listening, lost>>

\* The event of a child that nobody listens to.
SpawnErrorUnheard(r) ==
    /\ child[r] \in {"unspawned", "starved"} /\ ~listening[r]
    /\ lost' = TRUE
    /\ UNCHANGED <<child, output, listening, settled>>

Step(r) ==
    \/ Respond(r) \/ ReadOutput(r) \/ Oversized(r) \/ Exit(r)
    \/ SpawnError(r) \/ SpawnErrorUnheard(r)

BrowserTypeOK ==
    /\ child \in [Renders -> {"none", "up", "unspawned", "starved", "gone"}]
    /\ output \in [Renders -> {"nothing", "written", "read"}]
    /\ listening \in [Renders -> BOOLEAN]
    /\ settled \in [Renders -> {"no", "result", "error"}]
    /\ lost \in BOOLEAN
=============================================================================
