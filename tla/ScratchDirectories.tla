------------------------- MODULE ScratchDirectories -------------------------
(***************************************************************************)
(* The scratch directories of extractGitHub in the common temporary         *)
(* directory: every extraction of any agent process first removes those     *)
(* that have not changed for an hour (cleanupStaleDirectories), then makes  *)
(* its own, and removes that in the end.  A process that dies leaves its    *)
(* directory to the others.  Git's commands are those of Helper, here only  *)
(* the time they take: each of them is ended when its timeout has passed.   *)
(***************************************************************************)
EXTENDS Integers

CONSTANTS
    Procs,
    Names,       \* bound: directories at one time
    NoName,
    Commands,    \* git commands of one extraction, 9 at most
    Timeout,     \* of a command, 45 s
    Stale        \* the age above which a directory is removed, an hour

\* 9 * 45 s <= 3600 s
ScratchAssumption ==
    /\ NoName \notin Names
    /\ Commands \in Nat \ {0} /\ Timeout \in Nat \ {0} /\ Stale \in Nat
    /\ Commands * Timeout <= Stale

Absent == -1

VARIABLES
    age,       \* name -> time since the directory changed, or Absent
    held,      \* process -> the directory of its extraction
    command,   \* process -> the commands it has started
    spent,     \* process -> time the current one has taken
    jumped     \* has the clock gone faster than the timers (a suspend, a change)?

vars == <<age, held, command, spent, jumped>>

Init ==
    /\ age = [d \in Names |-> Absent]
    /\ held = [p \in Procs |-> NoName]
    /\ command = [p \in Procs |-> 0]
    /\ spent = [p \in Procs |-> 0]
    /\ jumped = FALSE

\* Mutant: what is older than a command may take is stale.
BeginEager(p) ==
    /\ held[p] = NoName
    /\ \E own \in {d \in Names : age[d] = Absent} :
         /\ age' = [d \in Names |-> IF d = own THEN 0
                                    ELSE IF age[d] > Timeout THEN Absent ELSE age[d]]
         /\ held' = [held EXCEPT ![p] = own]
    /\ command' = [command EXCEPT ![p] = 1]
    /\ spent' = [spent EXCEPT ![p] = 0]
    /\ UNCHANGED jumped

\* cleanupStaleDirectories and mkdtempSync; the first command is spawned.
Begin(p) ==
    /\ held[p] = NoName
    /\ \E own \in {d \in Names : age[d] = Absent} :
         /\ age' = [d \in Names |-> IF d = own THEN 0
                                    ELSE IF age[d] > Stale THEN Absent ELSE age[d]]
         /\ held' = [held EXCEPT ![p] = own]
    /\ command' = [command EXCEPT ![p] = 1]
    /\ spent' = [spent EXCEPT ![p] = 0]
    /\ UNCHANGED jumped

\* The next command.  The one that has ended has changed the directory itself
\* (git init makes the checkout in it), or only what is below it.
NextCommand(p) ==
    /\ held[p] # NoName
    /\ command[p] < Commands
    /\ command' = [command EXCEPT ![p] = @ + 1]
    /\ spent' = [spent EXCEPT ![p] = 0]
    /\ \/ age' = age
       \/ age[held[p]] # Absent /\ age' = [age EXCEPT ![held[p]] = 0]
    /\ UNCHANGED <<held, jumped>>

\* The extraction ends, with a result or not: safeRemove.
End(p) ==
    /\ held[p] # NoName
    /\ age' = [age EXCEPT ![held[p]] = Absent]
    /\ held' = [held EXCEPT ![p] = NoName]
    /\ UNCHANGED <<command, spent, jumped>>

Die(p) ==
    /\ held[p] # NoName
    /\ held' = [held EXCEPT ![p] = NoName]
    /\ UNCHANGED <<age, command, spent, jumped>>

\* Ages above Stale are alike.
Older(by) == [d \in Names |-> IF age[d] = Absent THEN Absent
                              ELSE IF age[d] + by > Stale THEN Stale + 1 ELSE age[d] + by]

Tick ==
    /\ \A p \in Procs : held[p] # NoName => spent[p] < Timeout
    /\ age' = Older(1)
    /\ spent' = [p \in Procs |-> IF held[p] # NoName THEN spent[p] + 1 ELSE spent[p]]
    /\ UNCHANGED <<held, command, jumped>>

\* The machine wakes up: directories have aged, timers have not.
Jump ==
    /\ ~jumped
    /\ jumped' = TRUE
    /\ age' = Older(Stale + 1)
    /\ UNCHANGED <<held, command, spent>>

Next ==
    \/ Tick \/ Jump
    \/ \E p \in Procs : Begin(p) \/ NextCommand(p) \/ End(p) \/ Die(p)

Spec == Init /\ [][Next]_vars

-----------------------------------------------------------------------------
\* An extraction keeps its directory until it ends, however long its commands
\* take and whatever other processes clean up, unless the clock jumps.
LiveDirectoriesStay ==
    \A p \in Procs : held[p] # NoName /\ ~jumped => age[held[p]] # Absent
=============================================================================
