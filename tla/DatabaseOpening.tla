--------------------------- MODULE DatabaseOpening ---------------------------
(***************************************************************************)
(* db() and schema() of database.ts: how several agent processes open the   *)
(* one file of the profile, create it, or bring it from schema version 1 to *)
(* 2.  Every statement commits by itself (autocommit), so other processes,  *)
(* an error or a death come in between.  SQLite is external.                *)
(*                                                                          *)
(* The path is one and is not a link.  CREATE TABLE IF NOT EXISTS and its   *)
(* like are one step: repeating part of them changes nothing.               *)
(***************************************************************************)
EXTENDS Naturals

CONSTANTS
    Procs,
    MaxFailures    \* bound: statements that fail, and processes that die

OpeningAssumption == MaxFailures \in Nat

VARIABLES
    file,       \* "absent", "public" (as the umask leaves it) or "private"
    tables,     \* do the tables exist?
    column,     \* has responses its session_scope?
    version,    \* PRAGMA user_version
    at,         \* process -> what it executes next
    read,       \* process -> the version it has read
    failures

vars == <<file, tables, column, version, at, read, failures>>

\* No database, that of the release before, or a current one.
Init ==
    /\ \/ file = "absent"  /\ version = 0 /\ tables = FALSE
       \/ file = "private" /\ version \in {1, 2} /\ tables = TRUE
    /\ column = (version = 2)
    /\ at = [p \in Procs |-> "closed"]
    /\ read = [p \in Procs |-> 0]
    /\ failures = 0

Goto(p, step) == at' = [at EXCEPT ![p] = step]

\* validateExistingDatabase, which throws at a file that others can read.
Validate(p) ==
    /\ at[p] = "closed"
    /\ file # "public"
    /\ Goto(p, "open")
    /\ UNCHANGED <<file, tables, column, version, read, failures>>

\* new DatabaseSync creates the file.
OpenFile(p) ==
    /\ at[p] = "open"
    /\ file' = IF file = "absent" THEN "public" ELSE file
    /\ Goto(p, "chmod")
    /\ UNCHANGED <<tables, column, version, read, failures>>

\* Mutant: only a file that was there is made private.
ChmodNothing(p) ==
    /\ at[p] = "chmod"
    /\ Goto(p, "version")
    /\ UNCHANGED <<file, tables, column, version, read, failures>>

Chmod(p) ==
    /\ at[p] = "chmod"
    /\ file' = "private"
    /\ Goto(p, "version")
    /\ UNCHANGED <<tables, column, version, read, failures>>

\* Mutant: the version is read once in the life of a process.
ReadVersionOnce(p) ==
    /\ at[p] = "version"
    /\ read' = [read EXCEPT ![p] = IF @ = 0 THEN version ELSE @]
    /\ Goto(p, "tables")
    /\ UNCHANGED <<file, tables, column, version, failures>>

ReadVersion(p) ==
    /\ at[p] = "version"
    /\ read' = [read EXCEPT ![p] = version]
    /\ Goto(p, "tables")
    /\ UNCHANGED <<file, tables, column, version, failures>>

\* Tables that are created have the column; those that exist stay as they are.
CreateTables(p) ==
    /\ at[p] = "tables"
    /\ tables' = TRUE
    /\ column' = (column \/ ~tables)
    /\ Goto(p, IF read[p] = 1 THEN "alter" ELSE "finish")
    /\ UNCHANGED <<file, version, read, failures>>

\* ALTER TABLE ... ADD COLUMN; it is an error if the column is there.
AddColumn(p) ==
    /\ at[p] = "alter"
    /\ column' = TRUE
    /\ Goto(p, IF column THEN "closed" ELSE "finish")
    /\ UNCHANGED <<file, tables, version, read, failures>>

\* The index on the column, and PRAGMA user_version = 2.
Finish(p) ==
    /\ at[p] = "finish"
    /\ column
    /\ version' = 2
    /\ Goto(p, "ready")
    /\ UNCHANGED <<file, tables, column, read, failures>>

\* A statement that another process keeps from the lock for too long, any
\* other error, or the death of the process; also that of one that is ready.
Fail(p) ==
    /\ at[p] # "closed"
    /\ failures < MaxFailures
    /\ failures' = failures + 1
    /\ Goto(p, "closed")
    /\ UNCHANGED <<file, tables, column, version, read>>

Step(p) ==
    \/ Validate(p) \/ OpenFile(p) \/ Chmod(p) \/ ReadVersion(p)
    \/ CreateTables(p) \/ AddColumn(p) \/ Finish(p)

Next == \E p \in Procs : Step(p) \/ Fail(p)

\* A process calls db() again for every storage operation.
Spec == Init /\ [][Next]_vars /\ \A p \in Procs : WF_vars(Step(p))

-----------------------------------------------------------------------------
(* Properties.                                                              *)

\* What db() hands out is a private file with the whole schema, also when the
\* processes that create or migrate it overlap or fail half way.
OpenedIsComplete ==
    \A p \in Procs : at[p] = "ready" =>
        file = "private" /\ tables /\ column /\ version = 2

\* No process can open the file again: it is public for ever, or ALTER TABLE
\* fails for ever.
Unopenable ==
    \/ file = "public" /\ \A p \in Procs : at[p] \notin {"open", "chmod"}
    \/ version = 1 /\ column /\ \A p \in Procs : at[p] # "finish"

\* The file becomes unopenable only by a failure while it is being created or
\* altered, never by processes that merely get in each other's way.
UnopenableByFailureOnly ==
    [][~Unopenable /\ Unopenable'
       => \E p \in Procs : at[p] \in {"open", "chmod", "finish"} /\ Fail(p)]_vars

\* Otherwise every process gets its database, those refused on the way too.
OpensAtLast ==
    \A p \in Procs : <>[](at[p] = "ready" \/ Unopenable)
=============================================================================
