------------------------ MODULE ContentDatabaseParts ------------------------
(* The two models of the database side by side: a behaviour is one of open   *)
(* databases, or one of a database being opened.                             *)
EXTENDS ContentDatabase

CONSTANT MaxFailures

VARIABLES part, file, tables, column, version, at, read, failures

-----------------------------------------------------------------------------
Opening == INSTANCE DatabaseOpening

ASSUME OpeningIsBounded == Opening!OpeningAssumption

openingVars == <<file, tables, column, version, at, read, failures>>

PartsInit ==
    /\ part \in {"calls", "opening"}
    /\ Init /\ Opening!Init /\ (part = "calls" => file = "absent")

PartsNext ==
    /\ UNCHANGED part
    /\ \/ part = "calls" /\ Next /\ UNCHANGED openingVars
       \/ part = "opening" /\ Opening!Next /\ UNCHANGED vars

PartsStep(p) ==
    \/ part = "calls" /\ Step(p) /\ UNCHANGED openingVars
    \/ part = "opening" /\ Opening!Step(p) /\ UNCHANGED vars

\* The fairness of the parts: FairSpec of ContentDatabase, Spec of the other.
PartsSpec ==
    /\ PartsInit /\ [][PartsNext]_<<part, vars, openingVars>>
    /\ \A p \in Procs : WF_<<vars, openingVars>>(PartsStep(p))

OpenedIsComplete == Opening!OpenedIsComplete
UnopenableByFailureOnly == Opening!UnopenableByFailureOnly

\* Every process gets its database or finds it unopenable.
OpensAtLast == part = "opening" => Opening!OpensAtLast
=============================================================================
