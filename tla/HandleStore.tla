----------------------------- MODULE HandleStore -----------------------------
(***************************************************************************)
(* What the web tools promise about response handles, without processes,    *)
(* caches or a database: a handle is issued once, to one session, with an   *)
(* expiry; an answer to get_web_content is only ever given to the session   *)
(* the handle was issued to, and only before it expires.  An answer may     *)
(* also be refused at any time (eviction, a failing database), which shows  *)
(* as a quiet step.                                                         *)
(***************************************************************************)
EXTENDS Naturals

CONSTANTS Ids, Sessions, Ttl, NoHandle, NoAnswer

VARIABLES
    clock,   \* wall time
    handle,  \* [Ids -> [owner, expires] or NoHandle]
    reply    \* what this step answered: [id, to], or NoAnswer

vars == <<clock, handle, reply>>

Init ==
    /\ clock = 0
    /\ handle = [id \in Ids |-> NoHandle]
    /\ reply = NoAnswer

Tick ==
    /\ clock' = clock + 1
    /\ reply' = NoAnswer
    /\ UNCHANGED handle

Issue(s, id) ==
    /\ handle[id] = NoHandle
    /\ handle' = [handle EXCEPT ![id] = [owner |-> s, expires |-> clock + Ttl]]
    /\ reply' = NoAnswer
    /\ UNCHANGED clock

Answer(s, id) ==
    /\ handle[id] # NoHandle
    /\ handle[id].owner = s
    /\ clock < handle[id].expires
    /\ reply' = [id |-> id, to |-> s]
    /\ UNCHANGED <<clock, handle>>

\* Anything else: work going on, or a request refused.
Quiet ==
    /\ reply' = NoAnswer
    /\ UNCHANGED <<clock, handle>>

Next ==
    \/ Tick
    \/ Quiet
    \/ \E s \in Sessions, id \in Ids : Issue(s, id) \/ Answer(s, id)

Spec == Init /\ [][Next]_vars
=============================================================================
