------------------------------ MODULE WebStore ------------------------------
(***************************************************************************)
(* The web tools' content store: what fetch_content, crawl_content and      *)
(* get_web_content (extensions/web-access/index.ts) do with response        *)
(* handles, together with the in-memory results of storage.ts, the session  *)
(* generation of session-generation.ts, and the database shared by every    *)
(* agent process (database.ts, through ResponseTable).                      *)
(*                                                                          *)
(* An agent is one loaded instance of the extension; the instances of one   *)
(* process share the module-global results map.  JavaScript runs a handler  *)
(* to completion between awaits, so a handler's synchronous tail is one     *)
(* action; a fetch or crawl is a Begin and a later Finish*, with anything   *)
(* in between.  The Pi runtime (which session an agent hosts, when it       *)
(* delivers session events) is external and may act at any moment.          *)
(***************************************************************************)
EXTENDS ResponseTable

CONSTANTS
    Agents, Procs, ProcOf,     \* extension instances, processes, who runs where
    Sessions,                  \* Pi session ids
    TooLarge,                  \* responses whose payload exceeds MAX_RESPONSE_BYTES
    Ttl,                       \* RESULT_TTL_MS
    MaxTime, MaxGenerations,   \* bounds of the model, not of the code
    NoSession, NoOperation, NoContent, NoAnswer

\* sha256 of a fixed prefix and the session id: distinct ids, distinct scopes.
SessionScope(s) == <<"buzzard-agent-web-content-session-v1", s>>

Scopes == {SessionScope(s) : s \in Sessions}

StoredContent == [agent : Agents, owner : Sessions, scope : Scopes, expires : Nat]

ASSUME StoreAssumption ==
    /\ ProcOf \in [Agents -> Procs]
    /\ TooLarge \subseteq Ids
    /\ Ttl \in Nat \ {0}
    /\ MaxTime \in Nat
    /\ MaxGenerations \in Nat
    /\ NoSession \notin Sessions
    /\ NoOperation \notin [session : Sessions, generation : Nat]
    /\ NoContent \notin StoredContent
    /\ NoContent \notin [owner : Sessions, expires : Nat]
    /\ NoAnswer \notin [id : Ids, to : Sessions]

VARIABLES
    now,         \* wall clock, shared by the processes of one machine
    table,       \* committed rows of the database
    results,     \* process -> handles its results map holds
    content,     \* handle -> the StoredContent created under it (never changes)
    log,         \* session -> handles referenced by its entries
    host,        \* agent -> session Pi has it host
    sel, gen,    \* agent -> SessionGeneration's #sessionId and #generation
    op,          \* agent -> the fetch or crawl in flight
    \* history
    left,        \* agents whose selected session changed since op began
    issued,      \* handles a tool result has named
    evicted,     \* unexpired handles a store pushed out of the table
    answer       \* what get_web_content answered in the last step

dbVars == <<table, evicted>>
sessionVars == <<host, sel, gen>>
vars == <<now, table, results, content, log, host, sel, gen, op, left,
          issued, evicted, answer>>

-----------------------------------------------------------------------------
TypeOK ==
    /\ now \in Nat
    /\ IsTable(table, Scopes)
    /\ results \in [Procs -> SUBSET Ids]
    /\ content \in [Ids -> StoredContent \cup {NoContent}]
    /\ log \in [Sessions -> SUBSET Ids]
    /\ host \in [Agents -> Sessions]
    /\ sel \in [Agents -> Sessions \cup {NoSession}]
    /\ gen \in [Agents -> Nat]
    /\ op \in [Agents -> [session : Sessions, generation : Nat] \cup {NoOperation}]
    /\ left \subseteq Agents
    /\ issued \subseteq Ids
    /\ evicted \subseteq Ids
    /\ answer \in [id : Ids, to : Sessions] \cup {NoAnswer}

Init ==
    /\ now = 0
    /\ table = [id \in {} |-> {}]
    /\ results = [p \in Procs |-> {}]
    /\ content = [id \in Ids |-> NoContent]
    /\ log = [s \in Sessions |-> {}]
    /\ host \in [Agents -> Sessions]
    /\ sel = [a \in Agents |-> NoSession]
    /\ gen = [a \in Agents |-> 0]
    /\ op = [a \in Agents |-> NoOperation]
    /\ left = {}
    /\ issued = {}
    /\ evicted = {}
    /\ answer = NoAnswer

\* Every step but an answer of get_web_content.
Silent == answer' = NoAnswer

Tick ==
    /\ now < MaxTime
    /\ now' = now + 1
    /\ Silent
    /\ UNCHANGED <<dbVars, results, content, log, sessionVars, op, left, issued>>

-----------------------------------------------------------------------------
(* The Pi runtime.                                                          *)

\* The live session manager takes another id (an in-memory fork renames it
\* before the running turn is aborted); the extension is told later.
RenameHost(a, s) ==
    /\ s # host[a]
    /\ host' = [host EXCEPT ![a] = s]
    /\ Silent
    /\ UNCHANGED <<now, dbVars, results, content, log, sel, gen, op, left, issued>>

\* A fork starts a session whose log copies part of the forked one's.
ForkHost(a, s) ==
    /\ log[s] = {}
    /\ \A b \in Agents : host[b] # s
    /\ host' = [host EXCEPT ![a] = s]
    /\ \E copied \in SUBSET log[host[a]] : log' = [log EXCEPT ![s] = copied]
    /\ Silent
    /\ UNCHANGED <<now, dbVars, results, content, sel, gen, op, left, issued>>

\* Resume, new or reload: once the turn has settled, the old instance is
\* dropped and a new one is loaded, with its own SessionGeneration.
ReplaceInstance(a, s) ==
    /\ op[a] = NoOperation
    /\ host' = [host EXCEPT ![a] = s]
    /\ sel' = [sel EXCEPT ![a] = NoSession]
    /\ gen' = [gen EXCEPT ![a] = 0]
    /\ Silent
    /\ UNCHANGED <<now, dbVars, results, content, log, op, left, issued>>

-----------------------------------------------------------------------------
(* session_start and before_agent_start: restoreSession.                    *)

\* SessionGeneration.select
Select(a, s) ==
    /\ s # sel[a] => gen[a] < MaxGenerations
    /\ sel' = [sel EXCEPT ![a] = s]
    /\ gen' = [gen EXCEPT ![a] = IF s # sel[a] THEN gen[a] + 1 ELSE gen[a]]
    /\ left' = IF s # sel[a] /\ op[a] # NoOperation THEN left \cup {a} ELSE left

\* Unexpired references of the session's own scope: what restoreContent loads.
Restorable(branch, scope) ==
    {id \in branch : content[id].scope = scope /\ content[id].expires > now}

OutsideScope(p, scope) == {id \in results[p] : content[id].scope # scope}

\* The branch is whichever path of the session's entry tree is current.
RestoreSession(a) ==
    LET s == host[a]
        p == ProcOf[a]
        scope == SessionScope(s)
    IN  /\ Select(a, s)
        /\ \E branch \in SUBSET log[s] :
             LET wanted == Restorable(branch, scope) IN
             IF wanted = {}
             THEN /\ results' = [results EXCEPT ![p] = OutsideScope(p, scope)]
                  /\ UNCHANGED table
             ELSE \E t \in TrimDatabase(table, now) :
                    LET found == RowsOf(t, wanted, scope) IN
                    /\ table' = Touch(t, found, now)
                    /\ results' = [results EXCEPT ![p] =
                                     OutsideScope(p, scope) \cup found]
        /\ Silent
        /\ UNCHANGED <<now, content, log, host, op, issued, evicted>>

\* A load throws part way: the session is selected, its results are gone and
\* only those loaded so far are back.  Pi reports the error and carries on.
RestoreSessionFails(a) ==
    LET s == host[a]
        p == ProcOf[a]
        scope == SessionScope(s)
    IN  /\ Select(a, s)
        /\ \E branch \in SUBSET log[s] :
             /\ Restorable(branch, scope) # {}
             /\ \/ /\ results' = [results EXCEPT ![p] = OutsideScope(p, scope)]
                   /\ UNCHANGED table
                \/ \E t \in TrimDatabase(table, now) :
                   \E loaded \in SUBSET RowsOf(t, Restorable(branch, scope), scope) :
                     /\ table' = Touch(t, loaded, now)
                     /\ results' = [results EXCEPT ![p] =
                                      OutsideScope(p, scope) \cup loaded]
        /\ Silent
        /\ UNCHANGED <<now, content, log, host, op, issued, evicted>>

-----------------------------------------------------------------------------
(* fetch_content and crawl_content.                                         *)

\* beginOperation; a host session other than the selected one throws.
Begin(a) ==
    /\ op[a] = NoOperation
    /\ host[a] = sel[a]
    /\ op' = [op EXCEPT ![a] = [session |-> host[a], generation |-> gen[a]]]
    /\ left' = left \ {a}
    /\ Silent
    /\ UNCHANGED <<now, dbVars, results, content, log, sessionVars, issued>>

\* operation.assertCurrent
AssertCurrentById(a) == sel[a] = op[a].session
AssertCurrent(a) == sel[a] = op[a].session /\ gen[a] = op[a].generation

EndOperation(a) ==
    /\ op' = [op EXCEPT ![a] = NoOperation]
    /\ left' = left \ {a}

\* The operation ends without storing: its work failed, assertCurrent threw,
\* or a document URL bears credentials (persistence suppressed).
FinishWithoutStoring(a) ==
    /\ op[a] # NoOperation
    /\ EndOperation(a)
    /\ Silent
    /\ UNCHANGED <<now, dbVars, results, content, log, sessionVars, issued>>

\* createStoredDocuments
StoredUnderSessionId(a) ==
    [agent |-> a, owner |-> op[a].session,
     scope |-> op[a].session, expires |-> now + Ttl]
StoredDocuments(a) ==
    [agent |-> a, owner |-> op[a].session,
     scope |-> SessionScope(op[a].session), expires |-> now + Ttl]

RowOf(value) == [scope |-> value.scope, expires |-> value.expires, accessed |-> now]

\* purgeExpired on the results of a process
Purged(p) == {id \in results[p] : content[id].expires > now}

\* The operation reaches createStoredDocuments and storeContent, under a new id.
Storing(a, id) ==
    /\ op[a] # NoOperation
    /\ AssertCurrent(a)
    /\ content[id] = NoContent
    /\ content' = [content EXCEPT ![id] = StoredDocuments(a)]

\* purgeExpired's trim, then persistStoredContent commits.
Persist(a, id) ==
    \E t \in TrimDatabase(table, now) :
    \E u \in PersistStoredContent(t, id, RowOf(StoredDocuments(a)), now) :
        /\ table' = u
        /\ evicted' = evicted \cup ((DOMAIN t \cup {id}) \ DOMAIN u)

\* persistDocuments to its end: the response is stored, its reference goes to
\* the log of the session Pi now hosts, and the tool result names the handle.
FinishStored(a, id) ==
    LET p == ProcOf[a] IN
    /\ Storing(a, id)
    /\ id \notin TooLarge
    /\ Persist(a, id)
    /\ results' = [results EXCEPT ![p] = Purged(p) \cup {id}]
    /\ log' = [log EXCEPT ![host[a]] = @ \cup {id}]
    /\ issued' = issued \cup {id}
    /\ EndOperation(a)
    /\ Silent
    /\ UNCHANGED <<now, sessionVars>>

\* The reference is logged and named although persisting threw: storeContent
\* with the error swallowed.
FinishUnpersistedButNamed(a, id) ==
    LET p == ProcOf[a] IN
    /\ Storing(a, id)
    /\ results' = [results EXCEPT ![p] = Purged(p) \cup {id}]
    /\ log' = [log EXCEPT ![host[a]] = @ \cup {id}]
    /\ issued' = issued \cup {id}
    /\ EndOperation(a)
    /\ Silent
    /\ UNCHANGED <<now, dbVars, sessionVars>>

\* storeContent throws (a locked or broken database, a payload too large):
\* in purgeExpired, before the value is in results, or in
\* persistStoredContent, after.  The tool fails; nothing is logged or named.
FinishUnpersisted(a, id) ==
    LET p == ProcOf[a] IN
    /\ Storing(a, id)
    /\ \/ /\ results' = [results EXCEPT ![p] = Purged(p)]
          /\ table' \in {table} \cup TrimDatabase(table, now)
       \/ /\ results' = [results EXCEPT ![p] = Purged(p) \cup {id}]
          /\ table' \in TrimDatabase(table, now)
    /\ EndOperation(a)
    /\ Silent
    /\ UNCHANGED <<now, log, sessionVars, evicted, issued>>

-----------------------------------------------------------------------------
(* get_web_content.  Its id is one some tool result has named.              *)

Reading(a, id) ==
    /\ op[a] = NoOperation
    /\ host[a] = sel[a]
    /\ id \in issued

Held(a, id) ==
    /\ id \in results[ProcOf[a]]
    /\ content[id].scope = SessionScope(host[a])

ReadHeldLate(a, id) ==
    /\ Reading(a, id)
    /\ Held(a, id)
    /\ answer' = [id |-> id, to |-> host[a]]
    /\ UNCHANGED <<now, dbVars, results, content, log, sessionVars, op, left, issued>>

\* results holds the handle: the database, and last_accessed, stay untouched.
ReadHeld(a, id) ==
    /\ Reading(a, id)
    /\ Held(a, id)
    /\ content[id].expires > now
    /\ answer' = [id |-> id, to |-> host[a]]
    /\ UNCHANGED <<now, dbVars, results, content, log, sessionVars, op, left, issued>>

ReadExpired(a, id) ==
    /\ Reading(a, id)
    /\ Held(a, id)
    /\ content[id].expires <= now
    /\ results' = [results EXCEPT ![ProcOf[a]] = @ \ {id}]
    /\ Silent
    /\ UNCHANGED <<now, dbVars, content, log, sessionVars, op, left, issued>>

\* loadStoredContent trims, finds the row of this session and touches it.
ReadStored(a, id) ==
    LET scope == SessionScope(host[a]) IN
    /\ Reading(a, id)
    /\ ~Held(a, id)
    /\ \E t \in TrimDatabase(table, now) :
         /\ RowsOf(t, {id}, scope) # {}
         /\ table' = Touch(t, {id}, now)
    /\ results' = [results EXCEPT ![ProcOf[a]] = @ \cup {id}]
    /\ answer' = [id |-> id, to |-> host[a]]
    /\ UNCHANGED <<now, content, log, sessionVars, op, left, issued, evicted>>

\* "Web content handle is missing or expired", after the load's trim.
ReadMissing(a, id) ==
    /\ Reading(a, id)
    /\ ~Held(a, id)
    /\ \E t \in TrimDatabase(table, now) :
         /\ RowsOf(t, {id}, SessionScope(host[a])) = {}
         /\ table' = t
    /\ Silent
    /\ UNCHANGED <<now, results, content, log, sessionVars, op, left, evicted, issued>>

-----------------------------------------------------------------------------
(* A process dies: its results and its agents' instances go, the database   *)
(* and the session logs stay.  Pi starts the agents again.                  *)

ProcessGone(p) ==
    /\ results' = [results EXCEPT ![p] = {}]
    /\ sel' = [a \in Agents |-> IF ProcOf[a] = p THEN NoSession ELSE sel[a]]
    /\ gen' = [a \in Agents |-> IF ProcOf[a] = p THEN 0 ELSE gen[a]]
    /\ op' = [a \in Agents |-> IF ProcOf[a] = p THEN NoOperation ELSE op[a]]
    /\ left' = {a \in left : ProcOf[a] # p}

Crash(p) ==
    /\ ProcessGone(p)
    /\ Silent
    /\ UNCHANGED <<now, dbVars, content, log, host, issued>>

\* Death between COMMIT and appendEntry: a row no session refers to.
CrashBeforeLogging(a, id) ==
    /\ Storing(a, id)
    /\ id \notin TooLarge
    /\ Persist(a, id)
    /\ ProcessGone(ProcOf[a])
    /\ Silent
    /\ UNCHANGED <<now, log, host, issued>>

-----------------------------------------------------------------------------
AgentStep(a) ==
    \/ \E s \in Sessions :
         RenameHost(a, s) \/ ForkHost(a, s) \/ ReplaceInstance(a, s)
    \/ RestoreSession(a) \/ RestoreSessionFails(a)
    \/ Begin(a) \/ FinishWithoutStoring(a)
    \/ \E id \in Ids :
         \/ FinishStored(a, id) \/ FinishUnpersisted(a, id)
         \/ ReadHeld(a, id) \/ ReadExpired(a, id)
         \/ ReadStored(a, id) \/ ReadMissing(a, id)
         \/ CrashBeforeLogging(a, id)

Next ==
    \/ Tick
    \/ \E a \in Agents : AgentStep(a)
    \/ \E p \in Procs : Crash(p)

Spec == Init /\ [][Next]_vars

-----------------------------------------------------------------------------
(* Properties.                                                              *)

\* Every committed table is within MAX_RESPONSES and MAX_DATABASE_BYTES,
\* whichever processes stored, loaded or died: persistStoredContent trims
\* inside its transaction, and no other statement adds to the table.
TableBounded == WithinBounds(table)

\* A handle that was named to the model or logged in a session stays in the
\* database until it expires, unless a later (or its own) store pushed it out:
\* restoring, reading, forking, switching session, a failing database and the
\* death of a process lose nothing.
NoSilentLoss ==
    \A id \in Ids :
      id \in issued \/ (\E s \in Sessions : id \in log[s]) =>
        \/ id \in DOMAIN table
        \/ id \in evicted
        \/ content[id].expires <= now

\* What get_web_content's description says of a handle ("a one-hour fetch or
\* crawl response"), for a database nobody else uses: until it expires, the
\* response behind a named handle is in the database or in some process.  It
\* fails for a response whose rows alone exceed MAX_DATABASE_BYTES.
HandlesLastTheirHour ==
    \A id \in issued :
      content[id].expires > now =>
        id \in DOMAIN table \/ \E p \in Procs : id \in results[p]

\* A fetch or crawl stores nothing once its agent has selected another session,
\* even if it has selected the first one again since: a response never lands in
\* a session the user left while it was being fetched.
StoresOnlyInItsVisit ==
    [][\A id \in Ids :
         content[id] = NoContent /\ content'[id] # NoContent
            => content'[id].agent \notin left]_vars

\* The detailed store gives only the answers the abstract one may give.
Abstract == INSTANCE HandleStore WITH
    NoHandle <- NoContent,
    clock <- now,
    handle <- [id \in Ids |-> IF id \in issued
                              THEN [owner |-> content[id].owner,
                                    expires |-> content[id].expires]
                              ELSE NoContent],
    reply <- answer

\* Whatever is answered was issued to the session it is answered to, and has
\* not expired: isolation and the one-hour lifetime across the results maps,
\* the shared database, forked logs and session switches.
ImplementsHandleStore == Abstract!Spec
=============================================================================
