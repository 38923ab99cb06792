----------------------------- MODULE AtomicTable -----------------------------
(***************************************************************************)
(* The promise of database.ts to its callers: however many processes work   *)
(* on the file, its committed rows change only by whole stores (insert and  *)
(* trim), by expiry, and by touching a row.  In particular no load evicts a *)
(* row that has not expired.                                                *)
(***************************************************************************)
EXTENDS ResponseTable

CONSTANTS Scopes, Ttl, MaxTime

VARIABLES clock, rows

avars == <<clock, rows>>

AInit ==
    /\ clock = 0
    /\ rows = [id \in {} |-> {}]

ATick ==
    /\ clock' = clock + 1
    /\ UNCHANGED rows

\* A store prepared at one time trims at a later one and commits later still.
AStore(id, scope, created, at) ==
    /\ id \notin DOMAIN rows
    /\ created <= at /\ at <= clock
    /\ rows' \in PersistStoredContent(rows, id,
                    [scope |-> scope, expires |-> created + Ttl, accessed |-> created],
                    at)
    /\ UNCHANGED clock

AExpire(at) ==
    /\ at <= clock
    /\ rows' = Keep(rows, Unexpired(rows, at))
    /\ UNCHANGED clock

ATouch(id, at) ==
    /\ at <= clock
    /\ id \in DOMAIN rows
    /\ rows' = Touch(rows, {id}, at)
    /\ UNCHANGED clock

ANext ==
    \/ ATick
    \/ \E id \in Ids, scope \in Scopes, created, at \in 0..MaxTime :
         AStore(id, scope, created, at)
    \/ \E at \in 0..MaxTime : AExpire(at)
    \/ \E id \in Ids, at \in 0..MaxTime : ATouch(id, at)

ASpec == AInit /\ [][ANext]_avars
=============================================================================
