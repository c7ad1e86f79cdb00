----------------------------- MODULE SessionCreate -----------------------------
(***************************************************************************)
(* The governed creation of a session route:                               *)
(*   src/src/project_maya/hermes_plugins/session_transitions.py            *)
(*   src/src/project_maya/hermes_plugins/session_creation.py               *)
(*                                                                         *)
(* Several host processes share one SQLite database, one projection file   *)
(* (sessions.json) and one lock file.  A create commits its rows in SQLite *)
(* first, then replaces the projection file, then marks the transition     *)
(* verified, audits the outcome and marks it published.  A host may be     *)
(* denied, revoked, timed out, hit a storage fault or die between any two  *)
(* of these steps; there is no recovery code, so whatever it leaves behind *)
(* must keep every later create and read closed.                           *)
(***************************************************************************)
EXTENDS Naturals, FiniteSets

CONSTANTS Hosts,      \* processes, each with one CandidateCreateSessionBinding
          Slots,      \* route slots
          SlotOf,     \* the host-configured route_slot of each binding
          Attempts,   \* uuid4 values: one names a descriptor and its target session
          NoAttempt,  \* absence of a session / descriptor
          Readers,    \* published-session readers contending for the same lock file
          Free        \* the projection lock file is unlocked

ASSUME SessionConstants ==
    /\ SlotOf \in [Hosts -> Slots]
    /\ NoAttempt \notin Attempts
    /\ Free \notin (Hosts \cup Readers)
    /\ Hosts \cap Readers = {}

VARIABLES
    generation,  \* maya_session_projection_v1.generation
    routes,      \* maya_session_routes_v1: the session each slot routes to
    hash,        \* maya_session_projection_v1.projection_hash
    trans,       \* maya_session_transitions_v1.state, by correlation id
    index,       \* the bytes of sessions.json
    audited,     \* correlation ids with an outcome audit record
    lock,        \* holder of maya-session-projection.lock
    pc,          \* where each host's create() stands
    cur,         \* the descriptor of the host's current authority
    active, expired, attempted, consumed,  \* CandidateCreateSessionAuthority
    result       \* what the caller of the attempt was told

durable == <<generation, routes, hash, trans, index, audited>>
authority == <<cur, active, expired, attempted, consumed>>
vars == <<generation, routes, hash, trans, index, audited, lock, pc, cur,
          active, expired, attempted, consumed, result>>

(***************************************************************************)
(* projection_bytes: the file content is a function of the generation and  *)
(* the routes; the digest is collision free, so it is the content itself.  *)
(***************************************************************************)
Projection(g, r) == [generation |-> g, routes |-> r]
EmptyRoutes == [s \in Slots |-> NoAttempt]

Pending == "committed_pending_projection"
Verified == "projection_verified"
Published == "published"
TransitionStates == {"none", Pending, Verified, Published}

\* Program points of create() that hold the projection lock.
LockedPoints == {"locked", "validated", "staged", "committing", "committed",
                 "publishing", "indexed", "verifying", "verified", "audited",
                 "finishing"}
Points == {"idle", "authorized", "attempted", "ended"} \cup LockedPoints

\* Points inside commit_guard and publication_guard: the authority's RLock is held.
GuardPoints == {"committing", "publishing", "finishing"}

\* Failure codes, with the GovernanceBoundaryError texts grouped by meaning.
Denied == "transition_denied"
ContextInvalid == "transition_context_invalid"
Busy == "transition_busy"
Stale == "transition_stale"
StoreFailed == "transition_store_failed"
RecoveryRequired == "transition_recovery_required"
ProjectionInvalid == "transition_projection_invalid"
AuditPending == "transition_audit_pending"
Failures == {Denied, ContextInvalid, Busy, Stale, StoreFailed,
             RecoveryRequired, ProjectionInvalid, AuditPending}
Results == {"unused", "running", "receipt", "withdrawn", "crashed"} \cup Failures

Init ==
    /\ generation = 0
    /\ routes = EmptyRoutes
    /\ hash = Projection(0, EmptyRoutes)
    /\ trans = [a \in Attempts |-> "none"]
    /\ index = Projection(0, EmptyRoutes)
    /\ audited = {}
    /\ lock = Free
    /\ pc = [h \in Hosts |-> "idle"]
    /\ cur = [h \in Hosts |-> NoAttempt]
    /\ active = [h \in Hosts |-> FALSE]
    /\ expired = [h \in Hosts |-> FALSE]
    /\ attempted = [h \in Hosts |-> FALSE]
    /\ consumed = [h \in Hosts |-> FALSE]
    /\ result = [a \in Attempts |-> "unused"]

-----------------------------------------------------------------------------
(***************************************************************************)
(* CandidateCreateSessionAuthority._check, for the part of it that can     *)
(* change while the host runs: revocation, deadline and cancellation.      *)
(***************************************************************************)
Live(h) == active[h] /\ ~expired[h]

\* _state_in_transaction: the stored digest must match the stored rows.
StateValid == hash = Projection(generation, routes)

\* Nothing unfinished in the database, and the file shows what it says.
Settled_IgnoresTransitions == StateValid /\ index = Projection(generation, routes)
Settled_IgnoresIndex == StateValid
Settled ==
    /\ StateValid
    /\ index = Projection(generation, routes)
    /\ \A a \in Attempts : trans[a] \in {"none", Published}

\* The row this host's commit produced is still what the database and file show.
Unmoved(h) ==
    /\ StateValid
    /\ routes[SlotOf[h]] = cur[h]
    /\ index = Projection(generation, routes)

Goto(h, p) == pc' = [pc EXCEPT ![h] = p]

\* An exception leaves create(): the with-block releases the projection lock.
Release_Leaks(h) == UNCHANGED lock
Release(h) == lock' = IF lock = h THEN Free ELSE lock

Fail(h, code) ==
    /\ Goto(h, "ended")
    /\ result' = [result EXCEPT ![cur[h]] = code]
    /\ Release(h)

(***************************************************************************)
(* authenticated_create: the binding lock is free, a fresh descriptor is   *)
(* made and preflighted (gateway decision, liveness and audit of the       *)
(* decision) before the authority is handed to the caller.                 *)
(***************************************************************************)
AuthenticatedCreate(h, a, verdict) ==
    /\ pc[h] = "idle"
    /\ result[a] = "unused"
    /\ IF verdict = "allow"
       THEN /\ cur' = [cur EXCEPT ![h] = a]
            /\ active' = [active EXCEPT ![h] = TRUE]
            /\ Goto(h, "authorized")
            /\ result' = [result EXCEPT ![a] = "running"]
       ELSE /\ result' = [result EXCEPT ![a] = Denied]
            /\ UNCHANGED <<pc, cur, active>>
    /\ UNCHANGED <<durable, lock, expired, attempted, consumed>>

(***************************************************************************)
(* create / begin_attempt: one attempt per authority.  A second call, from *)
(* a caller that retries inside the same scope, is refused and changes     *)
(* nothing; what the first call reported stands.                           *)
(***************************************************************************)
MayAttempt_Replay(h) == Live(h)
MayAttempt(h) == Live(h) /\ ~attempted[h]

BeginAttempt(h) ==
    /\ pc[h] \in {"authorized", "ended"}
    /\ IF MayAttempt(h)
       THEN /\ attempted' = [attempted EXCEPT ![h] = TRUE]
            /\ Goto(h, "attempted")
            /\ UNCHANGED result
       ELSE /\ Goto(h, "ended")
            /\ result' = IF pc[h] = "authorized"
                         THEN [result EXCEPT ![cur[h]] = ContextInvalid] ELSE result
            /\ UNCHANGED attempted
    /\ UNCHANGED <<durable, lock, cur, active, expired, consumed>>

\* _exclusive: a non-blocking lock of the lock file.
LockProjection(h) ==
    /\ pc[h] = "attempted"
    /\ IF lock = Free
       THEN lock' = h /\ Goto(h, "locked") /\ UNCHANGED result
       ELSE Fail(h, Busy)
    /\ UNCHANGED <<durable, authority>>

\* authorize() under the lock, then _state and the recovery check.
Validate(h, verdict) ==
    /\ pc[h] = "locked"
    /\ IF ~Live(h) THEN Fail(h, ContextInvalid)
       ELSE IF verdict # "allow" THEN Fail(h, Denied)
       ELSE IF ~Settled THEN Fail(h, RecoveryRequired)
       ELSE Goto(h, "validated") /\ UNCHANGED <<result, lock>>
    /\ UNCHANGED <<durable, authority>>

\* descriptor.route_slot not in routes
SlotFree(h) == routes[SlotOf[h]] = NoAttempt

\* BEGIN IMMEDIATE, the staleness and replay checks, and the row inserts.
Stage(h) ==
    /\ pc[h] = "validated"
    /\ IF StateValid /\ SlotFree(h) /\ trans[cur[h]] = "none"
       THEN Goto(h, "staged") /\ UNCHANGED <<result, lock>>
       ELSE Fail(h, Stale)
    /\ UNCHANGED <<durable, authority>>

(***************************************************************************)
(* commit_guard: takes the authority's RLock, reauthorizes and consumes    *)
(* the authority.  Until the guard is left, revoke() waits.                *)
(***************************************************************************)
EnterCommitGuard(h, verdict) ==
    /\ pc[h] = "staged"
    /\ IF ~Live(h) \/ consumed[h] THEN Fail(h, ContextInvalid) /\ UNCHANGED consumed
       ELSE IF verdict # "allow" THEN Fail(h, Denied) /\ UNCHANGED consumed
       ELSE /\ consumed' = [consumed EXCEPT ![h] = TRUE]
            /\ Goto(h, "committing")
            /\ UNCHANGED <<result, lock>>
    /\ UNCHANGED <<durable, cur, active, expired, attempted>>

\* The rows of one create, all written by one SQLite transaction.
CommitRows(h) ==
    /\ generation' = generation + 1
    /\ routes' = [routes EXCEPT ![SlotOf[h]] = cur[h]]
    /\ hash' = Projection(generation', routes')
    /\ trans' = [trans EXCEPT ![cur[h]] = Pending]
    /\ UNCHANGED <<index, audited>>

\* _commit returns: the transaction is durable and the guard is left.
Commit(h) ==
    /\ pc[h] = "committing"
    /\ CommitRows(h)
    /\ Goto(h, "committed")
    /\ UNCHANGED <<lock, authority, result>>

(***************************************************************************)
(* An unexpected exception is reported by whether the commit may have      *)
(* happened: commit_attempted is set inside commit_guard, before _commit.  *)
(***************************************************************************)
CommitAttempted_OnlyAfter(h) ==
    pc[h] \notin {"attempted", "locked", "validated", "staged", "committing"}
CommitAttempted(h) == pc[h] \notin {"attempted", "locked", "validated", "staged"}
UnexpectedCode(h) == IF CommitAttempted(h) THEN RecoveryRequired ELSE StoreFailed

(***************************************************************************)
(* _commit raises.  The caller cannot know whether SQLite made the         *)
(* transaction durable; commit_guard deactivates the authority either way. *)
(***************************************************************************)
CommitFault(h, effect) ==
    /\ pc[h] = "committing"
    /\ IF effect THEN CommitRows(h) ELSE UNCHANGED durable
    /\ active' = [active EXCEPT ![h] = FALSE]
    /\ Fail(h, UnexpectedCode(h))
    /\ UNCHANGED <<cur, expired, attempted, consumed>>

\* publication_guard around _publish: only a consumed, live authority enters.
EnterPublish(h) ==
    /\ pc[h] = "committed"
    /\ IF Live(h) /\ consumed[h]
       THEN Goto(h, "publishing") /\ UNCHANGED <<result, lock>>
       ELSE Fail(h, ContextInvalid)
    /\ UNCHANGED <<durable, authority>>

\* _publish: write a temporary file, fsync, os.replace, read back.
Replace(h) ==
    /\ pc[h] = "publishing"
    /\ index' = Projection(generation, routes)
    /\ Goto(h, "indexed")
    /\ UNCHANGED <<generation, routes, hash, trans, audited, lock, authority, result>>

\* _publish raises before os.replace, or after it when the read back fails.
PublishFault(h, effect) ==
    /\ pc[h] = "publishing"
    /\ index' = IF effect THEN Projection(generation, routes) ELSE index
    /\ Fail(h, IF effect THEN ProjectionInvalid ELSE UnexpectedCode(h))
    /\ UNCHANGED <<generation, routes, hash, trans, audited, authority>>

(***************************************************************************)
(* The second transaction: the projection checks, then _check, called      *)
(* without the authority's RLock, then the UPDATE.                         *)
(***************************************************************************)
Verify(h) ==
    /\ pc[h] = "indexed"
    /\ IF Unmoved(h) /\ Live(h)
       THEN Goto(h, "verifying") /\ UNCHANGED <<result, lock>>
       ELSE Fail(h, IF Unmoved(h) THEN ContextInvalid ELSE ProjectionInvalid)
    /\ UNCHANGED <<durable, authority>>

\* Its commit, projection_verified: nothing keeps a revoke() out since _check.
CommitVerified(h) ==
    /\ pc[h] = "verifying"
    /\ trans' = [trans EXCEPT ![cur[h]] = Verified]
    /\ Goto(h, "verified")
    /\ UNCHANGED <<generation, routes, hash, index, audited, lock, authority, result>>

\* The outcome audit record is written before the transition is published.
AuditOutcome(h, ok) ==
    /\ pc[h] = "verified"
    /\ IF ok
       THEN audited' = audited \cup {cur[h]} /\ Goto(h, "audited") /\ UNCHANGED <<result, lock>>
       ELSE Fail(h, AuditPending) /\ UNCHANGED audited
    /\ UNCHANGED <<generation, routes, hash, trans, index, authority>>

\* publication_guard around the last transaction.
EnterFinish(h) ==
    /\ pc[h] = "audited"
    /\ IF Live(h) /\ consumed[h]
       THEN Goto(h, "finishing") /\ UNCHANGED <<result, lock>>
       ELSE Fail(h, ContextInvalid)
    /\ UNCHANGED <<durable, authority>>

\* The third transaction, then the receipt.
\* The rowcount and projection checks of the last transaction.
Finishable(h) == Unmoved(h) /\ trans[cur[h]] = Verified

Finish(h) ==
    /\ pc[h] = "finishing"
    /\ IF Finishable(h)
       THEN /\ trans' = [trans EXCEPT ![cur[h]] = Published]
            /\ Goto(h, "ended")
            /\ result' = [result EXCEPT ![cur[h]] = "receipt"]
            /\ lock' = Free
       ELSE Fail(h, RecoveryRequired) /\ UNCHANGED trans
    /\ UNCHANGED <<generation, routes, hash, index, audited, authority>>

(***************************************************************************)
(* SQLite or the file system raises outside _commit and _publish: in the   *)
(* validation, the inserts, or one of the two later transactions, whose    *)
(* own commit may have become durable before it raised.                    *)
(***************************************************************************)
StorageFault(h) ==
    /\ pc[h] \in {"attempted", "locked", "validated", "indexed", "verifying", "finishing"}
    /\ Fail(h, UnexpectedCode(h))
    /\ \/ UNCHANGED trans
       \/ /\ pc[h] = "verifying"
          /\ trans' = [trans EXCEPT ![cur[h]] = Verified]
       \/ /\ pc[h] = "finishing" /\ Finishable(h)
          /\ trans' = [trans EXCEPT ![cur[h]] = Published]
    /\ UNCHANGED <<generation, routes, hash, index, audited, authority>>

\* The authority object is revoked and goes out of scope.
Discard(h) ==
    /\ cur' = [cur EXCEPT ![h] = NoAttempt]
    /\ active' = [active EXCEPT ![h] = FALSE]
    /\ expired' = [expired EXCEPT ![h] = FALSE]
    /\ attempted' = [attempted EXCEPT ![h] = FALSE]
    /\ consumed' = [consumed EXCEPT ![h] = FALSE]

\* Leaving authenticated_create: revoke, release the binding lock.
LeaveScope(h) ==
    /\ pc[h] \in {"authorized", "ended"}
    /\ Goto(h, "idle")
    /\ Discard(h)
    /\ result' = IF pc[h] = "authorized"
                 THEN [result EXCEPT ![cur[h]] = "withdrawn"] ELSE result
    /\ UNCHANGED <<durable, lock>>

\* The create thread is inside commit_guard or publication_guard.
GuardHeld_NoSerialization(h) == FALSE
GuardHeld(h) == pc[h] \in GuardPoints

\* revoke(), from another thread of the host: waits for the authority's RLock.
Revoke(h) ==
    /\ active[h] /\ ~GuardHeld(h)
    /\ active' = [active EXCEPT ![h] = FALSE]
    /\ UNCHANGED <<durable, lock, pc, cur, expired, attempted, consumed, result>>

\* The monotonic clock passes the authority's deadline, or its task is cancelled.
Expire(h) ==
    /\ cur[h] # NoAttempt /\ ~expired[h]
    /\ expired' = [expired EXCEPT ![h] = TRUE]
    /\ UNCHANGED <<durable, lock, pc, cur, active, attempted, consumed, result>>

\* The process dies: the system releases its file lock, SQLite rolls back.
Crash(h) ==
    /\ pc[h] # "idle"
    /\ Goto(h, "idle")
    /\ lock' = IF lock = h THEN Free ELSE lock
    /\ Discard(h)
    /\ result' = IF result[cur[h]] = "running"
                 THEN [result EXCEPT ![cur[h]] = "crashed"] ELSE result
    /\ UNCHANGED durable

-----------------------------------------------------------------------------
Verdicts == {"allow", "deny"}

\* The steps the host's own thread takes.
HostStep(h) ==
    \/ BeginAttempt(h)
    \/ LockProjection(h)
    \/ \E v \in Verdicts : Validate(h, v) \/ EnterCommitGuard(h, v)
    \/ Stage(h)
    \/ Commit(h)
    \/ \E effect \in BOOLEAN : CommitFault(h, effect) \/ PublishFault(h, effect)
    \/ EnterPublish(h)
    \/ Replace(h)
    \/ Verify(h)
    \/ CommitVerified(h)
    \/ \E ok \in BOOLEAN : AuditOutcome(h, ok)
    \/ EnterFinish(h)
    \/ Finish(h)
    \/ StorageFault(h)
    \/ LeaveScope(h)

Request(h) == \E a \in Attempts, v \in Verdicts : AuthenticatedCreate(h, a, v)

Next == \E h \in Hosts : Request(h) \/ HostStep(h) \/ Revoke(h) \/ Expire(h) \/ Crash(h)

Spec == Init /\ [][Next]_vars

-----------------------------------------------------------------------------
(* Properties.                                                             *)

\* The declared shape of the tables, the file, the lock and the authority.
TypeOK ==
    /\ generation \in Nat
    /\ routes \in [Slots -> Attempts \cup {NoAttempt}]
    /\ hash \in [generation : Nat, routes : [Slots -> Attempts \cup {NoAttempt}]]
    /\ index \in [generation : Nat, routes : [Slots -> Attempts \cup {NoAttempt}]]
    /\ trans \in [Attempts -> TransitionStates]
    /\ audited \subseteq Attempts
    /\ lock \in Hosts \cup Readers \cup {Free}
    /\ pc \in [Hosts -> Points]
    /\ cur \in [Hosts -> Attempts \cup {NoAttempt}]
    /\ active \in [Hosts -> BOOLEAN]
    /\ expired \in [Hosts -> BOOLEAN]
    /\ attempted \in [Hosts -> BOOLEAN]
    /\ consumed \in [Hosts -> BOOLEAN]
    /\ result \in [Attempts -> Results]

Unfinished == {a \in Attempts : trans[a] \in {Pending, Verified}}

(***************************************************************************)
(* sessions.json is never torn from the database by more than the one      *)
(* create in flight: it is the current projection, or the one just before  *)
(* the single transition still in committed_pending_projection.  It is     *)
(* never ahead of SQLite, whatever crashes between commit and os.replace.  *)
(***************************************************************************)
ProjectionLag ==
    \/ index = Projection(generation, routes)
    \/ \E s \in Slots :
          /\ routes[s] \in Attempts
          /\ trans[routes[s]] = Pending
          /\ generation = index.generation + 1
          /\ index.routes = [routes EXCEPT ![s] = NoAttempt]

(***************************************************************************)
(* At most one create is ever between its commit and its publication, in   *)
(* all hosts together, also after crashes: the recovery check of create()  *)
(* keeps the store closed behind an abandoned transition.                  *)
(***************************************************************************)
OneUnfinished == \A a, b \in Unfinished : a = b

(***************************************************************************)
(* A receipt is only returned for a session that is published, audited and *)
(* routed both in SQLite and in sessions.json, and stays so.               *)
(***************************************************************************)
ReceiptSound ==
    \A a \in Attempts : result[a] = "receipt" =>
        /\ trans[a] = Published
        /\ a \in audited
        /\ \E s \in Slots : routes[s] = a /\ index.routes[s] = a

(***************************************************************************)
(* No transition is published without its outcome audit record, and no     *)
(* outcome record exists for a transition whose projection was not         *)
(* verified (lines 220-242 of create()).                                   *)
(***************************************************************************)
PublishedIsAudited ==
    /\ \A a \in Attempts : trans[a] = Published => a \in audited
    /\ \A a \in audited : trans[a] \in {Verified, Published}

(***************************************************************************)
(* A caller that is told the create was denied, busy, stale or failed in   *)
(* storage has created nothing, now or later; only the other codes may     *)
(* hide a committed session.  "already committed effects must not be       *)
(* falsely reported as rolled back" (revoke, session_transitions.py:81).   *)
(***************************************************************************)
HonestFailure ==
    \A a \in Attempts :
        result[a] \in {Denied, Busy, Stale, StoreFailed, "withdrawn"} => trans[a] = "none"

(***************************************************************************)
(* Once create() has reported any outcome, or its process died, that       *)
(* descriptor's transition never changes again: a late step or a second    *)
(* call with the same authority cannot complete it behind the caller.      *)
(***************************************************************************)
ReportedIsFinal ==
    [][\A a \in Attempts :
          result[a] \notin {"unused", "running"} => trans'[a] = trans[a]]_vars

(***************************************************************************)
(* The rows of a create become durable, and its transition is published,   *)
(* only while the authority that owns the descriptor is unrevoked: however *)
(* late, revoke() never falls between the check of commit_guard or         *)
(* publication_guard and the commit it protects.  It may fall before the   *)
(* mark projection_verified, whose check holds no guard (CommitVerified).  *)
(***************************************************************************)
OnlyUnrevoked ==
    [][\A a \in Attempts : trans'[a] # trans[a] /\ trans'[a] # Verified =>
          \E h \in Hosts : cur[h] = a /\ active[h]]_vars

(***************************************************************************)
(* A generation is only committed on top of a finished one: all earlier    *)
(* transitions published and sessions.json equal to the database.          *)
(***************************************************************************)
CommitsOnSettled ==
    [][generation' # generation =>
          /\ index = Projection(generation, routes)
          /\ Unfinished = {}]_vars

\* A routed slot is never rerouted: create expects route version 0.
RoutesAreStable ==
    [][\A s \in Slots : routes[s] # NoAttempt => routes'[s] = routes[s]]_vars

(***************************************************************************)
(* create() implements the atomic register of SessionRegistry: what a      *)
(* reader may use (a published route) and what is in doubt (committed but  *)
(* not published) only ever take the register's two steps.                 *)
(***************************************************************************)
Visible == [s \in Slots |->
               IF routes[s] \in Attempts /\ trans[routes[s]] = Published
               THEN routes[s] ELSE NoAttempt]
InDoubt == {p \in Slots \X Attempts : routes[p[1]] = p[2] /\ p[2] \in Unfinished}
Registry == INSTANCE SessionRegistry WITH visible <- Visible, indoubt <- InDoubt
RegistrySpec == Registry!Spec

\* Every failure path and every crash gives the projection lock back.
LockIsReleased == \A h \in Hosts : (lock = h) ~> (lock # h)

-----------------------------------------------------------------------------
(***************************************************************************)
(* The inductive strengthening of the invariants above.                    *)
(***************************************************************************)
BeforeCommit == {"authorized", "attempted", "locked", "validated", "staged", "committing"}
AfterCommit == {"committed", "publishing", "indexed", "verifying", "verified", "audited",
                "finishing"}

\* The lock file is held by exactly the host whose create() is inside _exclusive.
LockInv == \A h \in Hosts : pc[h] \in LockedPoints <=> lock = h

\* Whose descriptor is whose, and which attempts may still take a step.
AuthorityInv ==
    /\ \A h \in Hosts : pc[h] = "idle" <=> cur[h] = NoAttempt
    /\ \A h, k \in Hosts : h # k /\ cur[h] = cur[k] => cur[h] = NoAttempt
    /\ \A h \in Hosts : pc[h] \in GuardPoints => active[h]
    /\ \A h \in Hosts : pc[h] \notin {"idle", "authorized", "ended"} => attempted[h]
    /\ \A h \in Hosts : pc[h] = "ended" => attempted[h] \/ ~Live(h)
    /\ \A h \in Hosts : pc[h] \in BeforeCommit \cup AfterCommit => result[cur[h]] = "running"
    /\ \A h \in Hosts : pc[h] = "ended" => result[cur[h]] \notin {"unused", "running"}

\* Transition rows and route rows are written together, one slot per session.
RowsInv ==
    /\ StateValid
    /\ \A s, t \in Slots : s # t /\ routes[s] = routes[t] => routes[s] = NoAttempt
    /\ \A a \in Attempts : trans[a] # "none" <=> \E s \in Slots : routes[s] = a
    /\ \A a \in Attempts : result[a] = "unused" => trans[a] = "none"

\* What each program point of create() has established under the lock.
PointInv ==
    \A h \in Hosts :
        /\ pc[h] \in BeforeCommit => trans[cur[h]] = "none"
        /\ pc[h] \in {"validated", "staged", "committing"} => Settled
        /\ pc[h] \in {"staged", "committing"} => SlotFree(h)
        /\ pc[h] \in AfterCommit => routes[SlotOf[h]] = cur[h]
        /\ pc[h] \in {"committed", "publishing", "indexed", "verifying"} => trans[cur[h]] = Pending
        /\ pc[h] \in {"verified", "audited", "finishing"} => trans[cur[h]] = Verified
        /\ pc[h] \in {"indexed", "verifying", "verified", "audited", "finishing"} => Unmoved(h)
        /\ pc[h] \in {"audited", "finishing"} => cur[h] \in audited

IInv ==
    /\ TypeOK
    /\ LockInv
    /\ AuthorityInv
    /\ RowsInv
    /\ PointInv
    /\ ProjectionLag
    /\ OneUnfinished
    /\ PublishedIsAudited
    /\ ReceiptSound
    /\ HonestFailure
=============================================================================
