----------------------------- MODULE SessionReader -----------------------------
(***************************************************************************)
(* The published-session reader, src/src/project_maya/hermes_plugins/      *)
(* session_readers.py, running beside the creators of SessionCreate.       *)
(*                                                                         *)
(* A conversation scope keeps the projection lock from the selection of    *)
(* its session to its end; read() takes it for one lookup; both fill the   *)
(* store's entry cache, and every failure empties it.  load_transcript may *)
(* run in a task derived from the scope and outlive it.                    *)
(***************************************************************************)
EXTENDS SessionCreate

CONSTANT ReaderSlot   \* the route slot of each reader's binding

ASSUME ReaderConstants == ReaderSlot \in [Readers -> Slots]

VARIABLES
    scope,      \* authenticated_request of each reader
    chosen,     \* the session its validated entry named
    lease,      \* the scope's root lease is active
    entries,    \* store._entries
    reading,    \* a thread inside read()
    loading,    \* a task inside load_transcript
    delivered   \* the transcript load_transcript returned last

readerVars == <<scope, chosen, lease, entries, reading, loading, delivered>>
createVars == <<generation, routes, hash, trans, index, audited, pc, cur,
                active, expired, attempted, consumed, result>>
allVars == <<vars, readerVars>>

HoldingScopes == {"locked", "selected", "open", "closing"}
Scopes == {"none", "clearing"} \cup HoldingScopes

ReaderInit ==
    /\ Init
    /\ scope = [r \in Readers |-> "none"]
    /\ chosen = [r \in Readers |-> NoAttempt]
    /\ lease = [r \in Readers |-> FALSE]
    /\ entries = [r \in Readers |-> NoAttempt]
    /\ reading = [r \in Readers |-> "none"]
    /\ loading = [r \in Readers |-> "none"]
    /\ delivered = [r \in Readers |-> NoAttempt]

-----------------------------------------------------------------------------
RouteOf(r) == routes[ReaderSlot[r]]

(***************************************************************************)
(* _validated_entry: the policy allows the read, database and file agree,  *)
(* no transition is unfinished and the slot has a published session.       *)
(***************************************************************************)
ValidEntry_FileOnly(r, verdict) == verdict = "allow" /\ RouteOf(r) # NoAttempt
ValidEntry(r, verdict) ==
    /\ verdict = "allow"
    /\ Settled
    /\ RouteOf(r) # NoAttempt
    /\ trans[RouteOf(r)] = Published

Cache(r, a) == entries' = [entries EXCEPT ![r] = a]
ClearCache(r) == Cache(r, NoAttempt)
ScopeGoto(r, p) == scope' = [scope EXCEPT ![r] = p]

\* _exclusive tries the lock file once and never waits for it.
TryLock == lock = Free

\* read(): the lock file is tried once; a busy lock empties the cache.
ReadLock(r) ==
    /\ reading[r] = "none"
    /\ IF TryLock
       THEN /\ lock' = r
            /\ reading' = [reading EXCEPT ![r] = "locked"]
            /\ UNCHANGED entries
       ELSE ClearCache(r) /\ UNCHANGED <<lock, reading>>
    /\ UNCHANGED <<createVars, scope, chosen, lease, loading, delivered>>

\* The entry is cached and the lock given back, or the exception path is taken.
ReadEntry(r, verdict) ==
    /\ reading[r] = "locked"
    /\ lock' = Free
    /\ IF ValidEntry(r, verdict)
       THEN /\ Cache(r, RouteOf(r))
            /\ reading' = [reading EXCEPT ![r] = "none"]
       ELSE /\ reading' = [reading EXCEPT ![r] = "clearing"]
            /\ UNCHANGED entries
    /\ UNCHANGED <<createVars, scope, chosen, lease, loading, delivered>>

\* The except clause of read() runs after the lock was released.
ReadClear(r) ==
    /\ reading[r] = "clearing"
    /\ reading' = [reading EXCEPT ![r] = "none"]
    /\ ClearCache(r)
    /\ UNCHANGED <<createVars, lock, scope, chosen, lease, loading, delivered>>

\* authenticated_request: selection lock, then one try for the projection lock.
ScopeLock(r) ==
    /\ scope[r] = "none"
    /\ IF TryLock
       THEN lock' = r /\ ScopeGoto(r, "locked") /\ UNCHANGED entries
       ELSE ClearCache(r) /\ UNCHANGED <<lock, scope>>
    /\ UNCHANGED <<createVars, chosen, lease, reading, loading, delivered>>

\* An exception before the scope is entered: lock released, then the cache cleared.
ScopeFails(r) ==
    /\ lock' = Free
    /\ ScopeGoto(r, "clearing")
    /\ chosen' = [chosen EXCEPT ![r] = NoAttempt]

\* _validated_entry and the history authorization choose the session.
ScopeSelect(r, verdict) ==
    /\ scope[r] = "locked"
    /\ IF ValidEntry(r, verdict)
       THEN /\ ScopeGoto(r, "selected")
            /\ chosen' = [chosen EXCEPT ![r] = RouteOf(r)]
            /\ UNCHANGED lock
       ELSE ScopeFails(r)
    /\ UNCHANGED <<createVars, lease, entries, reading, loading, delivered>>

\* The request binding audits and opens its lease; then the entry is cached.
ScopeEnter_DropsLock(r, ok) ==
    /\ scope[r] = "selected"
    /\ ok
    /\ ScopeGoto(r, "open")
    /\ lease' = [lease EXCEPT ![r] = TRUE]
    /\ Cache(r, chosen[r])
    /\ lock' = Free
    /\ UNCHANGED <<createVars, chosen, reading, loading, delivered>>

ScopeEnter(r, ok) ==
    /\ scope[r] = "selected"
    /\ IF ok
       THEN /\ ScopeGoto(r, "open")
            /\ lease' = [lease EXCEPT ![r] = TRUE]
            /\ Cache(r, chosen[r])
            /\ UNCHANGED <<lock, chosen>>
       ELSE ScopeFails(r) /\ UNCHANGED <<lease, entries>>
    /\ UNCHANGED <<createVars, reading, loading, delivered>>

\* The body ends: the cache is cleared and the lease revoked, the lock still held.
ScopeClose(r) ==
    /\ scope[r] = "open"
    /\ ScopeGoto(r, "closing")
    /\ lease' = [lease EXCEPT ![r] = FALSE]
    /\ ClearCache(r)
    /\ loading' = [loading EXCEPT ![r] = IF @ = "fetched" THEN "orphan" ELSE @]
    /\ UNCHANGED <<createVars, lock, chosen, reading, delivered>>

\* The lock is released last; a body that raised clears the cache once more.
ScopeUnlock(r, raised) ==
    /\ scope[r] = "closing"
    /\ lock' = Free
    /\ ScopeGoto(r, IF raised THEN "clearing" ELSE "none")
    /\ chosen' = [chosen EXCEPT ![r] = NoAttempt]
    /\ UNCHANGED <<createVars, lease, entries, reading, loading, delivered>>

ScopeClear(r) ==
    /\ scope[r] = "clearing"
    /\ ScopeGoto(r, "none")
    /\ ClearCache(r)
    /\ UNCHANGED <<createVars, lock, chosen, lease, reading, loading, delivered>>

\* The scope's deadline passes while its body still runs.
LeaseExpires(r) ==
    /\ lease[r]
    /\ lease' = [lease EXCEPT ![r] = FALSE]
    /\ UNCHANGED <<createVars, lock, scope, chosen, entries, reading, loading, delivered>>

\* load_transcript: first validation, then the messages are fetched unlocked.
LoadFirst(r, verdict) ==
    /\ loading[r] = "none"
    /\ scope[r] = "open" /\ lease[r]
    /\ ValidEntry(r, verdict) /\ RouteOf(r) = chosen[r]
    /\ loading' = [loading EXCEPT ![r] = "fetched"]
    /\ delivered' = [delivered EXCEPT ![r] = NoAttempt]
    /\ UNCHANGED <<createVars, lock, scope, chosen, lease, entries, reading>>

\* Second validation: the task's lease is the scope's, and an orphan's is revoked.
LoadAllowed(r, verdict) ==
    /\ ValidEntry(r, verdict)
    /\ RouteOf(r) = chosen[r]
    /\ loading[r] = "fetched" /\ lease[r]

LoadSecond(r, verdict) ==
    /\ loading[r] # "none"
    /\ loading' = [loading EXCEPT ![r] = "none"]
    /\ delivered' = IF LoadAllowed(r, verdict)
                    THEN [delivered EXCEPT ![r] = RouteOf(r)] ELSE delivered
    /\ UNCHANGED <<createVars, lock, scope, chosen, lease, entries, reading>>

\* The reader's process dies and starts again.
ReaderCrash(r) ==
    /\ scope[r] # "none" \/ reading[r] # "none"
    /\ lock' = IF lock = r THEN Free ELSE lock
    /\ ScopeGoto(r, "none")
    /\ chosen' = [chosen EXCEPT ![r] = NoAttempt]
    /\ lease' = [lease EXCEPT ![r] = FALSE]
    /\ ClearCache(r)
    /\ reading' = [reading EXCEPT ![r] = "none"]
    /\ loading' = [loading EXCEPT ![r] = "none"]
    /\ UNCHANGED <<createVars, delivered>>

ReaderStep(r) ==
    \/ ReadLock(r)
    \/ \E v \in Verdicts : ReadEntry(r, v) \/ ScopeSelect(r, v)
    \/ ReadClear(r)
    \/ ScopeLock(r)
    \/ \E ok \in BOOLEAN : ScopeEnter(r, ok) \/ ScopeUnlock(r, ok)
    \/ ScopeClose(r)
    \/ ScopeClear(r)
    \/ LeaseExpires(r)
    \/ \E v \in Verdicts : LoadFirst(r, v) \/ LoadSecond(r, v)
    \/ ReaderCrash(r)

ReaderNext ==
    \/ Next /\ UNCHANGED readerVars
    \/ \E r \in Readers : ReaderStep(r)

ReaderSpec == ReaderInit /\ [][ReaderNext]_allVars

(***************************************************************************)
(* A host's thread is scheduled.  Nothing is owed by a reader, whose body  *)
(* may keep its scope and the lock as long as it likes.                    *)
(***************************************************************************)
FairReaderSpec ==
    ReaderSpec /\ \A h \in Hosts : WF_allVars(HostStep(h) /\ UNCHANGED readerVars)

-----------------------------------------------------------------------------
\* The shape of the reader's own state.
ReaderTypeOK ==
    /\ scope \in [Readers -> Scopes]
    /\ chosen \in [Readers -> Attempts \cup {NoAttempt}]
    /\ lease \in [Readers -> BOOLEAN]
    /\ entries \in [Readers -> Attempts \cup {NoAttempt}]
    /\ reading \in [Readers -> {"none", "locked", "clearing"}]
    /\ loading \in [Readers -> {"none", "fetched", "orphan"}]
    /\ delivered \in [Readers -> Attempts \cup {NoAttempt}]

(***************************************************************************)
(* While a conversation scope is open its session is published, routed and *)
(* indexed, and the store has no unfinished transition, however creators   *)
(* on other hosts fail, crash or wait; and nothing reaches the entry cache *)
(* before its transition is published.                                     *)
(***************************************************************************)
ReadersSeePublished ==
    \A r \in Readers :
        /\ scope[r] = "open" =>
              /\ chosen[r] = RouteOf(r)
              /\ Settled
              /\ trans[chosen[r]] = Published
        /\ entries[r] # NoAttempt =>
              entries[r] = RouteOf(r) /\ trans[entries[r]] = Published

(***************************************************************************)
(* No durable step of any create happens while a conversation scope is     *)
(* open: "The projection lock is retained during a selected conversation   *)
(* scope" (session_readers.py:21).  A transcript is only returned while    *)
(* its scope still holds the lock and its lease: a task that outlives the  *)
(* scope gets nothing, even when it ended between its two validations.     *)
(***************************************************************************)
ReadsUnderScope ==
    [][\A r \in Readers :
          /\ scope[r] = "open" => UNCHANGED <<generation, routes, trans, index>>
          /\ delivered'[r] # delivered[r] /\ delivered'[r] # NoAttempt =>
                /\ lock = r /\ lease[r]
                /\ delivered'[r] = chosen[r]]_allVars

-----------------------------------------------------------------------------
(***************************************************************************)
(* The inductive strengthening: a reader has the lock exactly while one    *)
(* scope or one read() of it is inside _exclusive, never both; a selected  *)
(* session stays valid as long as the scope holds the lock; a lease is     *)
(* only active inside its scope; and a cached entry stays true, because    *)
(* routes and publications never go back.                                  *)
(***************************************************************************)
ReaderLockInv ==
    \A r \in Readers :
        /\ lock = r <=> scope[r] \in HoldingScopes \/ reading[r] = "locked"
        /\ ~(scope[r] \in HoldingScopes /\ reading[r] = "locked")
        /\ lease[r] => scope[r] = "open"

SelectionInv ==
    \A r \in Readers :
        scope[r] \in {"selected", "open"} =>
            /\ chosen[r] = RouteOf(r) /\ chosen[r] # NoAttempt
            /\ Settled
            /\ trans[chosen[r]] = Published

CacheInv ==
    \A r \in Readers :
        entries[r] # NoAttempt =>
            entries[r] = RouteOf(r) /\ trans[entries[r]] = Published

ReaderIInv == IInv /\ ReaderTypeOK /\ ReaderLockInv /\ SelectionInv /\ CacheInv
=============================================================================
