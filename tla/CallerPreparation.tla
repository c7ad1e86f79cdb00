--------------------------- MODULE CallerPreparation ---------------------------
(***************************************************************************)
(* The preparation scope around a governed create:                         *)
(*   src/src/project_maya/hermes_plugins/caller_preparation.py             *)
(*   src/patches/hermes/0029-create-caller-acknowledgement.patch           *)
(*                                                                         *)
(* prepare() creates a session whose transition ends as                    *)
(* published_pending_caller, runs the host's preparation body with no lock *)
(* held, and acknowledges the transition only when the body exits          *)
(* normally; otherwise it tries to quarantine it.  Readers select          *)
(* acknowledged transitions only, and any other transition blocks every    *)
(* create, acknowledgement and read.                                       *)
(*                                                                         *)
(* create() is one step here: it holds the projection lock throughout, as  *)
(* everything below that reads or writes rows does.  SessionCreate takes   *)
(* it apart.  A generation is named by the create that made it.            *)
(***************************************************************************)
EXTENDS Naturals

CONSTANTS Hosts,      \* processes, each with one CandidateCallerPreparation
          Slots,      \* route slots
          SlotOf,     \* the host-configured route_slot of each binding
          Attempts,   \* one name for a descriptor, its correlation id and its session
          NoAttempt,  \* absence of one
          Readers,    \* processes that load the route index
          Free        \* the projection lock file is unlocked

ASSUME PreparationConstants ==
    /\ SlotOf \in [Hosts -> Slots]
    /\ NoAttempt \notin Attempts
    /\ Free \notin (Hosts \cup Readers)
    /\ Hosts \cap Readers = {}

VARIABLES
    routes,    \* maya_session_routes_v1: the session each slot routes to
    row,       \* maya_session_transitions_v1.state, by correlation id
    head,      \* the create that made the database's generation
    shown,     \* the create that made the generation in sessions.json
    audited,   \* attempts with an "allow" record for acknowledge_create
    lock,      \* holder of the projection lock file
    pc,        \* where each host's prepare() stands
    cur,       \* the descriptor of the host's authority
    active, expired,  \* CandidateCreateSessionAuthority
    exited,    \* attempts whose preparation body exited normally
    unknown,   \* attempts whose acknowledging commit raised
    outcome,   \* how prepare() of each attempt ended for its caller
    selected   \* the route of each slot that each reader handed out last

rows == <<routes, row, head, shown>>
authority == <<cur, active, expired>>
vars == <<routes, row, head, shown, audited, lock, pc, cur, active, expired,
          exited, unknown, outcome, selected>>

Unfinished == {"committed_pending_projection", "projection_verified"}
PendingCaller == "published_pending_caller"
Acknowledged == "caller_acknowledged"
Quarantined == "caller_quarantined"
RowStates == {"none", PendingCaller, Acknowledged, Quarantined} \cup Unfinished

\* Points with the projection lock held; all but the last are inside publication_guard.
GuardPoints == {"guarded", "allowed", "swapped"}
LockedPoints == GuardPoints \cup {"quarantining"}
Points == {"idle", "preparing", "acknowledging", "failed"} \cup LockedPoints

EmptyRoutes == [s \in Slots |-> NoAttempt]

Init ==
    /\ routes = EmptyRoutes
    /\ row = [a \in Attempts |-> "none"]
    /\ head = NoAttempt /\ shown = NoAttempt
    /\ audited = {}
    /\ lock = Free
    /\ pc = [h \in Hosts |-> "idle"]
    /\ cur = [h \in Hosts |-> NoAttempt]
    /\ active = [h \in Hosts |-> FALSE]
    /\ expired = [h \in Hosts |-> FALSE]
    /\ exited = {} /\ unknown = {}
    /\ outcome = [a \in Attempts |-> "unused"]
    /\ selected = [r \in Readers |-> EmptyRoutes]

Goto(h, p) == pc' = [pc EXCEPT ![h] = p]
Live(h) == active[h] /\ ~expired[h]

\* Transitions other than a that are not acknowledged stop everybody.
Clear(a) == \A b \in Attempts \ {a} : row[b] \in {"none", Acknowledged}

\* prepare() returns or raises: the authority is revoked, the scope lock released.
Leave(h, how) ==
    /\ Goto(h, "idle")
    /\ outcome' = [outcome EXCEPT ![cur[h]] = how]
    /\ active' = [active EXCEPT ![h] = FALSE]

-----------------------------------------------------------------------------
(***************************************************************************)
(* create() with patch 29: refused without a trace (denied, busy, recovery *)
(* required, stale), or raising after its rows were committed, or complete *)
(* with a pending receipt.                                                 *)
(***************************************************************************)
Creatable_SlotOnly(h, a) ==
    /\ pc[h] = "idle" /\ outcome[a] = "unused"
    /\ lock = Free
    /\ routes[SlotOf[h]] = NoAttempt
Creatable(h, a) ==
    /\ pc[h] = "idle" /\ outcome[a] = "unused"
    /\ lock = Free
    /\ shown = head /\ Clear(NoAttempt)
    /\ routes[SlotOf[h]] = NoAttempt

CommitCreate(h, a, s) ==
    /\ Creatable(h, a)
    /\ row' = [row EXCEPT ![a] = s]
    /\ routes' = [routes EXCEPT ![SlotOf[h]] = a]
    /\ head' = a

CreateRefused(h, a) ==
    /\ pc[h] = "idle" /\ outcome[a] = "unused"
    /\ outcome' = [outcome EXCEPT ![a] = "failed"]
    /\ UNCHANGED <<rows, audited, lock, pc, authority, exited, unknown, selected>>

CreateRaises(h, a, s, replaced) ==
    /\ CommitCreate(h, a, s)
    /\ s # "committed_pending_projection" => replaced
    /\ shown' = IF replaced THEN a ELSE shown
    /\ outcome' = [outcome EXCEPT ![a] = "failed"]
    /\ UNCHANGED <<audited, lock, pc, authority, exited, unknown, selected>>

Create(h, a) ==
    /\ CommitCreate(h, a, PendingCaller)
    /\ shown' = a
    /\ cur' = [cur EXCEPT ![h] = a]
    /\ active' = [active EXCEPT ![h] = TRUE]
    /\ expired' = [expired EXCEPT ![h] = FALSE]
    /\ outcome' = [outcome EXCEPT ![a] = "running"]
    /\ Goto(h, "preparing")
    /\ UNCHANGED <<audited, lock, exited, unknown, selected>>

\* The body runs without locks; it exits normally or by any exception or cancellation.
ExitBody(h, normally) ==
    /\ pc[h] = "preparing"
    /\ exited' = IF normally THEN exited \cup {cur[h]} ELSE exited
    /\ Goto(h, IF normally THEN "acknowledging" ELSE "failed")
    /\ UNCHANGED <<rows, audited, lock, authority, unknown, outcome, selected>>

-----------------------------------------------------------------------------
(***************************************************************************)
(* _bound: the receipt, its route, its generation and the file still are   *)
(* what this scope created, and no other transition is unfinished.         *)
(***************************************************************************)
Bound(h) ==
    /\ row[cur[h]] = PendingCaller
    /\ head = cur[h] /\ shown = head
    /\ routes[SlotOf[h]] = cur[h]
    /\ Clear(cur[h])

\* The coordinator's lock, publication_guard and the first _bound.
EnterAcknowledge(h) ==
    /\ pc[h] = "acknowledging"
    /\ IF lock = Free /\ Live(h) /\ Bound(h)
       THEN lock' = h /\ Goto(h, "guarded")
       ELSE UNCHANGED lock /\ Goto(h, "failed")
    /\ UNCHANGED <<rows, audited, authority, exited, unknown, outcome, selected>>

\* The gateway's decision, the liveness check after it, and the audit record.
Decide_AuditBestEffort(h, verdict, ok) ==
    /\ pc[h] = "guarded"
    /\ IF Live(h) /\ verdict = "allow"
       THEN /\ audited' = IF ok THEN audited \cup {cur[h]} ELSE audited
            /\ Goto(h, "allowed") /\ UNCHANGED lock
       ELSE UNCHANGED audited /\ Goto(h, "failed") /\ lock' = Free
    /\ UNCHANGED <<rows, authority, exited, unknown, outcome, selected>>
Decide(h, verdict, ok) ==
    /\ pc[h] = "guarded"
    /\ IF Live(h) /\ ok /\ verdict = "allow"
       THEN audited' = audited \cup {cur[h]} /\ Goto(h, "allowed") /\ UNCHANGED lock
       ELSE UNCHANGED audited /\ Goto(h, "failed") /\ lock' = Free
    /\ UNCHANGED <<rows, authority, exited, unknown, outcome, selected>>

\* BEGIN IMMEDIATE, the second _bound and liveness check, and the compare-and-swap.
Swap(h) ==
    /\ pc[h] = "allowed"
    /\ IF Bound(h) /\ Live(h)
       THEN Goto(h, "swapped") /\ UNCHANGED lock
       ELSE Goto(h, "failed") /\ lock' = Free
    /\ UNCHANGED <<rows, audited, authority, exited, unknown, outcome, selected>>

\* Its commit returns, raises although it became durable, or is rolled back.
CommitAcknowledge_Swallows(h, commit) ==
    /\ pc[h] = "swapped"
    /\ lock' = Free
    /\ row' = IF commit = "lost" THEN row ELSE [row EXCEPT ![cur[h]] = Acknowledged]
    /\ Leave(h, "acknowledged")
    /\ UNCHANGED <<routes, head, shown, audited, cur, expired, exited, unknown, selected>>
CommitAcknowledge(h, commit) ==
    /\ pc[h] = "swapped"
    /\ lock' = Free
    /\ row' = IF commit = "lost" THEN row ELSE [row EXCEPT ![cur[h]] = Acknowledged]
    /\ IF commit = "returns"
       THEN Leave(h, "acknowledged") /\ UNCHANGED unknown
       ELSE /\ Goto(h, "failed")
            /\ unknown' = IF commit = "raises" THEN unknown \cup {cur[h]} ELSE unknown
            /\ UNCHANGED <<outcome, active>>
    /\ UNCHANGED <<routes, head, shown, audited, cur, expired, exited, selected>>

-----------------------------------------------------------------------------
\* _quarantine only reduces the receipt this scope is still bound to.
MayQuarantine(h) == Bound(h)

\* The failure audit is best effort; the lock and _bound are not.
EnterQuarantine(h) ==
    /\ pc[h] = "failed"
    /\ IF lock = Free /\ MayQuarantine(h)
       THEN lock' = h /\ Goto(h, "quarantining") /\ UNCHANGED <<outcome, active>>
       ELSE UNCHANGED lock /\ Leave(h, "failed")
    /\ UNCHANGED <<rows, audited, cur, expired, exited, unknown, selected>>

\* Whatever happens to its commit, the caller sees the original exception.
CommitQuarantine(h, effect) ==
    /\ pc[h] = "quarantining"
    /\ row' = IF MayQuarantine(h) /\ effect THEN [row EXCEPT ![cur[h]] = Quarantined] ELSE row
    /\ lock' = Free
    /\ Leave(h, "failed")
    /\ UNCHANGED <<routes, head, shown, audited, cur, expired, exited, unknown, selected>>

-----------------------------------------------------------------------------
\* revoke() from another thread waits for publication_guard.
Guarded(h) == pc[h] \in GuardPoints

Revoke(h) ==
    /\ active[h] /\ ~Guarded(h)
    /\ active' = [active EXCEPT ![h] = FALSE]
    /\ UNCHANGED <<rows, audited, lock, pc, cur, expired, exited, unknown, outcome, selected>>

\* The deadline passes or the owning task is being cancelled.
Expire(h) ==
    /\ pc[h] # "idle" /\ ~expired[h]
    /\ expired' = [expired EXCEPT ![h] = TRUE]
    /\ UNCHANGED <<rows, audited, lock, pc, cur, active, exited, unknown, outcome, selected>>

\* Process death and restart: the lock file is released, an open transaction rolled back.
Crash(h) ==
    /\ pc[h] # "idle"
    /\ lock' = IF lock = h THEN Free ELSE lock
    /\ Leave(h, "crashed")
    /\ UNCHANGED <<rows, audited, cur, expired, exited, unknown, selected>>

(***************************************************************************)
(* The reader of patch 29, as one lock acquisition and one read under it:  *)
(* the read is allowed, every transition is acknowledged, the file shows   *)
(* the rows and the slot has a route.                                      *)
(***************************************************************************)
Selectable(s) == s \in {"none", Acknowledged}

ReaderLock(r) ==
    /\ lock = Free
    /\ lock' = r
    /\ UNCHANGED <<rows, audited, pc, authority, exited, unknown, outcome, selected>>

ReaderLoad(r, s, allowed) ==
    /\ lock = r
    /\ lock' = Free
    /\ selected' = IF allowed /\ shown = head /\ \A a \in Attempts : Selectable(row[a])
                   THEN [selected EXCEPT ![r][s] = routes[s]] ELSE selected
    /\ UNCHANGED <<rows, audited, pc, authority, exited, unknown, outcome>>

-----------------------------------------------------------------------------
PrepareStep(h) ==
    \/ \E a \in Attempts :
          \/ CreateRefused(h, a)
          \/ \E s \in Unfinished, replaced \in BOOLEAN : CreateRaises(h, a, s, replaced)
          \/ Create(h, a)
    \/ \E normally \in BOOLEAN : ExitBody(h, normally)
    \/ EnterAcknowledge(h)
    \/ \E verdict \in {"allow", "deny"}, ok \in BOOLEAN : Decide(h, verdict, ok)
    \/ Swap(h)
    \/ \E commit \in {"returns", "raises", "lost"} : CommitAcknowledge(h, commit)
    \/ EnterQuarantine(h)
    \/ \E effect \in BOOLEAN : CommitQuarantine(h, effect)
    \/ Revoke(h)
    \/ Expire(h)
    \/ Crash(h)

Next ==
    \/ \E h \in Hosts : PrepareStep(h)
    \/ \E r \in Readers :
          ReaderLock(r) \/ \E s \in Slots, allowed \in BOOLEAN : ReaderLoad(r, s, allowed)

Spec == Init /\ [][Next]_vars
-----------------------------------------------------------------------------
\* The shape of the tables, the lock, the authorities and the readers' results.
TypeOK ==
    /\ routes \in [Slots -> Attempts \cup {NoAttempt}]
    /\ row \in [Attempts -> RowStates]
    /\ head \in Attempts \cup {NoAttempt} /\ shown \in Attempts \cup {NoAttempt}
    /\ audited \in SUBSET Attempts
    /\ lock \in Hosts \cup Readers \cup {Free}
    /\ pc \in [Hosts -> Points]
    /\ cur \in [Hosts -> Attempts \cup {NoAttempt}]
    /\ active \in [Hosts -> BOOLEAN] /\ expired \in [Hosts -> BOOLEAN]
    /\ exited \in SUBSET Attempts /\ unknown \in SUBSET Attempts
    /\ outcome \in [Attempts -> {"unused", "running", "acknowledged", "failed", "crashed"}]
    /\ selected \in [Readers -> [Slots -> Attempts \cup {NoAttempt}]]

Open(a) == row[a] \notin {"none", Acknowledged}

(***************************************************************************)
(* caller_acknowledged is earned: the body of that very attempt exited     *)
(* normally and the fresh decision to acknowledge it was recorded, however *)
(* many hosts, failures and crashes there were in between.                 *)
(***************************************************************************)
AcknowledgedIsEarned ==
    \A a \in Attempts : row[a] = Acknowledged => a \in exited /\ a \in audited

(***************************************************************************)
(* At most one transition is open at any time, it is the newest one, and   *)
(* the file is behind the database only while that one is unfinished.      *)
(***************************************************************************)
OneOpen ==
    /\ \A a \in Attempts : Open(a) => a = head
    /\ shown = head \/ (head \in Attempts /\ row[head] \in Unfinished)

(***************************************************************************)
(* What the caller of prepare() is told: success only for an acknowledged  *)
(* session, and a failure of an acknowledged one only if the commit itself *)
(* raised ("Unknown commit outcome reports uncertainty").                  *)
(***************************************************************************)
HonestOutcome ==
    \A a \in Attempts :
        /\ outcome[a] = "acknowledged" => row[a] = Acknowledged
        /\ row[a] = Acknowledged => outcome[a] = "acknowledged" \/ a \in unknown

(***************************************************************************)
(* A route a reader handed out is acknowledged, and still is the route of  *)
(* its slot: pending and quarantined sessions are never selected.          *)
(***************************************************************************)
SelectedIsAcknowledged ==
    \A r \in Readers, s \in Slots :
        selected[r][s] # NoAttempt =>
            row[selected[r][s]] = Acknowledged /\ routes[s] = selected[r][s]

(***************************************************************************)
(* Cleanup never alters an acknowledged or quarantined outcome, and no     *)
(* transition changes after its prepare() has ended.                       *)
(***************************************************************************)
OutcomesAreFinal ==
    [][\A a \in Attempts : row'[a] # row[a] =>
          /\ row[a] \in {"none", PendingCaller}
          /\ outcome[a] \in {"unused", "running"}]_vars

(***************************************************************************)
(* Fail closed: once a scope ended with its transition open (pending,      *)
(* quarantined or unfinished), no transition of any host changes again.    *)
(***************************************************************************)
OpenBlocksAll ==
    [][(\E a \in Attempts : Open(a) /\ outcome[a] # "running") => UNCHANGED row]_vars

(***************************************************************************)
(* revoke() serializes with the acknowledging commit: a session is never   *)
(* acknowledged under an authority that was revoked before.                *)
(***************************************************************************)
RevokedNeverAcknowledges ==
    [][\A h \in Hosts : pc[h] # "idle" /\ ~active[h] =>
          (row'[cur[h]] = Acknowledged => row[cur[h]] = Acknowledged)]_vars

-----------------------------------------------------------------------------
(***************************************************************************)
(* The inductive invariant.                                                *)
(***************************************************************************)
RouteInv ==
    /\ \A a \in Attempts : row[a] # "none" <=> \E s \in Slots : routes[s] = a
    /\ \A s, t \in Slots : routes[s] = routes[t] /\ routes[s] # NoAttempt => s = t
    /\ \A a \in Attempts : outcome[a] = "unused" => row[a] = "none"

ScopeInv ==
    /\ \A h \in Hosts : pc[h] # "idle" =>
          /\ cur[h] \in Attempts /\ outcome[cur[h]] = "running"
          /\ routes[SlotOf[h]] = cur[h]
          /\ pc[h] # "failed" => row[cur[h]] = PendingCaller
          /\ pc[h] \notin {"preparing", "failed", "quarantining"} => cur[h] \in exited
          /\ pc[h] = "swapped" => cur[h] \in audited
          /\ pc[h] = "allowed" => cur[h] \in audited
    /\ \A h, g \in Hosts :
          pc[h] # "idle" /\ pc[g] # "idle" /\ cur[h] = cur[g] => h = g

LockInv ==
    \A h \in Hosts :
        /\ pc[h] \in LockedPoints <=> lock = h
        /\ pc[h] \in GuardPoints => active[h]
        /\ pc[h] = "swapped" => Bound(h)
        /\ active[h] => pc[h] # "idle"

\* Everything together, for the proofs.
IInv ==
    /\ TypeOK /\ RouteInv /\ ScopeInv /\ LockInv
    /\ AcknowledgedIsEarned /\ OneOpen /\ HonestOutcome /\ SelectedIsAcknowledged

(***************************************************************************)
(* Seen by readers, the scope is the atomic register: a create reserves,   *)
(* the acknowledgement publishes, and a reservation that is never          *)
(* acknowledged stays in doubt for ever.                                   *)
(***************************************************************************)
Visible == [s \in Slots |->
    IF routes[s] # NoAttempt /\ row[routes[s]] = Acknowledged THEN routes[s] ELSE NoAttempt]
InDoubt == {p \in Slots \X Attempts : routes[p[1]] = p[2] /\ Open(p[2])}

Registry == INSTANCE SessionRegistry WITH visible <- Visible, indoubt <- InDoubt

\* prepare() implements the session register.
RegistrySpec == Registry!Spec
=============================================================================
