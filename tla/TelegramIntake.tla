---------------------------- MODULE TelegramIntake ----------------------------
(***************************************************************************)
(* Admission of polled Telegram updates:                                   *)
(*   src/src/project_maya/hermes_plugins/telegram_intake.py                *)
(*                                                                         *)
(* The polling application hands updates to dispatch(), which hands them   *)
(* to the intake callback.  The poller may hand over an update again, out  *)
(* of order, or from two tasks at once, and after a restart it starts with *)
(* whatever the service still holds.  The intake keeps its high-water mark *)
(* in memory only.                                                         *)
(***************************************************************************)
EXTENDS Integers

CONSTANTS Tasks,        \* dispatcher tasks
          Updates,      \* update ids
          Qualified,    \* updates whose message fields and owner mapping pass
          Free,         \* the intake's lock is not held
          MaxRestarts   \* bound on process restarts

ASSUME IntakeConstants ==
    /\ Updates \subseteq Nat /\ Qualified \subseteq Updates
    /\ Free \notin Tasks /\ MaxRestarts \in Nat

VARIABLES
    last,       \* _last_update
    lock,       \* holder of _lock
    at,         \* where each task's callback stands
    update,     \* the update each task handles
    allowed,    \* updates with an "identity bound" audit record, kept across restarts
    unsure,     \* updates whose allow record was written although write() raised
    started,    \* updates this intake instance handed to the consumer
    ended,      \* those whose consumer returned or raised
    lostSteps,  \* updates that were in hand when the process died
    restarts    \* number of restarts

vars == <<last, lock, at, update, allowed, unsure, started, ended, lostSteps, restarts>>
history == <<allowed, unsure, lostSteps, restarts>>

LockedPoints == {"locked", "accepted", "audited", "consuming"}
Points == {"idle", "called", "rejected"} \cup LockedPoints

Init ==
    /\ last = -1
    /\ lock = Free
    /\ at = [t \in Tasks |-> "idle"]
    /\ update \in [Tasks -> Updates]
    /\ allowed = {} /\ unsure = {} /\ started = {} /\ ended = {} /\ lostSteps = {}
    /\ restarts = 0

Goto(t, p) == at' = [at EXCEPT ![t] = p]

-----------------------------------------------------------------------------
\* The poller calls the handler with any update; the transport checks pass or raise.
Call(t, u, transportOk) ==
    /\ at[t] = "idle"
    /\ update' = [update EXCEPT ![t] = u]
    /\ Goto(t, IF transportOk THEN "called" ELSE "rejected")
    /\ UNCHANGED <<last, lock, started, ended, history>>

\* A non-blocking acquire: a concurrent callback is refused.
Acquire(t) ==
    /\ at[t] = "called"
    /\ IF lock = Free
       THEN lock' = t /\ Goto(t, "locked")
       ELSE UNCHANGED lock /\ Goto(t, "rejected")
    /\ UNCHANGED <<last, update, started, ended, history>>

\* Leaving the try block, normally or not, releases the lock.
Release_OnSuccessOnly(t) == UNCHANGED lock
Release(t) == lock' = Free

\* The update id must be above the mark; message and owner must qualify.
Fresh(t) == update[t] > last

Qualify(t) ==
    /\ at[t] = "locked"
    /\ IF Fresh(t) /\ update[t] \in Qualified
       THEN Goto(t, "accepted") /\ UNCHANGED lock
       ELSE Goto(t, "rejected") /\ Release(t)
    /\ UNCHANGED <<last, update, started, ended, history>>

\* The allow record; a sink that raises may have written it all the same.
Audit_BestEffort(t, result) ==
    /\ at[t] = "accepted"
    /\ allowed' = IF result = "lost" THEN allowed ELSE allowed \cup {update[t]}
    /\ Goto(t, "audited")
    /\ UNCHANGED <<last, lock, update, unsure, started, ended, lostSteps, restarts>>
Audit(t, result) ==
    /\ at[t] = "accepted"
    /\ allowed' = IF result = "lost" THEN allowed ELSE allowed \cup {update[t]}
    /\ unsure' = IF result = "raised" THEN unsure \cup {update[t]} ELSE unsure
    /\ IF result = "written"
       THEN Goto(t, "audited") /\ UNCHANGED lock
       ELSE Goto(t, "rejected") /\ Release(t)
    /\ UNCHANGED <<last, update, started, ended, lostSteps, restarts>>

\* "Consume once even on failure": the mark moves before the consumer is awaited.
Mark_AfterSuccess(t) == last
Mark(t) == update[t]

Consume(t) ==
    /\ at[t] = "audited"
    /\ last' = Mark(t)
    /\ started' = started \cup {update[t]}
    /\ Goto(t, "consuming")
    /\ UNCHANGED <<lock, update, ended, history>>

\* The consumer returns or is cancelled, which no handler reports, or it raises.
Finish(t, raised) ==
    /\ at[t] = "consuming"
    /\ ended' = ended \cup {update[t]}
    /\ Release(t)
    /\ Goto(t, IF raised THEN "rejected" ELSE "idle")
    /\ UNCHANGED <<last, update, started, history>>

\* dispatch() records the rejection, or fails to, and stops the handler chain.
Reject(t) ==
    /\ at[t] = "rejected"
    /\ Goto(t, "idle")
    /\ UNCHANGED <<last, lock, update, started, ended, history>>

\* The process restarts: a new intake instance, the audit log stays.
Restart ==
    /\ restarts < MaxRestarts
    /\ restarts' = restarts + 1
    /\ last' = -1 /\ lock' = Free
    /\ at' = [t \in Tasks |-> "idle"]
    /\ started' = {} /\ ended' = {}
    /\ lostSteps' = lostSteps \cup {update[t] : t \in {x \in Tasks : at[x] = "audited"}} \cup started
    /\ UNCHANGED <<update, allowed, unsure>>

TaskStep(t) ==
    \/ Acquire(t)
    \/ Qualify(t)
    \/ \E result \in {"written", "raised", "lost"} : Audit(t, result)
    \/ Consume(t)
    \/ \E raised \in BOOLEAN : Finish(t, raised)
    \/ Reject(t)

Next ==
    \/ \E t \in Tasks :
          TaskStep(t) \/ \E u \in Updates, transportOk \in BOOLEAN : Call(t, u, transportOk)
    \/ Restart

Spec == Init /\ [][Next]_vars

(***************************************************************************)
(* The event loop runs a task that can go on, and the host's consumer      *)
(* returns or raises; nothing obliges the poller to call.                  *)
(***************************************************************************)
FairSpec == Spec /\ \A t \in Tasks : WF_vars(TaskStep(t))

-----------------------------------------------------------------------------
\* The shape of the intake's state.
TypeOK ==
    /\ last \in Updates \cup {-1}
    /\ lock \in Tasks \cup {Free}
    /\ at \in [Tasks -> Points]
    /\ update \in [Tasks -> Updates]
    /\ allowed \in SUBSET Updates /\ unsure \in SUBSET Updates
    /\ started \in SUBSET Updates /\ ended \in SUBSET Updates
    /\ lostSteps \in SUBSET Updates
    /\ restarts \in 0..MaxRestarts

(***************************************************************************)
(* "refuses duplicates/out-of-order updates within this callback instance" *)
(* (docs/architecture/hermes_session_write_contract.md): whatever tasks    *)
(* and failures do, an instance hands updates to its consumer in strictly  *)
(* increasing order, so a failed or cancelled one is never replayed.       *)
(***************************************************************************)
InOrderOnce ==
    [][\A t \in Tasks : at[t] = "audited" /\ at'[t] = "consuming" =>
          \A u \in started : u < update[t]]_vars

(***************************************************************************)
(* At most one consumer runs at a time, so two updates never share an      *)
(* identity scope.                                                         *)
(***************************************************************************)
OneConsumer ==
    /\ \A t, x \in Tasks : at[t] = "consuming" /\ at[x] = "consuming" => t = x
    /\ \A u \in started \ ended : \E t \in Tasks : at[t] = "consuming" /\ update[t] = u

(***************************************************************************)
(* The audit log and the dispatches agree: nothing is dispatched without   *)
(* an allow record, and an allow record without a dispatch is explained by *)
(* a sink that raised, a task between the two steps, or a restart.         *)
(***************************************************************************)
AuditExplainsDispatch ==
    /\ started \subseteq allowed
    /\ \A u \in allowed \ started :
          u \in unsure \/ u \in lostSteps \/ \E t \in Tasks : at[t] = "audited" /\ update[t] = u

\* A callback between acquire and release is the lock's holder.
LockInv == \A t \in Tasks : at[t] \in LockedPoints <=> lock = t

\* The mark covers all that was started, and an accepted update is above it.
MarkInv ==
    /\ \A u \in started : u <= last
    /\ \A t \in Tasks : at[t] \in {"accepted", "audited"} => update[t] > last

\* A callback past the audit has its record, one past the mark is started.
RecordInv ==
    /\ \A t \in Tasks : at[t] = "audited" => update[t] \in allowed
    /\ \A t \in Tasks : at[t] = "consuming" => update[t] \in started

\* The inductive invariant: the lock's holder, the mark and the log agree.
IInv == TypeOK /\ OneConsumer /\ AuditExplainsDispatch /\ LockInv /\ MarkInv /\ RecordInv

(***************************************************************************)
(* An intake that is busy becomes free again: no rejection, audit failure  *)
(* or consumer error leaves the lock behind.                               *)
(***************************************************************************)
IntakeBecomesFree == lock # Free ~> lock = Free
=============================================================================
