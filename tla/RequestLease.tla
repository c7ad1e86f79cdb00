----------------------------- MODULE RequestLease -----------------------------
(***************************************************************************)
(* The lifetime of a governed request's authority:                         *)
(*   src/src/project_maya/hermes_plugins/governance.py   (leases)          *)
(*   src/src/project_maya/hermes_plugins/session_requests.py               *)
(*   src/src/project_maya/hermes_plugins/session_handoff.py                *)
(*                                                                         *)
(* The host task of a request holds a root lease.  It may schedule one     *)
(* selected task, which hands one function to one executor thread; each    *)
(* of them holds a lease that depends on the one before it:                *)
(*                                                                         *)
(*     root -> task -> recv -> hand -> work                                *)
(*                                                                         *)
(* The event loop runs the host tasks, the selected tasks and the timers,  *)
(* one at a time; executor threads run beside it and cannot be stopped.    *)
(* Leases are plain objects without a lock, so revoke() is two steps: the  *)
(* lease is deactivated and the termination read, then it is written.      *)
(***************************************************************************)
EXTENDS Naturals, FiniteSets

CONSTANTS Requests,    \* authenticated requests, in any order of arrival
          NoRequest,   \* the request binding is free
          MaxSpawn     \* bound of the spawned counter

ASSUME LeaseConstants == NoRequest \notin Requests /\ MaxSpawn \in Nat \ {0}

VARIABLES
    binding,    \* CandidateSessionRequestBinding._lock: the request inside the scope
    main,       \* the host task of the request
    live,       \* leases of the request whose active flag is set
    term,       \* termination of the root lease
    pend,       \* a reason some thread is about to write into term
    late,       \* the monotonic clock has passed the root's deadline
    timer,      \* the caller scope's call_later(expire)
    callerClaim, taskClaim,   \* the factory's lists of consumed requests
    awaiting,   \* the host task awaits the selected task
    mainCancel, \* a cancellation of the host task was requested
    task,       \* the selected task
    taskCancel, \* a cancellation of the selected task was requested
    outcome,    \* how the selected task ended
    worker,     \* the executor thread's job
    spawned,    \* jobs ever submitted for the request
    writing,    \* the worker is inside session_write, past its checks
    cleaned     \* revoke_caller was called for the request

leaseVars == <<binding, main, live, term, pend, late, timer, callerClaim, taskClaim,
          awaiting, mainCancel, task, taskCancel, outcome, worker, spawned, writing, cleaned>>

hostVars == <<binding, main, timer, callerClaim, awaiting, mainCancel, cleaned>>
taskVars == <<taskClaim, task, taskCancel, outcome>>
workVars == <<worker, spawned, writing>>

Leases == {"root", "task", "recv", "hand", "work"}
Threads == {"loop", "worker"}
Reasons == {"completed", "cancelled", "timeout", "failed"}

\* The lease and its ancestors.
Chain(l) ==
    CASE l = "root" -> {"root"}
      [] l = "task" -> {"root", "task"}
      [] l = "recv" -> {"root", "task", "recv"}
      [] l = "hand" -> {"root", "task", "recv", "hand"}
      [] l = "work" -> Leases

LeaseInit ==
    /\ binding = NoRequest
    /\ main = [q \in Requests |-> "idle"]
    /\ live = [q \in Requests |-> {}]
    /\ term = [q \in Requests |-> "none"]
    /\ pend = [q \in Requests |-> [t \in Threads |-> "none"]]
    /\ late = [q \in Requests |-> FALSE]
    /\ timer = [q \in Requests |-> "off"]
    /\ callerClaim = [q \in Requests |-> FALSE]
    /\ taskClaim = [q \in Requests |-> FALSE]
    /\ awaiting = [q \in Requests |-> FALSE]
    /\ mainCancel = [q \in Requests |-> FALSE]
    /\ task = [q \in Requests |-> "none"]
    /\ taskCancel = [q \in Requests |-> FALSE]
    /\ outcome = [q \in Requests |-> "none"]
    /\ worker = [q \in Requests |-> "none"]
    /\ spawned = [q \in Requests |-> 0]
    /\ writing = [q \in Requests |-> FALSE]
    /\ cleaned = [q \in Requests |-> FALSE]

-----------------------------------------------------------------------------
\* is_active, for a lease whose expiry nobody has to notice first.
Active(q, l) == ~late[q] /\ Chain(l) \subseteq live[q]

\* The event loop's thread is not in the middle of a revoke().
LoopRuns == \A q \in Requests : pend[q]["loop"] = "none"
WorkerRuns(q) == worker[q] = "running" /\ pend[q]["worker"] = "none"

(***************************************************************************)
(* revoke(reason) on the leases ls, the root among them or not.  A         *)
(* completion past the deadline is a timeout.  The thread reads the        *)
(* termination here and writes it in Record, if it read none.              *)
(***************************************************************************)
Effective(q, reason) == IF reason = "completed" /\ late[q] THEN "timeout" ELSE reason

Revoke(q, t, ls, reason) ==
    /\ live' = [live EXCEPT ![q] = @ \ ls]
    /\ pend' = [pend EXCEPT ![q][t] =
                  IF "root" \in ls /\ term[q] = "none" THEN Effective(q, reason) ELSE "none"]

\* revoke_request: the root and the selected task's own lease.
RequestLeases == {"root", "task"}

Record(q, t) ==
    /\ pend[q][t] # "none"
    /\ term' = [term EXCEPT ![q] = pend[q][t]]
    /\ pend' = [pend EXCEPT ![q][t] = "none"]
    /\ UNCHANGED <<live, late, hostVars, taskVars, workVars>>

\* The deadline passes.
Deadline(q) ==
    /\ main[q] # "idle" /\ ~late[q]
    /\ late' = [late EXCEPT ![q] = TRUE]
    /\ UNCHANGED <<live, term, pend, hostVars, taskVars, workVars>>

(***************************************************************************)
(* A lease check notices the deadline and revokes the root.  On the loop   *)
(* any check does: the pruning of the claim lists checks every request's   *)
(* lease.  A worker's next session_write does, if no lease below the root  *)
(* stops the check before it gets there.                                   *)
(***************************************************************************)
Notice(q, t) ==
    /\ late[q] /\ ("root" \in live[q] \/ term[q] = "none")
    /\ \/ t = "loop" /\ LoopRuns
       \/ t = "worker" /\ WorkerRuns(q) /\ ~writing[q] /\ Chain("work") \ {"root"} \subseteq live[q]
    /\ Revoke(q, t, {"root"}, "timeout")
    /\ UNCHANGED <<term, late, hostVars, taskVars, workVars>>

-----------------------------------------------------------------------------
(* The host task.                                                          *)

\* authenticated_request and bind_session_write.
Bind(q) ==
    /\ LoopRuns
    /\ main[q] = "idle" /\ binding = NoRequest
    /\ binding' = q
    /\ main' = [main EXCEPT ![q] = "bound"]
    /\ live' = [live EXCEPT ![q] = {"root"}]
    /\ UNCHANGED <<term, pend, late, timer, callerClaim, awaiting, mainCancel, cleaned, taskVars, workVars>>

\* caller_scope: claimed before the audit record, so a failed record consumes it.
EnterCaller(q, audited) ==
    /\ LoopRuns
    /\ main[q] = "bound" /\ Active(q, "root") /\ ~callerClaim[q]
    /\ callerClaim' = [callerClaim EXCEPT ![q] = TRUE]
    /\ IF audited
       THEN /\ main' = [main EXCEPT ![q] = "caller"]
            /\ timer' = [timer EXCEPT ![q] = "armed"]
       ELSE UNCHANGED <<main, timer>>
    /\ UNCHANGED <<binding, live, term, pend, late, awaiting, mainCancel, cleaned, taskVars, workVars>>

\* schedule: one selected task per request; the claim survives a failed record.
Claimable(q) == ~taskClaim[q]

Schedule(q, audited) ==
    /\ LoopRuns
    /\ main[q] \in {"bound", "caller"} /\ ~awaiting[q]
    /\ Active(q, "root") /\ Claimable(q)
    /\ taskClaim' = [taskClaim EXCEPT ![q] = TRUE]
    /\ IF audited
       THEN /\ task' = [task EXCEPT ![q] = "created"]
            /\ live' = [live EXCEPT ![q] = @ \cup {"task"}]
       ELSE UNCHANGED <<task, live>>
    /\ UNCHANGED <<term, pend, late, hostVars, taskCancel, outcome, workVars>>

Await(q) ==
    /\ LoopRuns
    /\ main[q] \in {"bound", "caller"}
    /\ task[q] \in {"created", "executing"} /\ ~awaiting[q]
    /\ awaiting' = [awaiting EXCEPT ![q] = TRUE]
    /\ UNCHANGED <<binding, main, timer, callerClaim, mainCancel, cleaned,
                   live, term, pend, late, taskVars, workVars>>

(***************************************************************************)
(* _LeasedRequestTask.cancel, by a cancelled host task that awaits it or   *)
(* by whoever holds the task: the request is revoked before the            *)
(* cancellation is delivered.  A finished task is left alone.              *)
(***************************************************************************)
CancelTask(q) ==
    /\ LoopRuns
    /\ task[q] \in {"created", "executing"} /\ ~taskCancel[q]
    /\ taskCancel' = [taskCancel EXCEPT ![q] = TRUE]
    /\ Revoke(q, "loop", RequestLeases, "cancelled")
    /\ UNCHANGED <<term, late, hostVars, taskClaim, task, outcome, workVars>>

\* Cancelling the host task cancels the selected task it awaits.
CancelMain(q) ==
    /\ LoopRuns
    /\ main[q] \in {"bound", "caller"} /\ ~mainCancel[q]
    /\ mainCancel' = [mainCancel EXCEPT ![q] = TRUE]
    /\ IF awaiting[q] /\ task[q] # "done"
       THEN /\ taskCancel' = [taskCancel EXCEPT ![q] = TRUE]
            /\ Revoke(q, "loop", RequestLeases, "cancelled")
       ELSE UNCHANGED <<taskCancel, live, pend>>
    /\ UNCHANGED <<binding, main, timer, callerClaim, awaiting, cleaned, term, late,
                   taskClaim, task, outcome, workVars>>

\* revoke_caller: the native cleanup of the host task revokes before its first await.
RevokeCaller(q, reason) ==
    /\ LoopRuns
    /\ main[q] = "caller" /\ (awaiting[q] => task[q] = "done")
    /\ cleaned' = [cleaned EXCEPT ![q] = TRUE]
    /\ Revoke(q, "loop", {"root"}, reason)
    /\ UNCHANGED <<binding, main, timer, callerClaim, awaiting, mainCancel, term, late, taskVars, workVars>>

\* caller_scope's timer: expire() acts only on a root that is still active.
Expire(q) ==
    /\ LoopRuns
    /\ timer[q] = "armed" /\ late[q]
    /\ timer' = [timer EXCEPT ![q] = "fired"]
    /\ IF "root" \in live[q]
       THEN /\ mainCancel' = [mainCancel EXCEPT ![q] = TRUE]
            /\ LET waits == awaiting[q] /\ task[q] # "done"
               IN  /\ taskCancel' = [taskCancel EXCEPT ![q] = @ \/ waits]
                   /\ Revoke(q, "loop", IF waits THEN RequestLeases ELSE {"root"}, "timeout")
       ELSE UNCHANGED <<mainCancel, taskCancel, live, pend>>
    /\ UNCHANGED <<binding, main, callerClaim, awaiting, cleaned, term, late,
                   taskClaim, task, outcome, workVars>>

(***************************************************************************)
(* The host task leaves its scopes: normally, by an exception, or because  *)
(* its own or the awaited task's cancellation is delivered and not         *)
(* swallowed.  The timer is cancelled.                                     *)
(***************************************************************************)
ExitReasons(q) ==
    {"completed", "failed"}
        \cup (IF mainCancel[q] \/ (awaiting[q] /\ outcome[q] = "cancelled") THEN {"cancelled"} ELSE {})

ExitLeases == {"root"}

LeaveMain(q, reason) ==
    /\ LoopRuns
    /\ main[q] \in {"bound", "caller"}
    /\ awaiting[q] => task[q] = "done"
    /\ reason \in ExitReasons(q)
    /\ main' = [main EXCEPT ![q] = "leaving"]
    /\ timer' = [timer EXCEPT ![q] = "off"]
    /\ Revoke(q, "loop", ExitLeases, reason)
    /\ UNCHANGED <<binding, callerClaim, awaiting, mainCancel, cleaned,
                   term, late, taskVars, workVars>>

\* The request binding's lock is released last.
Unbind(q) ==
    /\ LoopRuns
    /\ main[q] = "leaving"
    /\ main' = [main EXCEPT ![q] = "done"]
    /\ binding' = NoRequest
    /\ UNCHANGED <<live, term, pend, late, timer, callerClaim, awaiting, mainCancel, cleaned, taskVars, workVars>>

-----------------------------------------------------------------------------
(* The selected task, _receive.                                            *)

EndTask(q, how) ==
    /\ task' = [task EXCEPT ![q] = "done"]
    /\ outcome' = [outcome EXCEPT ![q] = how]

(***************************************************************************)
(* The first step of the task binds the receiver's lease, selects the      *)
(* executor, audits the handoff and submits the job, without an await in   *)
(* between.  Revoked authority or a failed audit record fails the request, *)
(* unless the check finds the deadline passed.                             *)
(***************************************************************************)
Receive(q, audited) ==
    /\ LoopRuns
    /\ task[q] = "created" /\ ~taskCancel[q]
    /\ spawned[q] < MaxSpawn
    /\ IF Active(q, "task") /\ audited
       THEN /\ task' = [task EXCEPT ![q] = "executing"]
            /\ live' = [live EXCEPT ![q] = @ \cup {"recv", "hand"}]
            /\ worker' = [worker EXCEPT ![q] = "queued"]
            /\ spawned' = [spawned EXCEPT ![q] = @ + 1]
            /\ UNCHANGED <<pend, outcome>>
       ELSE /\ EndTask(q, "failed")
            /\ Revoke(q, "loop", {"root", "task"}, IF late[q] THEN "timeout" ELSE "failed")
            /\ UNCHANGED <<worker, spawned>>
    /\ UNCHANGED <<term, late, hostVars, taskClaim, taskCancel, writing>>

(***************************************************************************)
(* Cancellation is delivered at the task's await: a job still queued is    *)
(* dropped, a running one goes on without a lease.                         *)
(***************************************************************************)
Delivered_JoinsThread(q) ==
    /\ LoopRuns
    /\ task[q] \in {"created", "executing"} /\ taskCancel[q]
    /\ worker[q] # "running"
    /\ EndTask(q, "cancelled")
    /\ Revoke(q, "loop", {"root", "task", "recv", "hand"}, "cancelled")
    /\ worker' = [worker EXCEPT ![q] = IF @ = "queued" THEN "none" ELSE @]
    /\ UNCHANGED <<term, late, hostVars, taskClaim, taskCancel, spawned, writing>>

Delivered(q) ==
    /\ LoopRuns
    /\ task[q] \in {"created", "executing"} /\ taskCancel[q]
    /\ EndTask(q, "cancelled")
    /\ Revoke(q, "loop", {"root", "task", "recv", "hand"}, "cancelled")
    /\ worker' = [worker EXCEPT ![q] = IF @ = "queued" THEN "none" ELSE @]
    /\ UNCHANGED <<term, late, hostVars, taskClaim, taskCancel, spawned, writing>>

\* What a failing task revokes: the request's root and every lease of the task.
FailLeases == {"root", "task", "recv", "hand"}

\* The job's result or exception comes back to the awaiting task.
Return(q) ==
    /\ LoopRuns
    /\ task[q] = "executing" /\ ~taskCancel[q]
    /\ worker[q] \in {"succeeded", "raised"} /\ pend[q]["worker"] = "none"
    /\ IF worker[q] = "succeeded"
       THEN /\ EndTask(q, "returned")
            /\ Revoke(q, "loop", {"task", "recv", "hand"}, "completed")
       ELSE /\ EndTask(q, "failed")
            /\ Revoke(q, "loop", FailLeases, "failed")
    /\ UNCHANGED <<term, late, hostVars, taskClaim, taskCancel, workVars>>

-----------------------------------------------------------------------------
(* The executor thread, _invoke.                                           *)

\* _bind_session_handoff in the thread: refused authority raises there.
StartWorker(q) ==
    /\ worker[q] = "queued"
    /\ IF Active(q, "hand")
       THEN /\ worker' = [worker EXCEPT ![q] = "running"]
            /\ live' = [live EXCEPT ![q] = @ \cup {"work"}]
            /\ UNCHANGED pend
       ELSE /\ worker' = [worker EXCEPT ![q] = "raised"]
            /\ IF late[q] /\ {"task", "recv"} \subseteq live[q]
               THEN Revoke(q, "worker", {"root"}, "timeout")
               ELSE UNCHANGED <<live, pend>>
    /\ UNCHANGED <<term, late, hostVars, taskVars, spawned, writing>>

\* session_write: the lease is checked twice, then policy and audit decide.
MayWrite_OwnLease(q) == "work" \in live[q]
MayWrite(q) == Active(q, "work")

CheckWrite(q) ==
    /\ WorkerRuns(q) /\ ~writing[q]
    /\ MayWrite(q)
    /\ writing' = [writing EXCEPT ![q] = TRUE]
    /\ UNCHANGED <<live, term, pend, late, hostVars, taskVars, worker, spawned>>

DecideWrite(q) ==
    /\ writing[q]
    /\ writing' = [writing EXCEPT ![q] = FALSE]
    /\ UNCHANGED <<live, term, pend, late, hostVars, taskVars, worker, spawned>>

\* The function returns or raises; the thread's own lease ends with it.
EndWorker(q, how) ==
    /\ WorkerRuns(q) /\ ~writing[q]
    /\ worker' = [worker EXCEPT ![q] = how]
    /\ live' = [live EXCEPT ![q] = @ \ {"work"}]
    /\ UNCHANGED <<term, pend, late, hostVars, taskVars, spawned, writing>>

-----------------------------------------------------------------------------
LoopStep(q) ==
    \/ Record(q, "loop")
    \/ Expire(q)
    \/ \E audited \in BOOLEAN : Receive(q, audited)
    \/ Delivered(q)
    \/ Return(q)
    \/ Unbind(q)

WorkerStep(q) ==
    \/ Record(q, "worker")
    \/ StartWorker(q)
    \/ \E how \in {"succeeded", "raised"} : EndWorker(q, how)
    \/ DecideWrite(q)

HostStep(q) ==
    \/ Bind(q)
    \/ \E audited \in BOOLEAN : EnterCaller(q, audited) \/ Schedule(q, audited)
    \/ Await(q)
    \/ CancelTask(q)
    \/ CancelMain(q)
    \/ \E reason \in Reasons : LeaveMain(q, reason) \/ RevokeCaller(q, reason)

LeaseNext ==
    \E q \in Requests :
        \/ LoopStep(q)
        \/ WorkerStep(q)
        \/ HostStep(q)
        \/ CheckWrite(q)
        \/ Deadline(q)
        \/ \E t \in Threads : Notice(q, t)

LeaseSpec == LeaseInit /\ [][LeaseNext]_leaseVars

(***************************************************************************)
(* The event loop serves its ready callbacks.  Nothing is owed by executor *)
(* threads, whose function may hang, by the host task's body or the clock. *)
(***************************************************************************)
LeaseFairSpec == LeaseSpec /\ \A q \in Requests : WF_leaseVars(LoopStep(q))

-----------------------------------------------------------------------------
(* Properties.                                                             *)

\* The declared shape of leases, tasks and threads.
LeaseTypeOK ==
    /\ binding \in Requests \cup {NoRequest}
    /\ main \in [Requests -> {"idle", "bound", "caller", "leaving", "done"}]
    /\ live \in [Requests -> SUBSET Leases]
    /\ term \in [Requests -> Reasons \cup {"none"}]
    /\ pend \in [Requests -> [Threads -> Reasons \cup {"none"}]]
    /\ late \in [Requests -> BOOLEAN]
    /\ timer \in [Requests -> {"off", "armed", "fired"}]
    /\ callerClaim \in [Requests -> BOOLEAN]
    /\ taskClaim \in [Requests -> BOOLEAN]
    /\ awaiting \in [Requests -> BOOLEAN]
    /\ mainCancel \in [Requests -> BOOLEAN]
    /\ task \in [Requests -> {"none", "created", "executing", "done"}]
    /\ taskCancel \in [Requests -> BOOLEAN]
    /\ outcome \in [Requests -> {"none", "returned", "failed", "cancelled"}]
    /\ worker \in [Requests -> {"none", "queued", "running", "succeeded", "raised"}]
    /\ spawned \in [Requests -> 0 .. MaxSpawn]
    /\ writing \in [Requests -> BOOLEAN]
    /\ cleaned \in [Requests -> BOOLEAN]

(***************************************************************************)
(* "Cancellation cannot kill a running thread, but no later write may use  *)
(* its lease" (session_handoff.py:135): a write check never passes once    *)
(* the request was cancelled, left its scope or reported its termination,  *)
(* however long the executor thread runs on.  The root is revoked before a *)
(* cancellation is delivered, so everything else under the request loses   *)
(* its authority too, and a request whose selected task failed or was      *)
(* cancelled is never recorded as completed.                               *)
(***************************************************************************)
LateWorkerDenied ==
    [][\A q \in Requests :
          /\ ~writing[q] /\ writing'[q] =>
                /\ main[q] \in {"bound", "caller"}
                /\ ~taskCancel[q]
                /\ task[q] = "executing"
                /\ term[q] = "none"
          /\ taskCancel'[q] => "root" \notin live'[q]
          /\ term[q] # "completed" /\ term'[q] = "completed" =>
                outcome[q] \notin {"failed", "cancelled"} /\ ~taskCancel[q]]_leaseVars

(***************************************************************************)
(* A cancelled selected task ends, although its executor thread may never  *)
(* return: the loop delivers the cancellation at the task's await.         *)
(***************************************************************************)
CancelledTaskEnds ==
    \A q \in Requests : taskCancel[q] ~> task[q] = "done"

=============================================================================
