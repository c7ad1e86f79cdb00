--------------------------- MODULE RequestPath_proofs ---------------------------
(***************************************************************************)
(* Proofs about the way of a request through a running agent: the public   *)
(* Agent above its adapter and runtime (AgentLifecycle), for any plugins   *)
(* and callers; the admission of Telegram updates (TelegramIntake), for    *)
(* any tasks, update ids and restarts; and the leases under which a        *)
(* request's tasks and executor threads act (RequestLease), for any        *)
(* requests.  The last part shows that the composition of the three is a   *)
(* behaviour of each, so that all of it holds there too.                   *)
(***************************************************************************)
EXTENDS RequestPath, TLAPS

-----------------------------------------------------------------------------
(* The agent.                                                              *)

USE DEF LockFree, agentVars, adapterVars, runtimeVars

\* A newly constructed Agent over an adapter without a runtime.
LEMMA AgentInitInv == AgentInit => AgentIInv
BY DEF AgentInit, AgentIInv, AgentTypeOK, CreatedInv, StoppingInv, BoundInv, LoadedIsLive, RunningIsServed

\* Every operation of the facade, and every request step, keeps the three layers in agreement.
LEMMA AgentStepInv == AgentIInv /\ [AgentNext]_allVars => AgentIInv'
<1> USE DEF AgentIInv, AgentTypeOK, CreatedInv, StoppingInv, BoundInv, LoadedIsLive, RunningIsServed
<1>1. AgentIInv /\ AttachMemory => AgentIInv'
  BY DEF AttachMemory
<1>2. ASSUME NEW p \in Plugins PROVE AgentIInv /\ QueuePlugin(p) => AgentIInv'
  BY DEF QueuePlugin
<1>3. ASSUME NEW p \in Plugins, NEW ok \in BOOLEAN PROVE AgentIInv /\ LoadPlugin(p, ok) => AgentIInv'
  BY DEF LoadPlugin, Report
<1>4. AgentIInv /\ StartOk => AgentIInv'
  BY DEF StartOk
<1>5. AgentIInv /\ StartFails => AgentIInv'
  BY DEF StartFails, Incompatible, NotConstructed, Partial
<1>6. AgentIInv /\ StopCreated => AgentIInv'
  BY DEF StopCreated
<1>7. AgentIInv /\ StopBegin => AgentIInv'
  BY DEF StopBegin
<1>8. AgentIInv /\ StopMemory => AgentIInv'
  BY DEF StopMemory
<1>9. AgentIInv /\ StopRuntime => AgentIInv'
  <2> SUFFICES ASSUME AgentIInv, StopRuntime PROVE AgentIInv'
    OBVIOUS
  <2>1. rt' = "stopped" \/ (~wrapped /\ rt' = "started")
    BY DEF StopRuntime, StoppedRuntime
  <2>2. AgentTypeOK'
    BY <2>1 DEF StopRuntime
  <2>3. CreatedInv' /\ StoppingInv' /\ BoundInv'
    BY <2>1 DEF StopRuntime
  <2>4. LoadedIsLive' /\ RunningIsServed'
    BY <2>1 DEF StopRuntime
  <2> QED
    BY <2>2, <2>3, <2>4
<1>10. AgentIInv /\ StopFails => AgentIInv'
  BY DEF StopFails
<1>11. ASSUME NEW c \in Callers PROVE AgentIInv /\ Admit(c) => AgentIInv'
  BY DEF Admit
<1>12. ASSUME NEW c \in Callers PROVE AgentIInv /\ (TestStarted(c) \/ Dispatch(c)) => AgentIInv'
  BY DEF TestStarted, Dispatch
<1>13. ASSUME NEW c \in Callers PROVE AgentIInv /\ Answer(c) => AgentIInv'
  BY DEF Answer
<1>14. AgentIInv /\ UNCHANGED allVars => AgentIInv'
  BY DEF allVars
<1> QED
  BY <1>1, <1>2, <1>3, <1>4, <1>5, <1>6, <1>7, <1>8, <1>9, <1>10, <1>11, <1>12, <1>13, <1>14 DEF AgentNext

(***************************************************************************)
(* Each state of the facade is backed by the adapter and the runtime.      *)
(***************************************************************************)
THEOREM AgentInductive == AgentSpec => []AgentIInv
BY AgentInitInv, AgentStepInv, PTL DEF AgentSpec

(***************************************************************************)
(* The plugins Agent.plugins reports were accepted by the runtime, however *)
(* start() and load_plugin() fail.                                         *)
(***************************************************************************)
THEOREM PluginsAreLive == AgentSpec => []LoadedIsLive
<1>1. AgentIInv => LoadedIsLive
  BY DEF AgentIInv
<1> QED
  BY <1>1, AgentInductive, PTL

(***************************************************************************)
(* A running agent is served by a started runtime, an AIAgent with its     *)
(* memory open; stopping leaves no AIAgent with either.                    *)
(***************************************************************************)
THEOREM RunningServed == AgentSpec => []RunningIsServed
<1>1. AgentIInv => RunningIsServed
  BY DEF AgentIInv
<1> QED
  BY <1>1, AgentInductive, PTL

-----------------------------------------------------------------------------
(* The intake.                                                             *)

USE IntakeConstants DEF history, LockedPoints, Points

\* A new intake: the lock is free and no update was started.
LEMMA IntakeInitInv == Init => IInv
BY DEF Init, IInv, TypeOK, OneConsumer, AuditExplainsDispatch, LockInv, MarkInv, RecordInv

\* Every step of a callback, and a restart, keep the lock, the mark and the log in agreement.
LEMMA IntakeStepInv == IInv /\ [Next]_vars => IInv'
<1>1. ASSUME IInv, NEW t \in Tasks, NEW u \in Updates, NEW ok \in BOOLEAN, Call(t, u, ok) PROVE IInv'
  <2>1. TypeOK'
    BY <1>1 DEF IInv, Call, Goto, TypeOK
  <2>2. LockInv'
    BY <1>1 DEF IInv, Call, Goto, TypeOK, LockInv
  <2>3. MarkInv'
    BY <1>1 DEF IInv, Call, Goto, TypeOK, LockInv, MarkInv
  <2>4. RecordInv'
    BY <1>1 DEF IInv, Call, Goto, TypeOK, LockInv, RecordInv
  <2>5. OneConsumer'
    BY <1>1 DEF IInv, Call, Goto, TypeOK, LockInv, RecordInv, OneConsumer
  <2>6. AuditExplainsDispatch'
    BY <1>1 DEF IInv, Call, Goto, TypeOK, LockInv, RecordInv, OneConsumer, AuditExplainsDispatch
  <2> QED
    BY <2>1, <2>2, <2>3, <2>4, <2>5, <2>6 DEF IInv
<1>2. ASSUME IInv, NEW t \in Tasks, Acquire(t) PROVE IInv'
  <2>1. TypeOK'
    BY <1>2 DEF IInv, Acquire, Goto, TypeOK
  <2>2. LockInv'
    BY <1>2 DEF IInv, Acquire, Goto, TypeOK, LockInv
  <2>3. MarkInv'
    BY <1>2 DEF IInv, Acquire, Goto, TypeOK, LockInv, MarkInv
  <2>4. RecordInv'
    BY <1>2 DEF IInv, Acquire, Goto, TypeOK, LockInv, RecordInv
  <2>5. OneConsumer'
    BY <1>2 DEF IInv, Acquire, Goto, TypeOK, LockInv, RecordInv, OneConsumer
  <2>6. AuditExplainsDispatch'
    BY <1>2 DEF IInv, Acquire, Goto, TypeOK, LockInv, RecordInv, OneConsumer, AuditExplainsDispatch
  <2> QED
    BY <2>1, <2>2, <2>3, <2>4, <2>5, <2>6 DEF IInv
<1>3. ASSUME IInv, NEW t \in Tasks, Qualify(t) PROVE IInv'
  <2>1. TypeOK'
    BY <1>3 DEF IInv, Qualify, Fresh, Release, Goto, TypeOK
  <2>2. LockInv'
    BY <1>3 DEF IInv, Qualify, Fresh, Release, Goto, TypeOK, LockInv
  <2>3. MarkInv'
    BY <1>3 DEF IInv, Qualify, Fresh, Release, Goto, TypeOK, LockInv, MarkInv
  <2>4. RecordInv'
    BY <1>3 DEF IInv, Qualify, Fresh, Release, Goto, TypeOK, LockInv, RecordInv
  <2>5. OneConsumer'
    BY <1>3 DEF IInv, Qualify, Fresh, Release, Goto, TypeOK, LockInv, RecordInv, OneConsumer
  <2>6. AuditExplainsDispatch'
    BY <1>3 DEF IInv, Qualify, Fresh, Release, Goto, TypeOK, LockInv, RecordInv, OneConsumer, AuditExplainsDispatch
  <2> QED
    BY <2>1, <2>2, <2>3, <2>4, <2>5, <2>6 DEF IInv
<1>4. ASSUME IInv, NEW t \in Tasks, NEW result \in {"written", "raised", "lost"}, Audit(t, result) PROVE IInv'
  <2>1. TypeOK'
    BY <1>4 DEF IInv, Audit, Release, Goto, TypeOK
  <2>2. LockInv'
    BY <1>4 DEF IInv, Audit, Release, Goto, TypeOK, LockInv
  <2>3. MarkInv'
    BY <1>4 DEF IInv, Audit, Release, Goto, TypeOK, LockInv, MarkInv
  <2>4. RecordInv'
    BY <1>4 DEF IInv, Audit, Release, Goto, TypeOK, LockInv, RecordInv
  <2>5. OneConsumer'
    BY <1>4 DEF IInv, Audit, Release, Goto, TypeOK, LockInv, RecordInv, OneConsumer
  <2>6. AuditExplainsDispatch'
    BY <1>4 DEF IInv, Audit, Release, Goto, TypeOK, LockInv, RecordInv, OneConsumer, AuditExplainsDispatch
  <2> QED
    BY <2>1, <2>2, <2>3, <2>4, <2>5, <2>6 DEF IInv
<1>5. ASSUME IInv, NEW t \in Tasks, Consume(t) PROVE IInv'
  <2>1. TypeOK'
    BY <1>5 DEF IInv, Consume, Mark, Goto, TypeOK
  <2>2. LockInv'
    BY <1>5 DEF IInv, Consume, Mark, Goto, TypeOK, LockInv
  <2>3. MarkInv'
    BY <1>5 DEF IInv, Consume, Mark, Goto, TypeOK, LockInv, MarkInv
  <2>4. RecordInv'
    BY <1>5 DEF IInv, Consume, Mark, Goto, TypeOK, LockInv, RecordInv
  <2>5. OneConsumer'
    BY <1>5 DEF IInv, Consume, Mark, Goto, TypeOK, LockInv, RecordInv, OneConsumer
  <2>6. AuditExplainsDispatch'
    BY <1>5 DEF IInv, Consume, Mark, Goto, TypeOK, LockInv, RecordInv, OneConsumer, AuditExplainsDispatch
  <2> QED
    BY <2>1, <2>2, <2>3, <2>4, <2>5, <2>6 DEF IInv
<1>6. ASSUME IInv, NEW t \in Tasks, NEW raised \in BOOLEAN, Finish(t, raised) PROVE IInv'
  <2>1. TypeOK'
    BY <1>6 DEF IInv, Finish, Release, Goto, TypeOK
  <2>2. LockInv'
    BY <1>6 DEF IInv, Finish, Release, Goto, TypeOK, LockInv
  <2>3. MarkInv'
    BY <1>6 DEF IInv, Finish, Release, Goto, TypeOK, LockInv, MarkInv
  <2>4. RecordInv'
    BY <1>6 DEF IInv, Finish, Release, Goto, TypeOK, LockInv, RecordInv
  <2>5. OneConsumer'
    BY <1>6 DEF IInv, Finish, Release, Goto, TypeOK, LockInv, RecordInv, OneConsumer
  <2>6. AuditExplainsDispatch'
    BY <1>6 DEF IInv, Finish, Release, Goto, TypeOK, LockInv, RecordInv, OneConsumer, AuditExplainsDispatch
  <2> QED
    BY <2>1, <2>2, <2>3, <2>4, <2>5, <2>6 DEF IInv
<1>7. ASSUME IInv, NEW t \in Tasks, Reject(t) PROVE IInv'
  <2>1. TypeOK'
    BY <1>7 DEF IInv, Reject, Goto, TypeOK
  <2>2. LockInv'
    BY <1>7 DEF IInv, Reject, Goto, TypeOK, LockInv
  <2>3. MarkInv'
    BY <1>7 DEF IInv, Reject, Goto, TypeOK, LockInv, MarkInv
  <2>4. RecordInv'
    BY <1>7 DEF IInv, Reject, Goto, TypeOK, LockInv, RecordInv
  <2>5. OneConsumer'
    BY <1>7 DEF IInv, Reject, Goto, TypeOK, LockInv, RecordInv, OneConsumer
  <2>6. AuditExplainsDispatch'
    BY <1>7 DEF IInv, Reject, Goto, TypeOK, LockInv, RecordInv, OneConsumer, AuditExplainsDispatch
  <2> QED
    BY <2>1, <2>2, <2>3, <2>4, <2>5, <2>6 DEF IInv
<1>8. ASSUME IInv, Restart PROVE IInv'
  <2>1. TypeOK'
    <3>1. lostSteps' \in SUBSET Updates
      BY <1>8 DEF IInv, Restart, TypeOK
    <3>2. at' \in [Tasks -> Points] /\ restarts' \in 0..MaxRestarts
      BY <1>8 DEF IInv, Restart, TypeOK
    <3> QED
      BY <1>8, <3>1, <3>2 DEF IInv, Restart, TypeOK
  <2>2. LockInv'
    BY <1>8 DEF IInv, Restart, TypeOK, LockInv
  <2>3. MarkInv'
    BY <1>8 DEF IInv, Restart, TypeOK, LockInv, MarkInv
  <2>4. RecordInv'
    BY <1>8 DEF IInv, Restart, TypeOK, LockInv, RecordInv
  <2>5. OneConsumer'
    BY <1>8 DEF IInv, Restart, TypeOK, LockInv, RecordInv, OneConsumer
  <2>6. AuditExplainsDispatch'
    BY <1>8 DEF IInv, Restart, TypeOK, LockInv, RecordInv, OneConsumer, AuditExplainsDispatch
  <2> QED
    BY <2>1, <2>2, <2>3, <2>4, <2>5, <2>6 DEF IInv
<1>9. ASSUME IInv, UNCHANGED vars PROVE IInv'
  BY <1>9 DEF vars, IInv, TypeOK, OneConsumer, AuditExplainsDispatch, LockInv, MarkInv, RecordInv
<1> QED
  BY <1>1, <1>2, <1>3, <1>4, <1>5, <1>6, <1>7, <1>8, <1>9 DEF Next, TaskStep

(***************************************************************************)
(* The lock has one holder, the mark covers what was started, and the      *)
(* audit log accounts for every dispatch of the intake.                    *)
(***************************************************************************)
THEOREM IntakeInductive == Spec => []IInv
BY IntakeInitInv, IntakeStepInv, PTL DEF Spec

(***************************************************************************)
(* Nothing reaches the consumer without an allow record, and an allow      *)
(* record without a dispatch is explained.                                 *)
(***************************************************************************)
THEOREM AuditAgrees == Spec => []AuditExplainsDispatch
<1>1. IInv => AuditExplainsDispatch
  BY DEF IInv
<1> QED
  BY <1>1, IntakeInductive, PTL

(***************************************************************************)
(* An update is handed to the consumer only above all those handed to it   *)
(* before, so a failed one is never replayed by the same instance.         *)
(***************************************************************************)
THEOREM InOrderAndOnce == Spec => InOrderOnce
<1> DEFINE InOrder == \A t \in Tasks : at[t] = "audited" /\ at'[t] = "consuming" =>
                          \A u \in started : u < update[t]
<1>1. ASSUME IInv PROVE InOrder
  <2> SUFFICES ASSUME NEW t \in Tasks, at[t] = "audited", NEW u \in started
               PROVE  u < update[t]
    OBVIOUS
  <2>1. u <= last /\ last < update[t]
    BY <1>1 DEF IInv, TypeOK, MarkInv
  <2>2. u \in Updates /\ update[t] \in Updates /\ last \in Updates \cup {-1}
    BY <1>1 DEF IInv, TypeOK
  <2>3. Updates \cup {-1} \subseteq Int
    BY IntakeConstants
  <2>4. u \in Int /\ update[t] \in Int /\ last \in Int
    BY <2>2, <2>3
  <2> HIDE DEF InOrder
  <2> QED
    BY <2>1, <2>4
<1> QED
  BY <1>1, IntakeInductive, PTL DEF InOrderOnce

-----------------------------------------------------------------------------
(* The leases of a request.                                                *)

\* Nothing has happened to a request that was not admitted yet.
Unseen(q) ==
    main[q] = "idle" =>
        /\ live[q] = {} /\ term[q] = "none" /\ ~late[q]
        /\ \A t \in Threads : pend[q][t] = "none"
        /\ task[q] = "none" /\ ~taskCancel[q] /\ outcome[q] = "none" /\ worker[q] = "none"

\* A root lease is live only inside the scope, before anything ended the request.
RootInv(q) ==
    "root" \in live[q] =>
        /\ main[q] \in {"bound", "caller"} /\ ~taskCancel[q] /\ term[q] = "none"
        /\ \A t \in Threads : pend[q][t] = "none"

\* The receiver's lease ends with the selected task.
ReceiverInv(q) == "recv" \in live[q] => task[q] = "executing"

\* A request's claim outlives its selected task.
ClaimInv(q) == task[q] # "none" => taskClaim[q]

(***************************************************************************)
(* A failed or cancelled task has ended the request, or the loop is about  *)
(* to write down that it did; a completion is only ever written by the     *)
(* loop, and of a request whose task did neither.                          *)
(***************************************************************************)
EndedInv(q) ==
    /\ outcome[q] \in {"failed", "cancelled"} \/ taskCancel[q] =>
           term[q] # "none" \/ pend[q]["loop"] # "none"
    /\ pend[q]["loop"] = "completed" =>
           outcome[q] \notin {"failed", "cancelled"} /\ ~taskCancel[q]
    /\ pend[q]["worker"] \in {"none", "timeout"}

LeaseInv(q) == Unseen(q) /\ RootInv(q) /\ ReceiverInv(q) /\ ClaimInv(q) /\ EndedInv(q)

LeaseIInv == LeaseTypeOK /\ \A q \in Requests : LeaseInv(q)

USE DEF hostVars, taskVars, workVars, Threads, Reasons

\* No request was admitted.
LEMMA LeaseInitInv == LeaseInit => LeaseIInv
BY LeaseConstants DEF LeaseInit, LeaseIInv, LeaseTypeOK, Leases, LeaseInv, Unseen, RootInv, ReceiverInv, ClaimInv, EndedInv

(***************************************************************************)
(* revoke() takes leases away from one request; the root lease only with a *)
(* reason the same thread writes down next, unless one is written already. *)
(***************************************************************************)
LEMMA Revoked ==
    ASSUME LeaseTypeOK, NEW q \in Requests, NEW t \in Threads, NEW ls \in SUBSET Leases,
           NEW reason \in Reasons, Revoke(q, t, ls, reason)
    PROVE  /\ live' \in [Requests -> SUBSET Leases] /\ live'[q] = live[q] \ ls
           /\ pend' \in [Requests -> [Threads -> Reasons \cup {"none"}]]
           /\ \A r \in Requests : r # q => live'[r] = live[r] /\ pend'[r] = pend[r]
           /\ \A u \in Threads : u # t => pend'[q][u] = pend[q][u]
           /\ "root" \in ls /\ term[q] = "none" =>
                  pend'[q][t] \in {reason, "timeout"} /\ pend'[q][t] \in Reasons
           /\ "root" \notin ls \/ term[q] # "none" => pend'[q][t] = "none"
<1>1. Effective(q, reason) \in {reason, "timeout"} /\ Effective(q, reason) \in Reasons
  BY DEF Effective
<1>2. live' = [live EXCEPT ![q] = live[q] \ ls] /\ live \in [Requests -> SUBSET Leases]
  BY DEF Revoke, LeaseTypeOK
<1>3. live' \in [Requests -> SUBSET Leases] /\ live'[q] = live[q] \ ls
      /\ \A r \in Requests : r # q => live'[r] = live[r]
  BY <1>2
<1>4. PICK e \in Reasons \cup {"none"} :
         /\ pend' = [pend EXCEPT ![q][t] = e]
         /\ "root" \in ls /\ term[q] = "none" => e \in {reason, "timeout"} /\ e \in Reasons
         /\ "root" \notin ls \/ term[q] # "none" => e = "none"
  BY <1>1 DEF Revoke
<1>5. pend' \in [Requests -> [Threads -> Reasons \cup {"none"}]]
      /\ pend'[q][t] = e
      /\ \A r \in Requests : r # q => pend'[r] = pend[r]
      /\ \A u \in Threads : u # t => pend'[q][u] = pend[q][u]
  BY <1>4 DEF LeaseTypeOK
<1> QED BY <1>3, <1>4, <1>5

\* What a step of one request leaves alone keeps the invariant of the others.
LEMMA OtherRequests ==
    ASSUME LeaseIInv, NEW q \in Requests, LeaseTypeOK', LeaseInv(q)',
           \A r \in Requests : r # q =>
               /\ main'[r] = main[r] /\ live'[r] = live[r] /\ term'[r] = term[r]
               /\ pend'[r] = pend[r] /\ late'[r] = late[r] /\ task'[r] = task[r]
               /\ taskClaim'[r] = taskClaim[r] /\ taskCancel'[r] = taskCancel[r]
               /\ outcome'[r] = outcome[r]
               /\ worker'[r] = worker[r]
    PROVE  LeaseIInv'
BY DEF LeaseIInv, LeaseInv, Unseen, RootInv, ReceiverInv, ClaimInv, EndedInv

(***************************************************************************)
(* The steps that take no lease away.                                      *)
(***************************************************************************)
LEMMA KeepsLeases ==
    ASSUME LeaseIInv, NEW q \in Requests,
           \/ \E t \in Threads : Record(q, t)
           \/ Deadline(q) \/ Bind(q) \/ Await(q) \/ Unbind(q)
           \/ \E audited \in BOOLEAN : EnterCaller(q, audited) \/ Schedule(q, audited)
           \/ CheckWrite(q) \/ DecideWrite(q)
           \/ \E how \in {"succeeded", "raised"} : EndWorker(q, how)
    PROVE  LeaseIInv'
<1> USE DEF LeaseIInv, LeaseTypeOK, LeaseInv, Unseen, RootInv, ReceiverInv, ClaimInv, EndedInv, Leases
<1>1. ASSUME NEW t \in Threads, Record(q, t) PROVE LeaseIInv'
  BY <1>1 DEF Record
<1>2. CASE Deadline(q)
  BY <1>2 DEF Deadline
<1>3. CASE Bind(q)
  BY <1>3 DEF Bind
<1>4. CASE Await(q)
  BY <1>4 DEF Await
<1>5. CASE Unbind(q)
  BY <1>5 DEF Unbind
<1>6. ASSUME NEW audited \in BOOLEAN, EnterCaller(q, audited) PROVE LeaseIInv'
  <2>1. CASE audited
    <3>1. LeaseTypeOK'
      <4>1. main' \in [Requests -> {"idle", "bound", "caller", "leaving", "done"}]
            /\ timer' \in [Requests -> {"off", "armed", "fired"}]
        <5>1. /\ main' = [main EXCEPT ![q] = "caller"]
              /\ timer' = [timer EXCEPT ![q] = "armed"]
          BY <1>6, <2>1, Zenon DEF EnterCaller
        <5> QED BY <5>1
      <4>2. callerClaim' \in [Requests -> BOOLEAN]
        BY <1>6 DEF EnterCaller
      <4> QED BY <1>6, <4>1, <4>2 DEF EnterCaller
    <3>2. LeaseInv(q)'
      BY <1>6, <2>1 DEF EnterCaller
    <3> QED BY <1>6, <2>1, <3>1, <3>2, OtherRequests DEF EnterCaller
  <2>2. CASE ~audited
    BY <1>6, <2>2 DEF EnterCaller
  <2> QED BY <2>1, <2>2
<1>7. ASSUME NEW audited \in BOOLEAN, Schedule(q, audited) PROVE LeaseIInv'
  <2>1. CASE audited
    <3>1. LeaseTypeOK'
      <4>1. task' \in [Requests -> {"none", "created", "executing", "done"}]
            /\ live' \in [Requests -> SUBSET Leases]
        <5>1. /\ task' = [task EXCEPT ![q] = "created"]
              /\ live' = [live EXCEPT ![q] = @ \cup {"task"}]
          BY <1>7, <2>1, Zenon DEF Schedule
        <5> QED BY <5>1
      <4>2. taskClaim' \in [Requests -> BOOLEAN]
        BY <1>7 DEF Schedule
      <4> QED BY <1>7, <4>1, <4>2 DEF Schedule
    <3>2. /\ live'[q] = live[q] \cup {"task"} /\ task'[q] = "created"
          /\ \A r \in Requests : r # q =>
                 live'[r] = live[r] /\ task'[r] = task[r] /\ taskClaim'[r] = taskClaim[r]
      BY <1>7, <2>1 DEF Schedule
    <3>3. main[q] # "idle" /\ main' = main /\ "recv" \notin {"task"}
          /\ UNCHANGED <<term, pend, late, taskCancel, outcome, worker>>
          /\ task[q] # "executing" /\ taskClaim'[q]
      BY <1>7 DEF Schedule, Claimable
    <3>4. LeaseInv(q)'
      BY <3>2, <3>3
    <3> QED BY <1>7, <2>1, <3>1, <3>2, <3>4, OtherRequests DEF Schedule
  <2>2. CASE ~audited
    BY <1>7, <2>2 DEF Schedule
  <2> QED BY <2>1, <2>2
<1>8. CASE CheckWrite(q)
  BY <1>8 DEF CheckWrite
<1>9. CASE DecideWrite(q)
  BY <1>9 DEF DecideWrite
<1>10. ASSUME NEW how \in {"succeeded", "raised"}, EndWorker(q, how) PROVE LeaseIInv'
  <2>1. how \in {"none", "queued", "running", "succeeded", "raised"}
    OBVIOUS
  <2>2. LeaseTypeOK'
    BY <1>10, <2>1 DEF EndWorker
  <2>3. LeaseInv(q)'
    BY <1>10 DEF EndWorker, WorkerRuns
  <2>4. \A r \in Requests : r # q => live'[r] = live[r] /\ worker'[r] = worker[r]
    BY <1>10 DEF EndWorker
  <2> QED BY <1>10, <2>2, <2>3, <2>4, OtherRequests DEF EndWorker
<1> QED BY <1>1, <1>2, <1>3, <1>4, <1>5, <1>6, <1>7, <1>8, <1>9, <1>10

(***************************************************************************)
(* A step that revokes leases of one request on the loop: what must be     *)
(* seen to is that whatever ends the task takes the root lease with it.    *)
(***************************************************************************)
LEMMA RevokingStep ==
    ASSUME LeaseIInv, NEW q \in Requests, NEW t \in Threads, NEW ls \in SUBSET Leases,
           NEW reason \in Reasons, Revoke(q, t, ls, reason), LeaseTypeOK',
           t = "loop" => LoopRuns,
           t = "worker" => reason = "timeout",
           main[q] # "idle", main'[q] # "idle", UNCHANGED <<term, late, taskClaim>>,
           task[q] = "none" => task'[q] = "none",
           "root" \in ls \/ main'[q] = main[q],
           \/ taskCancel'[q] = taskCancel[q] /\ outcome'[q] \in {outcome[q], "returned"}
           \/ t = "loop" /\ "root" \in ls /\ reason # "completed",
           "recv" \in ls \/ task'[q] = task[q] \/ task[q] # "executing",
           \A r \in Requests : r # q =>
               /\ main'[r] = main[r] /\ task'[r] = task[r] /\ worker'[r] = worker[r]
               /\ taskCancel'[r] = taskCancel[r] /\ outcome'[r] = outcome[r]
    PROVE  LeaseIInv'
<1> USE DEF LeaseIInv, LeaseInv, Unseen, RootInv, ReceiverInv, ClaimInv, EndedInv
<1>1. /\ live'[q] = live[q] \ ls
      /\ \A u \in Threads : u # t => pend'[q][u] = pend[q][u]
      /\ "root" \in ls /\ term[q] = "none" =>
             pend'[q][t] \in {reason, "timeout"} /\ pend'[q][t] \in Reasons
      /\ "root" \notin ls \/ term[q] # "none" => pend'[q][t] = "none"
      /\ \A r \in Requests : r # q => live'[r] = live[r] /\ pend'[r] = pend[r]
  BY Revoked
<1>2. Unseen(q)' /\ ReceiverInv(q)' /\ ClaimInv(q)'
  BY <1>1
<1>3. RootInv(q)'
  BY <1>1
<1>4. EndedInv(q)'
  BY <1>1 DEF LoopRuns
<1> QED BY <1>1, <1>2, <1>3, <1>4, OtherRequests

LEMMA NoticeStep ==
    ASSUME LeaseIInv, NEW q \in Requests, NEW t \in Threads, Notice(q, t) PROVE LeaseIInv'
<1>1. Revoke(q, t, {"root"}, "timeout") /\ {"root"} \in SUBSET Leases
  BY DEF Notice, Leases
<1>2. LeaseTypeOK'
  BY <1>1, Revoked DEF LeaseIInv, LeaseTypeOK, Notice
<1>3. main[q] # "idle" /\ (t = "loop" => LoopRuns)
  BY DEF LeaseIInv, LeaseInv, Unseen, Notice
<1> QED BY <1>1, <1>2, <1>3, RevokingStep DEF Notice

\* Cancelling the selected task, and cancelling the host task that awaits it.
LEMMA CancelSteps ==
    ASSUME LeaseIInv, NEW q \in Requests, CancelTask(q) \/ CancelMain(q) \/ Expire(q)
    PROVE  LeaseIInv'
<1>1. PICK ls \in {{}, {"root"}, RequestLeases}, reason \in {"cancelled", "timeout"} :
         /\ LoopRuns /\ main[q] # "idle" /\ Revoke(q, "loop", ls, reason)
         /\ taskCancel' \in [Requests -> BOOLEAN]
         /\ taskCancel'[q] = taskCancel[q] \/ "root" \in ls
         /\ \A r \in Requests : r # q => taskCancel'[r] = taskCancel[r]
         /\ timer' \in [Requests -> {"off", "armed", "fired"}]
         /\ mainCancel' \in [Requests -> BOOLEAN]
         /\ UNCHANGED <<binding, main, callerClaim, awaiting, cleaned, term, late,
                        taskClaim, task, outcome, workVars>>
  <2>1. CASE CancelTask(q)
    <3>1. main[q] # "idle" /\ timer' = timer /\ mainCancel' = mainCancel /\ "root" \in RequestLeases
      BY <2>1 DEF CancelTask, LeaseIInv, LeaseInv, Unseen, RequestLeases
    <3> QED BY <2>1, <3>1 DEF CancelTask, LeaseIInv, LeaseTypeOK
  <2>2. ASSUME CancelMain(q) \/ Expire(q), UNCHANGED <<taskCancel, live, pend>>
        PROVE  LoopRuns => Revoke(q, "loop", {}, "timeout")
    BY <2>2 DEF LeaseIInv, LeaseTypeOK, LoopRuns, Revoke
  <2>3. CASE CancelMain(q)
    <3>1. main[q] # "idle" /\ timer' = timer /\ "root" \in RequestLeases /\ LoopRuns
      BY <2>3 DEF CancelMain, RequestLeases
    <3>2. mainCancel' \in [Requests -> BOOLEAN]
      BY <2>3 DEF CancelMain, LeaseIInv, LeaseTypeOK
    <3>3. CASE awaiting[q] /\ task[q] # "done"
      <4>1. /\ taskCancel' \in [Requests -> BOOLEAN]
            /\ \A r \in Requests : r # q => taskCancel'[r] = taskCancel[r]
        BY <2>3, <3>3 DEF CancelMain, LeaseIInv, LeaseTypeOK
      <4>2. Revoke(q, "loop", RequestLeases, "cancelled")
        BY <2>3, <3>3 DEF CancelMain
      <4>3. UNCHANGED <<binding, main, callerClaim, awaiting, cleaned, term, late,
                        taskClaim, task, outcome, workVars>>
        BY <2>3 DEF CancelMain
      <4>4. timer' \in [Requests -> {"off", "armed", "fired"}]
        BY <3>1 DEF LeaseIInv, LeaseTypeOK
      <4> QED BY <3>1, <3>2, <4>1, <4>2, <4>3, <4>4
    <3>4. CASE ~ (awaiting[q] /\ task[q] # "done")
      BY <2>2, <2>3, <3>1, <3>2, <3>4 DEF CancelMain, LeaseIInv, LeaseTypeOK
    <3> QED BY <3>3, <3>4
  <2>4. CASE Expire(q)
    <3>1. main[q] # "idle" /\ "root" \in RequestLeases /\ LoopRuns
      BY <2>4 DEF Expire, RequestLeases, LeaseIInv, LeaseInv, Unseen
    <3>2. timer' \in [Requests -> {"off", "armed", "fired"}]
      BY <2>4 DEF Expire, LeaseIInv, LeaseTypeOK
    <3>3. CASE "root" \notin live[q]
      <4>1. UNCHANGED <<mainCancel, taskCancel, live, pend>>
        BY <2>4, <3>3 DEF Expire
      <4> QED BY <2>2, <2>4, <3>1, <3>2, <4>1 DEF Expire, LeaseIInv, LeaseTypeOK
    <3>4. CASE "root" \in live[q]
      <4>1. mainCancel' \in [Requests -> BOOLEAN]
        BY <2>4, <3>4 DEF Expire, LeaseIInv, LeaseTypeOK
      <4>2. CASE awaiting[q] /\ task[q] # "done"
        <5>1. Revoke(q, "loop", RequestLeases, "timeout")
          BY <2>4, <3>4, <4>2 DEF Expire
        <5>2. /\ taskCancel' \in [Requests -> BOOLEAN]
              /\ \A r \in Requests : r # q => taskCancel'[r] = taskCancel[r]
          BY <2>4, <3>4 DEF Expire, LeaseIInv, LeaseTypeOK
        <5> QED BY <2>4, <3>1, <3>2, <4>1, <5>1, <5>2 DEF Expire
      <4>3. CASE ~ (awaiting[q] /\ task[q] # "done")
        <5>1. Revoke(q, "loop", {"root"}, "timeout") /\ "root" \in {"root"}
          BY <2>4, <3>4, <4>3 DEF Expire
        <5>2. /\ taskCancel' \in [Requests -> BOOLEAN]
              /\ \A r \in Requests : r # q => taskCancel'[r] = taskCancel[r]
          BY <2>4, <3>4 DEF Expire, LeaseIInv, LeaseTypeOK
        <5> QED BY <2>4, <3>1, <3>2, <4>1, <5>1, <5>2 DEF Expire
      <4> QED BY <4>2, <4>3
    <3> QED BY <3>3, <3>4
  <2> QED BY <2>1, <2>3, <2>4
<1>2. ls \in SUBSET Leases
  BY DEF Leases, RequestLeases
<1>3. /\ live' \in [Requests -> SUBSET Leases]
      /\ pend' \in [Requests -> [Threads -> Reasons \cup {"none"}]]
  BY <1>1, <1>2, Revoked DEF LeaseIInv
<1>4. LeaseTypeOK'
  BY <1>1, <1>3 DEF LeaseIInv, LeaseTypeOK
<1> QED BY <1>1, <1>2, <1>4, RevokingStep

\* The native cleanup of the host task, and the end of its scopes.
LEMMA LeaveSteps ==
    ASSUME LeaseIInv, NEW q \in Requests, NEW reason \in Reasons,
           RevokeCaller(q, reason) \/ LeaveMain(q, reason)
    PROVE  LeaseIInv'
<1>1. Revoke(q, "loop", {"root"}, reason) /\ {"root"} \in SUBSET Leases /\ LoopRuns
  BY DEF RevokeCaller, LeaveMain, ExitLeases, Leases
<1>2. /\ main[q] # "idle" /\ main'[q] # "idle" /\ UNCHANGED <<term, late, taskVars, workVars>>
      /\ \A r \in Requests : r # q => main'[r] = main[r]
  BY DEF RevokeCaller, LeaveMain, LeaseIInv, LeaseTypeOK
<1>3. LeaseTypeOK'
  <2>1. CASE RevokeCaller(q, reason)
    BY <1>1, <2>1, Revoked DEF RevokeCaller, LeaseIInv, LeaseTypeOK
  <2>2. CASE LeaveMain(q, reason)
    BY <1>1, <2>2, Revoked DEF LeaveMain, LeaseIInv, LeaseTypeOK
  <2> QED BY <2>1, <2>2
<1> QED BY <1>1, <1>2, <1>3, RevokingStep

\* The selected task ends: refused, cancelled, or with what its job came to.
LEMMA TaskEnds ==
    ASSUME LeaseIInv, NEW q \in Requests, NEW how \in {"returned", "failed", "cancelled"},
           NEW ls \in SUBSET Leases, NEW reason \in Reasons,
           LoopRuns, EndTask(q, how), Revoke(q, "loop", ls, reason),
           task[q] # "none", task[q] = "executing" => "recv" \in ls,
           how = "returned" \/ ("root" \in ls /\ reason # "completed"),
           worker' \in [Requests -> {"none", "queued", "running", "succeeded", "raised"}],
           \A r \in Requests : r # q => worker'[r] = worker[r],
           UNCHANGED <<term, late, hostVars, taskClaim, taskCancel, spawned, writing>>
    PROVE  LeaseIInv'
<1>1. /\ task' \in [Requests -> {"none", "created", "executing", "done"}]
      /\ outcome' \in [Requests -> {"none", "returned", "failed", "cancelled"}]
      /\ task'[q] = "done" /\ outcome'[q] = how
      /\ \A r \in Requests : r # q => task'[r] = task[r] /\ outcome'[r] = outcome[r]
  BY DEF EndTask, LeaseIInv, LeaseTypeOK
<1>2. LeaseTypeOK'
  BY <1>1, Revoked DEF LeaseIInv, LeaseTypeOK
<1>3. main[q] # "idle"
  BY DEF LeaseIInv, LeaseInv, Unseen
<1> QED BY <1>1, <1>2, <1>3, RevokingStep DEF LeaseIInv

LEMMA ReceiveStep ==
    ASSUME LeaseIInv, NEW q \in Requests, NEW audited \in BOOLEAN, Receive(q, audited)
    PROVE  LeaseIInv'
<1>1. LoopRuns /\ task[q] = "created" /\ main[q] # "idle"
      /\ UNCHANGED <<term, late, hostVars, taskClaim, taskCancel, writing>>
  BY DEF Receive, LeaseIInv, LeaseInv, Unseen
<1>2. CASE Active(q, "task") /\ audited
  <2>1. /\ task' = [task EXCEPT ![q] = "executing"]
        /\ live' = [live EXCEPT ![q] = @ \cup {"recv", "hand"}]
        /\ worker' = [worker EXCEPT ![q] = "queued"]
        /\ spawned' = [spawned EXCEPT ![q] = @ + 1]
        /\ spawned[q] < MaxSpawn /\ UNCHANGED <<pend, outcome>>
    BY <1>2, Zenon DEF Receive
  <2>2. spawned' \in [Requests -> 0 .. MaxSpawn]
    BY <2>1, LeaseConstants DEF LeaseIInv, LeaseTypeOK
  <2>3. /\ task' \in [Requests -> {"none", "created", "executing", "done"}]
        /\ live' \in [Requests -> SUBSET Leases]
        /\ worker' \in [Requests -> {"none", "queued", "running", "succeeded", "raised"}]
        /\ task'[q] = "executing" /\ live'[q] = live[q] \cup {"recv", "hand"}
        /\ \A r \in Requests : r # q =>
               task'[r] = task[r] /\ live'[r] = live[r] /\ worker'[r] = worker[r]
    BY <2>1 DEF LeaseIInv, LeaseTypeOK, Leases
  <2>4. LeaseTypeOK'
    BY <1>1, <2>1, <2>2, <2>3 DEF LeaseIInv, LeaseTypeOK
  <2>5. LeaseInv(q)'
    BY <1>1, <2>1, <2>3
    DEF LeaseIInv, LeaseInv, Unseen, RootInv, ReceiverInv, ClaimInv, EndedInv
  <2> QED BY <1>1, <2>1, <2>3, <2>4, <2>5, OtherRequests
<1>3. CASE ~ (Active(q, "task") /\ audited)
  <2>1. /\ EndTask(q, "failed") /\ UNCHANGED <<worker, spawned>>
        /\ Revoke(q, "loop", {"root", "task"}, IF late[q] THEN "timeout" ELSE "failed")
    BY <1>3, Zenon DEF Receive
  <2>2. {"root", "task"} \in SUBSET Leases
    BY DEF Leases
  <2>3. PICK reason \in {"timeout", "failed"} : Revoke(q, "loop", {"root", "task"}, reason)
    BY <2>1
  <2> QED BY <1>1, <2>1, <2>2, <2>3, TaskEnds DEF LeaseIInv, LeaseTypeOK
<1> QED BY <1>2, <1>3

LEMMA DeliveredStep ==
    ASSUME LeaseIInv, NEW q \in Requests, Delivered(q) PROVE LeaseIInv'
<1>1. {"root", "task", "recv", "hand"} \in SUBSET Leases
  BY DEF Leases
<1>2. /\ worker' \in [Requests -> {"none", "queued", "running", "succeeded", "raised"}]
      /\ \A r \in Requests : r # q => worker'[r] = worker[r]
  BY DEF Delivered, LeaseIInv, LeaseTypeOK
<1> QED BY <1>1, <1>2, TaskEnds DEF Delivered

LEMMA ReturnStep ==
    ASSUME LeaseIInv, NEW q \in Requests, Return(q) PROVE LeaseIInv'
<1>1. FailLeases \in SUBSET Leases /\ {"task", "recv", "hand"} \in SUBSET Leases
      /\ {"root", "recv"} \subseteq FailLeases
  BY DEF FailLeases, Leases
<1>2. /\ LoopRuns /\ task[q] = "executing"
      /\ UNCHANGED <<term, late, hostVars, taskClaim, taskCancel, worker, spawned, writing>>
      /\ worker' \in [Requests -> {"none", "queued", "running", "succeeded", "raised"}]
  BY DEF Return, LeaseIInv, LeaseTypeOK
<1>3. \/ EndTask(q, "returned") /\ Revoke(q, "loop", {"task", "recv", "hand"}, "completed")
      \/ EndTask(q, "failed") /\ Revoke(q, "loop", FailLeases, "failed")
  BY DEF Return
<1>4. CASE EndTask(q, "returned") /\ Revoke(q, "loop", {"task", "recv", "hand"}, "completed")
  BY <1>1, <1>2, <1>4, TaskEnds
<1>5. CASE EndTask(q, "failed") /\ Revoke(q, "loop", FailLeases, "failed")
  BY <1>1, <1>2, <1>5, TaskEnds
<1> QED BY <1>3, <1>4, <1>5

\* The thread takes its own lease, or is refused and may notice the deadline.
LEMMA StartWorkerStep ==
    ASSUME LeaseIInv, NEW q \in Requests, StartWorker(q) PROVE LeaseIInv'
<1>1. /\ main[q] # "idle" /\ UNCHANGED <<term, late, hostVars, taskVars, spawned, writing>>
      /\ worker' \in [Requests -> {"none", "queued", "running", "succeeded", "raised"}]
      /\ \A r \in Requests : r # q => worker'[r] = worker[r]
  <2>1. main[q] # "idle" /\ UNCHANGED <<term, late, hostVars, taskVars, spawned, writing>>
    BY DEF StartWorker, LeaseIInv, LeaseInv, Unseen
  <2>2. PICK w \in {"running", "raised"} : worker' = [worker EXCEPT ![q] = w]
    BY DEF StartWorker
  <2> QED BY <2>1, <2>2 DEF LeaseIInv, LeaseTypeOK
<1>2. CASE Active(q, "hand")
  <2>1. live' = [live EXCEPT ![q] = @ \cup {"work"}] /\ pend' = pend
    BY <1>2 DEF StartWorker
  <2>2. /\ live' \in [Requests -> SUBSET Leases] /\ live'[q] = live[q] \cup {"work"}
        /\ \A r \in Requests : r # q => live'[r] = live[r]
    BY <2>1 DEF LeaseIInv, LeaseTypeOK, Leases
  <2>3. LeaseTypeOK'
    BY <1>1, <2>1, <2>2 DEF LeaseIInv, LeaseTypeOK
  <2>4. LeaseInv(q)'
    BY <1>1, <2>1, <2>2
    DEF LeaseIInv, LeaseInv, Unseen, RootInv, ReceiverInv, ClaimInv, EndedInv
  <2> QED BY <1>1, <2>1, <2>2, <2>3, <2>4, OtherRequests
<1>3. CASE ~Active(q, "hand") /\ UNCHANGED <<live, pend>>
  <2>1. LeaseTypeOK'
    BY <1>1, <1>3 DEF LeaseIInv, LeaseTypeOK
  <2>2. LeaseInv(q)'
    BY <1>1, <1>3
    DEF LeaseIInv, LeaseInv, Unseen, RootInv, ReceiverInv, ClaimInv, EndedInv
  <2> QED BY <1>1, <1>3, <2>1, <2>2, OtherRequests
<1>4. CASE Revoke(q, "worker", {"root"}, "timeout")
  <2>1. {"root"} \in SUBSET Leases
    BY DEF Leases
  <2>2. LeaseTypeOK'
    BY <1>1, <1>4, <2>1, Revoked DEF LeaseIInv, LeaseTypeOK
  <2> QED BY <1>1, <1>4, <2>1, <2>2, RevokingStep
<1> QED BY <1>2, <1>3, <1>4 DEF StartWorker

LEMMA LeaseStepInv == LeaseIInv /\ [LeaseNext]_leaseVars => LeaseIInv'
<1> SUFFICES ASSUME LeaseIInv, [LeaseNext]_leaseVars PROVE LeaseIInv'
  OBVIOUS
<1>1. CASE UNCHANGED leaseVars
  BY <1>1 DEF leaseVars, LeaseIInv, LeaseTypeOK, LeaseInv, Unseen, RootInv, ReceiverInv, ClaimInv, EndedInv
<1>2. ASSUME NEW q \in Requests, LoopStep(q) PROVE LeaseIInv'
  BY <1>2, KeepsLeases, CancelSteps, ReceiveStep, DeliveredStep, ReturnStep DEF LoopStep
<1>3. ASSUME NEW q \in Requests, WorkerStep(q) PROVE LeaseIInv'
  BY <1>3, KeepsLeases, StartWorkerStep DEF WorkerStep
<1>4. ASSUME NEW q \in Requests, HostStep(q) PROVE LeaseIInv'
  BY <1>4, KeepsLeases, CancelSteps, LeaveSteps DEF HostStep
<1>5. ASSUME NEW q \in Requests,
             CheckWrite(q) \/ Deadline(q) \/ \E t \in Threads : Notice(q, t)
      PROVE  LeaseIInv'
  BY <1>5, KeepsLeases, NoticeStep
<1> QED BY <1>1, <1>2, <1>3, <1>4, <1>5 DEF LeaseNext

\* A check that passes finds every lease above the worker's live.
LEMMA CheckedWhileLive ==
    ASSUME LeaseIInv, NEW q \in Requests, [LeaseNext]_leaseVars, ~writing[q], writing'[q]
    PROVE  /\ main[q] \in {"bound", "caller"} /\ ~taskCancel[q]
           /\ task[q] = "executing" /\ term[q] = "none"
<1>1. CheckWrite(q)
  <2>1. CASE UNCHANGED leaseVars
    BY <2>1 DEF leaseVars
  <2>2. ASSUME NEW r \in Requests, LoopStep(r) \/ HostStep(r) \/ Deadline(r) \/ (\E t \in Threads : Notice(r, t))
        PROVE  writing' = writing
    BY <2>2 DEF LoopStep, HostStep, Record, Expire, Receive, Delivered, Return, Unbind, Bind,
           EnterCaller, Schedule, Await, CancelTask, CancelMain, LeaveMain, RevokeCaller,
           Deadline, Notice
  <2>3. ASSUME NEW r \in Requests, WorkerStep(r) PROVE ~ writing'[q]
    BY <2>3 DEF WorkerStep, Record, StartWorker, EndWorker, DecideWrite, LeaseIInv, LeaseTypeOK
  <2>4. ASSUME NEW r \in Requests, CheckWrite(r) PROVE r = q
    BY <2>4 DEF CheckWrite, LeaseIInv, LeaseTypeOK
  <2> QED BY <2>1, <2>2, <2>3, <2>4 DEF LeaseNext
<1>2. {"root", "recv"} \subseteq live[q]
  BY <1>1 DEF CheckWrite, MayWrite, Active, Chain, Leases
<1> QED BY <1>2 DEF LeaseIInv, LeaseInv, RootInv, ReceiverInv

\* Only a pending reason is ever written down as the termination.
LEMMA OnlyRecorded ==
    ASSUME LeaseIInv, NEW q \in Requests, [LeaseNext]_leaseVars, term'[q] # term[q]
    PROVE  /\ \E t \in Threads : term'[q] = pend[q][t] /\ pend[q][t] # "none"
           /\ UNCHANGED <<taskCancel, outcome>>
<1>1. CASE UNCHANGED leaseVars
  BY <1>1 DEF leaseVars
<1>2. ASSUME NEW r \in Requests, NEW t \in Threads, Record(r, t)
      PROVE  r = q /\ term'[q] = pend[q][t] /\ pend[q][t] # "none" /\ UNCHANGED <<taskCancel, outcome>>
  BY <1>2 DEF Record, LeaseIInv, LeaseTypeOK
<1>3. ASSUME NEW r \in Requests, HostStep(r) \/ CheckWrite(r) \/ Deadline(r) \/ (\E t \in Threads : Notice(r, t))
      PROVE  term' = term
  BY <1>3 DEF HostStep, Bind, EnterCaller, Schedule, Await, CancelTask, CancelMain, LeaveMain,
         RevokeCaller, CheckWrite, Deadline, Notice
<1>4. ASSUME NEW r \in Requests, LoopStep(r), ~ Record(r, "loop") PROVE term' = term
  BY <1>4 DEF LoopStep, Expire, Receive, Delivered, Return, Unbind
<1>5. ASSUME NEW r \in Requests, WorkerStep(r), ~ Record(r, "worker") PROVE term' = term
  BY <1>5 DEF WorkerStep, StartWorker, EndWorker, DecideWrite
<1> QED BY <1>1, <1>2, <1>3, <1>4, <1>5 DEF LeaseNext

(***************************************************************************)
(* However long an executor thread runs on, whichever thread notices the   *)
(* deadline first and however the host task and the selected task are      *)
(* cancelled, no write check passes once the request has ended, a          *)
(* cancellation finds the root lease revoked, and a request whose task     *)
(* failed or was cancelled is never recorded as completed                  *)
(* (_RequestLease.revoke, _LeasedRequestTask.cancel, session_write).       *)
(***************************************************************************)
THEOREM LateWorkersDenied == LeaseSpec => LateWorkerDenied
<1> DEFINE Denied ==
      \A q \in Requests :
          /\ ~writing[q] /\ writing'[q] =>
                /\ main[q] \in {"bound", "caller"}
                /\ ~taskCancel[q]
                /\ task[q] = "executing"
                /\ term[q] = "none"
          /\ taskCancel'[q] => "root" \notin live'[q]
          /\ term[q] # "completed" /\ term'[q] = "completed" =>
                outcome[q] \notin {"failed", "cancelled"} /\ ~taskCancel[q]
<1>1. LeaseIInv /\ LeaseIInv' /\ [LeaseNext]_leaseVars => Denied
  <2> SUFFICES ASSUME LeaseIInv, LeaseIInv', [LeaseNext]_leaseVars, NEW q \in Requests
               PROVE  /\ ~writing[q] /\ writing'[q] =>
                            /\ main[q] \in {"bound", "caller"}
                            /\ ~taskCancel[q]
                            /\ task[q] = "executing"
                            /\ term[q] = "none"
                      /\ taskCancel'[q] => "root" \notin live'[q]
                      /\ term[q] # "completed" /\ term'[q] = "completed" =>
                            outcome[q] \notin {"failed", "cancelled"} /\ ~taskCancel[q]
    OBVIOUS
  <2>1. taskCancel'[q] => "root" \notin live'[q]
    BY DEF LeaseIInv, LeaseInv, RootInv
  <2>2. term[q] # "completed" /\ term'[q] = "completed" => pend[q]["loop"] = "completed"
    BY OnlyRecorded DEF LeaseIInv, LeaseInv, EndedInv
  <2>3. term[q] # "completed" /\ term'[q] = "completed" =>
            outcome[q] \notin {"failed", "cancelled"} /\ ~taskCancel[q]
    BY <2>2 DEF LeaseIInv, LeaseInv, EndedInv
  <2> QED BY <2>1, <2>3, CheckedWhileLive
<1> QED BY <1>1, LeaseInitInv, LeaseStepInv, PTL DEF LeaseSpec, LateWorkerDenied

-----------------------------------------------------------------------------
(* The composition.                                                        *)

(***************************************************************************)
(* A behaviour of the request path is one of the agent, one of the intake  *)
(* and one of the leases, so the theorems above are theorems about it.     *)
(***************************************************************************)
THEOREM PathIsItsParts == PathSpec => AgentSpec /\ Spec /\ LeaseSpec
<1>1. PathInit => AgentInit /\ Init /\ LeaseInit
  BY DEF PathInit
<1>2. [PathNext]_pathVars => [AgentNext]_allVars /\ [Next]_vars /\ [LeaseNext]_leaseVars
  BY DEF PathNext, pathVars
<1> QED
  BY <1>1, <1>2, PTL DEF PathSpec, AgentSpec, Spec, LeaseSpec

(***************************************************************************)
(* What the runs check of the composition, for any plugins, callers,       *)
(* tasks, updates, restarts and requests.                                  *)
(***************************************************************************)
THEOREM PathIsSafe ==
    PathSpec => /\ [](LoadedIsLive /\ RunningIsServed /\ AuditExplainsDispatch)
                /\ InOrderOnce /\ LateWorkerDenied
BY PathIsItsParts, PluginsAreLive, RunningServed, AuditAgrees, InOrderAndOnce,
   LateWorkersDenied, PTL
=============================================================================
