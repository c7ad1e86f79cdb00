------------------------------ MODULE RequestPath ------------------------------
(***************************************************************************)
(* The way of a request into a running agent, in three parts: the public   *)
(* Agent that admits and dispatches it (AgentLifecycle), the intake that   *)
(* admits a polled Telegram update (TelegramIntake), and the leases its    *)
(* tasks and executor threads act under (RequestLease).  The parts share   *)
(* no state in the source, where the host wires them together; a behaviour *)
(* follows one of them.                                                    *)
(***************************************************************************)
EXTENDS AgentLifecycle, TelegramIntake, RequestLease

VARIABLE followed   \* the part whose steps the behaviour shows

pathVars == <<allVars, vars, leaseVars, followed>>

\* The updates of an intake that is not followed are any fixed ones.
PathInit ==
    /\ followed \in {"agent", "intake", "leases"}
    /\ AgentInit /\ Init /\ LeaseInit
    /\ followed # "agent" => wrapped
    /\ followed # "intake" => update = [t \in Tasks |-> CHOOSE u \in Updates : TRUE]

PathNext ==
    \/ followed = "agent" /\ AgentNext /\ UNCHANGED <<vars, leaseVars, followed>>
    \/ followed = "intake" /\ Next /\ UNCHANGED <<allVars, leaseVars, followed>>
    \/ followed = "leases" /\ LeaseNext /\ UNCHANGED <<allVars, vars, followed>>

PathSpec == PathInit /\ [][PathNext]_pathVars

(***************************************************************************)
(* The event loop runs an intake task that can go on and serves its ready  *)
(* callbacks; a part that is not followed has none.  Nothing is owed by    *)
(* executor threads, by the poller, by callers or by the clock.            *)
(***************************************************************************)
PathFairSpec ==
    /\ PathSpec
    /\ \A t \in Tasks : WF_vars(TaskStep(t))
    /\ \A q \in Requests : WF_leaseVars(LoopStep(q))
=============================================================================
