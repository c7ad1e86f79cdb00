---------------------------- MODULE AgentLifecycle ----------------------------
(***************************************************************************)
(* The public Agent and the runtime below it:                              *)
(*   src/src/project_maya/agent/factory.py     (Agent)                     *)
(*   src/src/project_maya/adapters/hermes.py   (HermesRuntimeAdapter and   *)
(*                                              the runtime it constructs) *)
(*                                                                         *)
(* The Agent's RLock is held through start(), stop() and load_plugin(), so *)
(* the only thing that runs beside them is a request: run() checks the     *)
(* state under the lock and calls the runtime after releasing it.  start() *)
(* therefore is one step, with the place where it fails as its parameter;  *)
(* stop() is taken apart because admitted requests go on during it.        *)
(*                                                                         *)
(* The factory returns a Hermes AIAgent, which the adapter wraps, or an    *)
(* object with methods of its own, which it uses as it is: of that one it  *)
(* knows whether a call returned, and it may have no stop().               *)
(***************************************************************************)
EXTENDS Naturals

CONSTANTS Plugins,   \* plugin names
          Callers    \* threads that call run()

VARIABLES
    state,      \* Agent._state
    attached,   \* Agent._memory_provider is set
    pending,    \* Agent._pending_plugins
    loaded,     \* Agent._loaded_plugins, what Agent.plugins reports
    queue,      \* HermesRuntimeAdapter._pending_plugins
    bound,      \* HermesRuntimeAdapter._runtime is set
    healthy,    \* HermesRuntimeAdapter._started, reported by health()
    wrapped,    \* the factory's object is an AIAgent, inside a HermesAIAgentRuntime
    rt,         \* the runtime object the factory constructed
    rtPlugins,  \* plugins that object accepted
    memory,     \* its memory session
    stopTried,  \* stop() was called on that object
    stopAt,     \* the step stop() is at
    request     \* run() of each caller

allVars == <<state, attached, pending, loaded, queue, bound, healthy, wrapped, rt,
          rtPlugins, memory, stopTried, stopAt, request>>
agentVars == <<state, attached, pending, loaded>>
adapterVars == <<queue, bound, healthy, wrapped>>
runtimeVars == <<rt, rtPlugins, memory, stopTried>>

AgentInit ==
    /\ state = "created" /\ attached = FALSE
    /\ pending = {} /\ loaded = {}
    /\ queue = {} /\ bound = FALSE /\ healthy = FALSE
    /\ wrapped \in BOOLEAN
    /\ rt = "none" /\ rtPlugins = {} /\ memory = "none" /\ stopTried = FALSE
    /\ stopAt = "no"
    /\ request = [c \in Callers |-> "idle"]

\* Nobody is inside stop(), the one operation that keeps the RLock over several steps.
LockFree == state # "stopping"

-----------------------------------------------------------------------------
AttachMemory ==
    /\ LockFree /\ state = "created"
    /\ attached' = TRUE
    /\ UNCHANGED <<state, pending, loaded, adapterVars, runtimeVars, stopAt, request>>

\* A new name only; before start() the plugin is queued in the facade.
QueuePlugin(p) ==
    /\ LockFree /\ state = "created" /\ p \notin pending \cup loaded
    /\ pending' = pending \cup {p}
    /\ UNCHANGED <<state, attached, loaded, adapterVars, runtimeVars, stopAt, request>>

\* In a running agent the runtime loads it at once and may raise.
Report_Always(p, ok) == loaded \cup {p}
Report(p, ok) == IF ok THEN loaded \cup {p} ELSE loaded

LoadPlugin(p, ok) ==
    /\ LockFree /\ state = "running" /\ p \notin pending \cup loaded
    /\ rtPlugins' = IF ok THEN rtPlugins \cup {p} ELSE rtPlugins
    /\ loaded' = Report(p, ok)
    /\ UNCHANGED <<state, attached, pending, adapterVars, rt, memory, stopTried, stopAt, request>>

-----------------------------------------------------------------------------
(***************************************************************************)
(* start().  The adapter queues memory and plugins until it has a runtime, *)
(* constructs one, hands both over, starts it, and only then keeps it.     *)
(* Starting an AIAgent opens the memory session; another object has been   *)
(* given the provider and uses it as it likes.                             *)
(***************************************************************************)
StartOk ==
    /\ LockFree /\ state = "created"
    /\ rt' = "started" /\ rtPlugins' = queue \cup pending
    /\ memory' = IF ~attached THEN "none" ELSE IF wrapped THEN "open" ELSE "registered"
    /\ bound' = TRUE /\ healthy' = TRUE /\ queue' = {}
    /\ loaded' = loaded \cup pending /\ pending' = {}
    /\ state' = "running"
    /\ UNCHANGED <<attached, wrapped, stopTried, stopAt, request>>

(***************************************************************************)
(* Where start() can raise, and how far the runtime object is by then: no  *)
(* object (incompatible, the guard refuses, the factory raises), or one    *)
(* with its memory registered or not and some of the plugins accepted.     *)
(* A start that raises may have opened the memory session before.          *)
(***************************************************************************)
Incompatible ==
    /\ UNCHANGED <<queue, rt, rtPlugins, memory>>

NotConstructed ==
    /\ queue' = queue \cup pending
    /\ UNCHANGED <<rt, rtPlugins, memory>>

Partial(accepted, mem) ==
    /\ queue' = queue \cup pending
    /\ accepted \subseteq queue'
    /\ mem # "none" => attached
    /\ mem = "open" => wrapped /\ accepted = queue'
    /\ rt' = "built" /\ rtPlugins' = accepted /\ memory' = mem

\* The except clause calls adapter.stop(), which only knows a runtime it kept.
StartFails ==
    /\ LockFree /\ state = "created"
    /\ \/ Incompatible
       \/ NotConstructed
       \/ \E accepted \in SUBSET Plugins, mem \in {"none", "registered", "open"} :
              Partial(accepted, mem)
    /\ state' = "failed"
    /\ healthy' = FALSE
    /\ stopTried' = (stopTried \/ bound)
    /\ UNCHANGED <<attached, pending, loaded, bound, wrapped, stopAt, request>>

-----------------------------------------------------------------------------
\* stop() of an agent that never started, and the no-op on a stopped one.
StopCreated ==
    /\ LockFree /\ state = "created"
    /\ state' = "stopped"
    /\ UNCHANGED <<attached, pending, loaded, adapterVars, runtimeVars, stopAt, request>>

StopBegin ==
    /\ LockFree /\ state = "running"
    /\ state' = "stopping" /\ stopAt' = "memory" /\ stopTried' = TRUE
    /\ UNCHANGED <<attached, pending, loaded, adapterVars, rt, rtPlugins, memory, request>>

\* Whatever the runtime's stop() raises leaves its flags and the adapter's as they are.
StopFails ==
    /\ state = "stopping"
    /\ state' = "failed" /\ stopAt' = "no"
    /\ UNCHANGED <<attached, pending, loaded, adapterVars, runtimeVars, request>>

\* The Hermes agent's shutdown_memory_provider ends the memory session first.
StopMemory ==
    /\ state = "stopping" /\ stopAt = "memory"
    /\ memory' = IF wrapped /\ memory # "none" THEN "closed" ELSE memory
    /\ stopAt' = "runtime"
    /\ UNCHANGED <<agentVars, adapterVars, rt, rtPlugins, stopTried, request>>

\* Then the agent object is stopped or closed and the flags are cleared.
StoppedRuntime_StillServing == "started"
StoppedRuntime == "stopped"

StopRuntime ==
    /\ state = "stopping" /\ stopAt = "runtime"
    /\ rt' \in {StoppedRuntime} \cup {r \in {rt} : ~wrapped}
    /\ healthy' = FALSE
    /\ state' = "stopped" /\ stopAt' = "no"
    /\ UNCHANGED <<attached, pending, loaded, queue, bound, wrapped, rtPlugins, memory,
                   stopTried, request>>

-----------------------------------------------------------------------------
\* run(): admitted under the lock, dispatched after it was released.
Admit(c) ==
    /\ LockFree /\ state = "running" /\ request[c] = "idle"
    /\ request' = [request EXCEPT ![c] = "admitted"]
    /\ UNCHANGED <<agentVars, adapterVars, runtimeVars, stopAt>>

(***************************************************************************)
(* The runtime's run() tests _started, which stop() clears last, without a *)
(* lock; an object that is not wrapped does not test anything here.        *)
(***************************************************************************)
Serves == wrapped => rt = "started"

TestStarted(c) ==
    /\ request[c] = "admitted"
    /\ request' = [request EXCEPT ![c] = IF Serves THEN "tested" ELSE "idle"]
    /\ UNCHANGED <<agentVars, adapterVars, runtimeVars, stopAt>>

\* The call into the agent, which stop() may have overtaken since the test.
Dispatch(c) ==
    /\ request[c] = "tested"
    /\ request' = [request EXCEPT ![c] = "inside"]
    /\ UNCHANGED <<agentVars, adapterVars, runtimeVars, stopAt>>

Answer(c) ==
    /\ request[c] = "inside"
    /\ request' = [request EXCEPT ![c] = "idle"]
    /\ UNCHANGED <<agentVars, adapterVars, runtimeVars, stopAt>>

AgentNext ==
    \/ AttachMemory
    \/ \E p \in Plugins : QueuePlugin(p) \/ \E ok \in BOOLEAN : LoadPlugin(p, ok)
    \/ StartOk
    \/ StartFails
    \/ StopCreated
    \/ StopBegin
    \/ StopMemory
    \/ StopRuntime
    \/ StopFails
    \/ \E c \in Callers : Admit(c) \/ TestStarted(c) \/ Dispatch(c) \/ Answer(c)

AgentSpec == AgentInit /\ [][AgentNext]_allVars

-----------------------------------------------------------------------------
(***************************************************************************)
(* The inductive invariant: what each state of the facade says about the   *)
(* adapter and the runtime object below it.                                *)
(***************************************************************************)
CreatedInv ==
    state = "created" =>
        /\ loaded = {} /\ queue = {} /\ rtPlugins = {}
        /\ rt = "none" /\ memory = "none" /\ ~bound /\ ~healthy
        /\ \A c \in Callers : request[c] = "idle"

StoppingInv ==
    /\ state = "stopping" <=> stopAt # "no"
    /\ state = "stopping" => rt = "started" /\ bound /\ healthy
    /\ stopAt = "runtime" /\ wrapped => memory \in {"none", "closed"}

BoundInv ==
    /\ rt = "started" => bound
    /\ state = "stopped" /\ wrapped => rt # "started"

\* The shape of the facade's, the adapter's and the runtime's state.
AgentTypeOK ==
    /\ state \in {"created", "running", "stopping", "stopped", "failed"}
    /\ attached \in BOOLEAN
    /\ pending \in SUBSET Plugins /\ loaded \in SUBSET Plugins
    /\ queue \in SUBSET Plugins
    /\ bound \in BOOLEAN /\ healthy \in BOOLEAN /\ wrapped \in BOOLEAN
    /\ rt \in {"none", "built", "started", "stopped"}
    /\ rtPlugins \in SUBSET Plugins
    /\ memory \in {"none", "registered", "open", "closed"}
    /\ stopTried \in BOOLEAN
    /\ stopAt \in {"no", "memory", "runtime"}
    /\ request \in [Callers -> {"idle", "admitted", "tested", "inside"}]

(***************************************************************************)
(* "failed plugins are never reported as loaded" (docs/architecture/       *)
(* public_api.md): whatever fails during start() or load_plugin(), the     *)
(* names Agent.plugins reports were accepted by the runtime object, and a  *)
(* running agent has nothing left in the facade's or the adapter's queue.  *)
(***************************************************************************)
LoadedIsLive ==
    /\ loaded \subseteq rtPlugins
    /\ state = "running" => pending = {} /\ queue = {}

(***************************************************************************)
(* The three layers agree about a running and about a stopped agent,       *)
(* whatever was attached, loaded or raised on the way: a running agent has *)
(* a started runtime that the adapter kept, an AIAgent with its memory     *)
(* session open; a stopped agent is not reported healthy, and left no      *)
(* AIAgent started and none with its memory session open.                  *)
(***************************************************************************)
RunningIsServed ==
    /\ state = "running" =>
          rt = "started" /\ bound /\ healthy /\ (attached /\ wrapped => memory = "open")
    /\ state = "stopped" =>
          /\ ~healthy
          /\ wrapped => rt \in {"none", "stopped"} /\ memory \in {"none", "closed"}

\* All of the above together, for the proofs.
AgentIInv ==
    /\ AgentTypeOK /\ CreatedInv /\ StoppingInv /\ BoundInv
    /\ LoadedIsLive /\ RunningIsServed

=============================================================================
