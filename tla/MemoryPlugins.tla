---------------------------- MODULE MemoryPlugins ----------------------------
(***************************************************************************)
(* The memory plugins (plugins/memory/__init__.py): the one provider the   *)
(* configuration names is found, imported and registered; the host then    *)
(* drives it and no other.  Each provider is a module of its own; this one *)
(* composes them.  Honcho is two: the delivery of messages and the         *)
(* reasoning about them share no state, so each is followed by itself.     *)
(***************************************************************************)
EXTENDS Naturals, Sequences

CONSTANTS UserPlugins   \* names with a directory under $HERMES_HOME/plugins
CONSTANTS Sessions, MaxTurn, MaxLife, MaxRecall, RetainEvery
CONSTANTS SyncThreads, MaxMessage, MaxStored, MaxQueue, MaxNew
CONSTANTS MaxAsking, Cadence, Depth, StaleFactor, BackoffMax
CONSTANTS Agents, MaxTurns, MaxMessages, MaxThreads
CONSTANTS Profiles, Contexts, CustomTags
CONSTANTS Processes, MaxRow, MaxLives, ReplayLimit
CONSTANTS Callers, Threshold
CONSTANTS Contents, Entities, Categories, Dimensions, MaxFact

ASSUME HindsightConstants == MaxLife \in Nat
ASSUME VikingConstants == "none" \notin Agents
ASSUME DeliveryConstants == MaxNew \in Nat /\ MaxMessage \in Nat
ASSUME RetainConstants == MaxRow \in Nat
ASSUME DialecticConstants == Cadence \in Nat /\ StaleFactor \in Nat
ASSUME HolographicConstants == 0 \notin Dimensions

VARIABLES provider,     \* the provider the host drives, "none" before load
          foundIn       \* where it was found: "bundled" | "user" | "none"
VARIABLES phase, session, life, turns, counter, owner, jobs, writer, job,
          append, documents, recalls, recalled, lost
VARIABLES frequency, newest, current, log, synced, stored, queue, task, todo, draining
VARIABLES recall, ready, turn, stage, lastAsked, streak, pending, asking, handleAlive,
          base, lastContext, fresh, injected
VARIABLES connected, turnCount, threads, messages, committed, lastActive, started,
          shut, exited, answer
VARIABLES savedTag, custom, holder, captures, memories, toolAnswer
VARIABLES rows, lastRow, running, inserted, items, flushing, ingested, lives
VARIABLES failures, cooling, caller, client
VARIABLES facts, lastId, links, banks, dim, work

HI == INSTANCE Hindsight
HD == INSTANCE HonchoDelivery
HR == INSTANCE HonchoDialectic
OV == INSTANCE OpenViking
SM == INSTANCE Supermemory
RD == INSTANCE RetainDBQueue
M0 == INSTANCE Mem0Breaker
HF == INSTANCE HolographicFacts

hindsightVars == <<phase, session, life, turns, counter, owner, jobs, writer, job,
                   append, documents, recalls, recalled, lost>>
deliveryVars == <<frequency, newest, current, log, synced, stored, queue, task, todo, draining>>
dialecticVars == <<recall, ready, turn, stage, lastAsked, streak, pending, asking, handleAlive,
                   base, lastContext, fresh, injected>>
vikingVars == <<connected, turnCount, threads, messages, committed, lastActive, started,
                shut, exited, answer>>
supermemoryVars == <<savedTag, custom, holder, captures, memories, toolAnswer>>
retainVars == <<rows, lastRow, running, inserted, items, flushing, ingested, lives>>
mem0Vars == <<failures, cooling, caller, client>>
holographicVars == <<facts, lastId, links, banks, dim, work>>
loaderVars == <<provider, foundIn>>

vars == <<loaderVars, hindsightVars, deliveryVars, dialecticVars, vikingVars,
          supermemoryVars, retainVars, mem0Vars, holographicVars>>

Bundled == {"hindsight", "honcho", "honcho_reasoning", "openviking", "supermemory",
            "retaindb", "mem0", "holographic"}

Init ==
    /\ provider = "none" /\ foundIn = "none"
    /\ HI!Init /\ HD!Init /\ HR!Init /\ OV!Init
    /\ SM!Init /\ RD!Init /\ M0!Init /\ HF!Init

(* find_provider_dir: a bundled directory hides a user's of the same name.  *)
FindProviderDir(name) ==
    IF name \in Bundled THEN "bundled" ELSE IF name \in UserPlugins THEN "user" ELSE "none"

(* load_memory_provider and _load_provider_from_dir: a directory that is    *)
(* missing, an import or a register that fails, leave no provider.          *)
Load(name) ==
    /\ provider = "none"
    /\ foundIn' = FindProviderDir(name)
    /\ provider' \in {"none"} \cup (IF foundIn' = "none" THEN {} ELSE {name})
    /\ UNCHANGED <<hindsightVars, deliveryVars, dialecticVars, vikingVars,
                   supermemoryVars, retainVars, mem0Vars, holographicVars>>

(* The host drives the loaded provider.                                     *)
Next ==
    \/ \E name \in Bundled \cup UserPlugins \cup {"unknown"} : Load(name)
    \/ /\ provider = "hindsight" /\ HI!Next
       /\ UNCHANGED <<loaderVars, deliveryVars, dialecticVars, vikingVars, supermemoryVars,
                      retainVars, mem0Vars, holographicVars>>
    \/ /\ provider = "honcho" /\ HD!Next
       /\ UNCHANGED <<loaderVars, hindsightVars, dialecticVars, vikingVars, supermemoryVars,
                      retainVars, mem0Vars, holographicVars>>
    \/ /\ provider = "honcho_reasoning" /\ HR!Next
       /\ UNCHANGED <<loaderVars, hindsightVars, deliveryVars, vikingVars, supermemoryVars,
                      retainVars, mem0Vars, holographicVars>>
    \/ /\ provider = "openviking" /\ OV!Next
       /\ UNCHANGED <<loaderVars, hindsightVars, deliveryVars, dialecticVars, supermemoryVars,
                      retainVars, mem0Vars, holographicVars>>
    \/ /\ provider = "supermemory" /\ SM!Next
       /\ UNCHANGED <<loaderVars, hindsightVars, deliveryVars, dialecticVars, vikingVars,
                      retainVars, mem0Vars, holographicVars>>
    \/ /\ provider = "retaindb" /\ RD!Next
       /\ UNCHANGED <<loaderVars, hindsightVars, deliveryVars, dialecticVars, vikingVars,
                      supermemoryVars, mem0Vars, holographicVars>>
    \/ /\ provider = "mem0" /\ M0!Next
       /\ UNCHANGED <<loaderVars, hindsightVars, deliveryVars, dialecticVars, vikingVars,
                      supermemoryVars, retainVars, holographicVars>>
    \/ /\ provider = "holographic" /\ HF!Next
       /\ UNCHANGED <<loaderVars, hindsightVars, deliveryVars, dialecticVars, vikingVars,
                      supermemoryVars, retainVars, mem0Vars>>

(* Mem0's cooldown and threads are the only ones a property waits for.      *)
Spec == Init /\ [][Next]_vars /\ M0!Fairness

(* Hindsight: every finished turn is still buffered, queued, on the server, *)
(* or was given up by a path the code names (on_session_switch, shutdown).  *)
HindsightTurnsAccounted == HI!TurnsAccounted

(* Honcho: a message marked as synced is on the server, and the server got  *)
(* the messages of a session in the order they were said, repetitions       *)
(* aside, although three kinds of thread flush one session (_flush_session, *)
(* _async_writer_loop).                                                     *)
HonchoSyncedInOrder == HD!SyncedIsStored /\ HD!StoredInOrder

(* Honcho: a reasoning answer older than the stale limit is never injected, *)
(* although threads taken for dead still deliver (prefetch, queue_prefetch). *)
HonchoInjectedIsRecent == HR!InjectedIsRecent

(* OpenViking: leaving the process normally commits the session of the      *)
(* provider initialised last, as the server then holds it                   *)
(* (_atexit_commit_sessions, shutdown, on_session_end).                     *)
VikingExitCommitsLast == OV!ExitCommitsLast

(* OpenViking: the exit handler's comment, for every session of the process *)
(* (_atexit_commit_sessions).                                               *)
VikingPendingCommitted == OV!PendingCommitted

(* RetainDB: a turn that was accepted is in the table until the service     *)
(* took it, through crashes and a second process (_WriteQueue).             *)
RetainNothingLost == RD!NothingLost

(* Mem0: callers that keep coming to an open breaker are let through again  *)
(* and again (_is_breaker_open, _record_failure).                           *)
Mem0PauseEnds == M0!PauseEnds

(* Holographic: a completed rebuild repairs every vector and bank.          *)
HolographicRebuildRepairs == HF!RebuildRepairs
==============================================================================
