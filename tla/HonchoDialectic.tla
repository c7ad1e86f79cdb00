--------------------------- MODULE HonchoDialectic ---------------------------
(***************************************************************************)
(* How the Honcho provider prepares what it injects into a turn            *)
(* (plugins/memory/honcho/__init__.py): reasoning threads started at the   *)
(* session's start, on its first turn and after a turn leave one pending   *)
(* text with the turn they were fired at; the next prefetch takes it, and  *)
(* drops it when it is too old.  A thread that hangs is declared dead and  *)
(* may still answer long after.                                            *)
(***************************************************************************)
EXTENDS Integers, Sequences, SequencesExt, FiniteSetsExt

CONSTANTS MaxTurn,      \* bound: turns of the session
          MaxAsking,    \* bound: reasoning threads alive at once
          Cadence,      \* dialecticCadence
          Depth,        \* dialecticDepth
          StaleFactor,  \* _STALE_RESULT_MULTIPLIER
          BackoffMax    \* _BACKOFF_MAX

VARIABLES recall,       \* "off" | "skipped" | "context" | "tools" | "hybrid"
          ready,        \* _session_initialized
          turn,         \* _turn_count
          stage,        \* where the host is in the turn: "idle" | "started" | "firing" | "answered"
          lastAsked,    \* _last_dialectic_turn
          streak,       \* _dialectic_empty_streak
          pending,      \* _prefetch_result (by the turn it answers) and its fired_at
          asking,       \* the reasoning threads, oldest first
          handleAlive,  \* _prefetch_thread is alive
          base,         \* _base_context_cache: "unset" | "empty" | "text"
          lastContext,  \* _last_context_turn
          fresh,        \* the manager's context result is waiting
          injected      \* the turn answered by the text injected last, and when

vars == <<recall, ready, turn, stage, lastAsked, streak, pending, asking, handleAlive,
          base, lastContext, fresh, injected>>

Never == -1
NoText == [answers |-> Never, firedAt |-> Never]
Thread(t) == [firedAt |-> t, step |-> "asking"]

Init ==
    /\ recall = "off" /\ ready = FALSE /\ turn = 0 /\ stage = "idle"
    /\ lastAsked = Never /\ streak = 0 /\ pending = NoText
    /\ asking = <<>> /\ handleAlive = FALSE
    /\ base = "unset" /\ lastContext = Never /\ fresh = FALSE
    /\ injected = [answers |-> Never, at |-> 0]

(* _do_session_init: the session, and outside tools mode a context refresh  *)
(* and the reasoning that counts as fired at turn 0.                        *)
SessionInit(mode) ==
    /\ ready' = TRUE
    /\ IF mode = "tools" THEN UNCHANGED <<asking, handleAlive, fresh>>
       ELSE /\ asking' = Append(asking, Thread(0)) /\ handleAlive' = TRUE
            /\ fresh' \in BOOLEAN

(* initialize: not for cron, and lazily in tools mode unless the            *)
(* configuration says otherwise; a failure leaves no manager.               *)
Initialize(mode) ==
    /\ recall = "off" /\ recall' = mode
    /\ \/ mode # "skipped" /\ SessionInit(mode)
       \/ UNCHANGED <<ready, asking, handleAlive, fresh>>
    /\ UNCHANGED <<turn, stage, lastAsked, streak, pending, base, lastContext, injected>>

Injects == ready /\ recall \in {"context", "hybrid"}

(* on_turn_start.                                                           *)
TurnStart ==
    /\ recall # "off" /\ turn < MaxTurn /\ stage # "firing"
    /\ turn' = turn + 1 /\ stage' = "started"
    /\ UNCHANGED <<recall, ready, lastAsked, streak, pending, asking, handleAlive, base,
                   lastContext, fresh, injected>>

(* The base layer of prefetch: fetched at once the first time, replaced by  *)
(* a fresher background result when there is one.                           *)
BaseContext ==
    /\ \E first \in {"empty", "text"} :
          base' = IF fresh THEN "text" ELSE IF base = "unset" THEN first ELSE base
    /\ lastContext' = IF base = "unset" THEN turn ELSE lastContext
    /\ fresh' = FALSE

(* prefetch, up to the reasoning: a text that is already there counts as    *)
(* asked, and a session never asked before asks now and waits a while.      *)
PrefetchFire ==
    LET asked == IF lastAsked = Never /\ pending # NoText THEN turn ELSE lastAsked IN
    /\ Injects /\ stage = "started"
    /\ stage' = "firing" /\ BaseContext
    /\ lastAsked' = asked
    /\ IF asked # Never THEN UNCHANGED <<asking, handleAlive>>
       ELSE /\ Len(asking) < MaxAsking
            /\ asking' = Append(asking, Thread(turn)) /\ handleAlive' = TRUE
    /\ UNCHANGED <<recall, ready, turn, streak, pending, injected>>

(* An answer of any age is used.                                            *)
StaleNever(text) == FALSE

Stale(text) == turn - text.firedAt > Cadence * StaleFactor

(* prefetch, from the end of the wait: take the pending text and inject it  *)
(* unless it was fired too many turns ago.                                  *)
PrefetchTake ==
    /\ stage = "firing" /\ stage' = "answered"
    /\ pending' = NoText
    /\ injected' = IF pending = NoText \/ Stale(pending) THEN injected
                   ELSE [answers |-> pending.answers, at |-> turn]
    /\ UNCHANGED <<recall, ready, turn, lastAsked, streak, asking, handleAlive, base,
                   lastContext, fresh>>

(* The answers of the passes of _run_dialectic_depth: each pass runs only   *)
(* while no answer was strong, and the last answer that says something is   *)
(* the result.                                                              *)
Passes == {p \in UNION {[1 .. n -> {"", "weak", "strong"}] : n \in 1 .. Depth} :
              /\ \A i \in 1 .. Len(p) - 1 : p[i] # "strong"
              /\ Len(p) = Depth \/ Last(p) = "strong"}
Result(p) == LET said == SelectSeq(p, LAMBDA a : a # "") IN
             IF said = <<>> THEN "" ELSE Last(said)

EndThread(i) ==
    /\ asking' = RemoveAt(asking, i)
    /\ handleAlive' = (handleAlive /\ i # Len(asking))

(* A reasoning thread ends without a text, or raises: the streak grows.     *)
AskEmpty(i) ==
    /\ asking[i].step = "asking"
    /\ \E p \in Passes : Result(p) = ""
    /\ streak' = streak + 1 /\ EndThread(i)
    /\ UNCHANGED <<recall, ready, turn, stage, lastAsked, pending, base, lastContext, fresh,
                   injected>>

(* It stores its text with the turn it was fired at, under the lock ...     *)
AskLands(i) ==
    /\ asking[i].step = "asking"
    /\ \E p \in Passes : Result(p) # ""
    /\ pending' = [answers |-> asking[i].firedAt, firedAt |-> asking[i].firedAt]
    /\ asking' = [asking EXCEPT ![i].step = "landed"]
    /\ UNCHANGED <<recall, ready, turn, stage, lastAsked, streak, handleAlive, base,
                   lastContext, fresh, injected>>

(* ... and moves the cadence on without it.                                 *)
AskCounts(i) ==
    /\ asking[i].step = "landed"
    /\ lastAsked' = asking[i].firedAt /\ streak' = 0 /\ EndThread(i)
    /\ UNCHANGED <<recall, ready, turn, stage, pending, base, lastContext, fresh, injected>>

EffectiveCadence ==
    IF streak <= 0 THEN Cadence ELSE Min({Cadence + streak, Cadence * BackoffMax})

(* _last_dialectic_turn starts at -999, far enough for any cadence.         *)
Due == lastAsked = Never \/ turn - lastAsked >= EffectiveCadence

(* queue_prefetch: refresh the base layer, and ask again when the last      *)
(* thread is dead, or counts as dead by its age, and the cadence allows it. *)
QueuePrefetch ==
    /\ Injects /\ stage = "answered" /\ stage' = "idle"
    /\ lastContext' = turn
    /\ fresh' \in {fresh, TRUE}
    /\ \/ /\ Due /\ Len(asking) < MaxAsking
          /\ asking' = Append(asking, Thread(turn)) /\ handleAlive' = TRUE
       \/ /\ handleAlive \/ ~Due
          /\ UNCHANGED <<asking, handleAlive>>
    /\ UNCHANGED <<recall, ready, turn, lastAsked, streak, pending, base, injected>>

(* handle_tool_call: the session is made now if it was deferred, and the    *)
(* reasoning tool counts as asked at this turn.  The other tools change     *)
(* nothing here.                                                            *)
ToolReasoning ==
    /\ recall = "tools" \/ (recall = "hybrid" /\ ready)
    /\ stage \in {"started", "answered"}
    /\ lastAsked' = turn
    /\ IF ready THEN UNCHANGED <<ready, asking, handleAlive, fresh>> ELSE SessionInit(recall)
    /\ UNCHANGED <<recall, turn, stage, streak, pending, base, lastContext, injected>>

Next == \/ \E mode \in {"skipped", "context", "tools", "hybrid"} : Initialize(mode)
        \/ TurnStart \/ PrefetchFire \/ PrefetchTake \/ QueuePrefetch \/ ToolReasoning
        \/ \E i \in DOMAIN asking : AskEmpty(i) \/ AskLands(i) \/ AskCounts(i)

Spec == Init /\ [][Next]_vars

-----------------------------------------------------------------------------
(* What a turn is given answers a recent one: although threads that were    *)
(* declared dead still store their text, in any order, no text older than   *)
(* the stale limit is injected (prefetch, queue_prefetch).                  *)
InjectedIsRecent ==
    injected.answers # Never => injected.at - injected.answers <= Cadence * StaleFactor

=============================================================================
