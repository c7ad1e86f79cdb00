---------------------------- MODULE Mem0Breaker ------------------------------
(***************************************************************************)
(* The circuit breaker of the Mem0 provider                                *)
(* (plugins/memory/mem0/__init__.py).  Prefetches, turn synchronisation    *)
(* and tool calls read and write the failure count and the end of the      *)
(* cooldown from threads of their own, without a lock; the steps between   *)
(* which another thread may run are the actions below.                     *)
(***************************************************************************)
EXTENDS Naturals

CONSTANTS Callers,      \* threads that call the service
          Threshold     \* _BREAKER_THRESHOLD

VARIABLES failures,     \* _consecutive_failures, counted up to Threshold + 1
          cooling,      \* _breaker_open_until lies in the future
          caller,       \* "none" | "checking" | "calling" | "tripping"
          client        \* _client: "none" | "made"

vars == <<failures, cooling, caller, client>>

Init ==
    /\ failures = 0 /\ cooling = FALSE /\ client = "none"
    /\ caller = [c \in Callers |-> "none"]

At(c, step) == caller' = [caller EXCEPT ![c] = step]

(* _is_breaker_open, first test: too few failures let the call through ...  *)
Check(c) ==
    /\ caller[c] = "none"
    /\ At(c, IF failures < Threshold THEN "calling" ELSE "checking")
    /\ UNCHANGED <<failures, cooling, client>>

(* The count is not reset when the cooldown is over.                        *)
CheckCooldownStays(c) ==
    /\ caller[c] = "checking" /\ At(c, "none")
    /\ UNCHANGED <<failures, cooling, client>>

(* ... and an open breaker refuses it unless the cooldown is over, which    *)
(* resets the count.                                                        *)
CheckCooldown(c) ==
    /\ caller[c] = "checking"
    /\ IF cooling THEN At(c, "none") /\ UNCHANGED failures
                  ELSE At(c, "calling") /\ failures' = 0
    /\ UNCHANGED <<cooling, client>>

(* queue_prefetch, sync_turn and each tool: _get_client and the call, then  *)
(* _record_success.                                                         *)
CallSucceeds(c) ==
    /\ caller[c] = "calling"
    /\ failures' = 0 /\ client' = "made" /\ At(c, "none")
    /\ UNCHANGED cooling

(* _record_failure counts, and at the threshold goes on to start the        *)
(* cooldown.  A tool whose client cannot be made is not counted.            *)
CallFails(c) ==
    /\ caller[c] = "calling"
    /\ \/ /\ failures' = IF failures > Threshold THEN failures ELSE failures + 1
          /\ At(c, IF failures' >= Threshold THEN "tripping" ELSE "none")
       \/ client = "none" /\ UNCHANGED failures /\ At(c, "none")
    /\ UNCHANGED <<cooling, client>>

Trip(c) ==
    /\ caller[c] = "tripping"
    /\ cooling' = TRUE /\ At(c, "none")
    /\ UNCHANGED <<failures, client>>

CooldownEnds ==
    /\ cooling /\ cooling' = FALSE
    /\ UNCHANGED <<failures, caller, client>>

(* shutdown waits for the threads and drops the client.                     *)
Shutdown ==
    /\ client = "made" /\ client' = "none"
    /\ UNCHANGED <<failures, cooling, caller>>

Next == \/ \E c \in Callers : Check(c) \/ CheckCooldown(c) \/ CallSucceeds(c)
                                \/ CallFails(c) \/ Trip(c)
        \/ CooldownEnds \/ Shutdown

(* Time passes, and a thread that has begun a step is scheduled again.      *)
Fairness == /\ WF_vars(CooldownEnds)
            /\ \A c \in Callers : /\ WF_vars(CheckCooldown(c)) /\ WF_vars(Trip(c))
                                  /\ WF_vars(CallSucceeds(c) \/ CallFails(c))

Spec == Init /\ [][Next]_vars /\ Fairness

-----------------------------------------------------------------------------
(* The pause always ends: as long as callers come back to an open breaker,  *)
(* some caller is let through again and again, although a late failure may  *)
(* renew the cooldown (_is_breaker_open, _record_failure: "Will retry       *)
(* automatically").                                                         *)
PauseEnds ==
    []<>(\E c \in Callers : caller[c] = "checking")
        => []<>(\E c \in Callers : caller[c] = "calling")
=============================================================================
