--------------------------- MODULE SessionRegistry ---------------------------
(***************************************************************************)
(* What governed session creation promises to everyone who reads routes:   *)
(* a register of published routes in which a session appears in one atomic *)
(* step, is never moved or withdrawn, and is preceded by at most one       *)
(* creation in doubt.  A creation in doubt may stay so for ever: the       *)
(* repository has no recovery code.                                        *)
(***************************************************************************)
CONSTANTS Slots, Attempts, NoAttempt

VARIABLES visible,  \* the published session of each slot
          indoubt   \* the committed but unpublished creation: a slot and a session

Init == visible = [s \in Slots |-> NoAttempt] /\ indoubt = {}

\* The rows of a create become durable.
Reserve(s, a) ==
    /\ indoubt = {}
    /\ visible[s] = NoAttempt
    /\ \A t \in Slots : visible[t] # a
    /\ indoubt' = {<<s, a>>}
    /\ UNCHANGED visible

\* The transition is marked published: readers see the route from here on.
Publish(s, a) ==
    /\ indoubt = {<<s, a>>}
    /\ visible' = [visible EXCEPT ![s] = a]
    /\ indoubt' = {}

Next == \E s \in Slots, a \in Attempts : Reserve(s, a) \/ Publish(s, a)

Spec == Init /\ [][Next]_<<visible, indoubt>>
=============================================================================
