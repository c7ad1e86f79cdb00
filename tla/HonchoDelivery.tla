--------------------------- MODULE HonchoDelivery ---------------------------
(***************************************************************************)
(* How the Honcho provider delivers messages                               *)
(* (plugins/memory/honcho/session.py and sync_turn, on_session_end and     *)
(* shutdown of plugins/memory/honcho/__init__.py).  Three kinds of threads *)
(* run _flush_session on the same session objects without a lock: the      *)
(* thread of each sync_turn (the next one waits five seconds for it, then  *)
(* starts anyway), the async writer, and the host in flush_all.            *)
(*                                                                         *)
(* A session object is a generation 0..MaxNew: 0 is the one made under the *)
(* plain key, the others are made by new_session under a key with a        *)
(* timestamp and cached under both.  Messages are numbered in the order in *)
(* which they are made, and a session's list of them is in that order, so  *)
(* a list of messages, and a batch taken from it, is the set of its        *)
(* numbers; the server holds batches, each in the order of its numbers.    *)
(***************************************************************************)
EXTENDS Naturals, Sequences

CONSTANTS SyncThreads,   \* names of the sync_turn threads alive at once
          MaxMessage,    \* bound: messages made
          MaxStored,     \* bound: batches the server holds of a session
          MaxQueue,      \* bound: sessions in the queue of the writer
          MaxNew         \* bound: calls of new_session

VARIABLES frequency,     \* write_frequency, "off" before initialize
          newest,        \* newest generation
          current,       \* the generation the plain key maps to
          log,           \* messages of each session object
          synced,        \* messages marked _synced
          stored,        \* the batches the server holds of each session
          queue,         \* _async_queue
          task,          \* what each thread is doing
          todo,          \* sessions flush_all has still to flush
          draining       \* flush_all has still to drain the queue

vars == <<frequency, newest, current, log, synced, stored, queue, task, todo, draining>>

Generations == 0 .. MaxNew
Threads == SyncThreads \cup {"writer", "host"}
Made == UNION {log[g] : g \in Generations}
Idle == [pc |-> "idle", gen |-> 0, batch |-> {}, ok |-> FALSE, tries |-> 0]

Init ==
    /\ frequency = "off" /\ newest = 0 /\ current = 0
    /\ log = [g \in Generations |-> {}]
    /\ synced = {}
    /\ stored = [g \in Generations |-> <<>>]
    /\ queue = <<>>
    /\ task = [t \in Threads |-> Idle]
    /\ todo = <<>> /\ draining = FALSE

(* initialize and _do_session_init: the manager, its writer if the writes   *)
(* are asynchronous, and the session of the key.                            *)
Initialize ==
    /\ frequency = "off"
    /\ frequency' \in {"async", "turn", "session"}
    /\ UNCHANGED <<newest, current, log, synced, stored, queue, task, todo, draining>>

Flushing(g, n) == [Idle EXCEPT !.pc = "collect", !.gen = g, !.tries = n]

(* sync_turn: a thread looks the session up in the cache ...                *)
SyncTurn(t) ==
    /\ frequency # "off" /\ task[t] = Idle
    /\ task' = [task EXCEPT ![t] = [Idle EXCEPT !.pc = "adding", !.gen = current]]
    /\ UNCHANGED <<frequency, newest, current, log, synced, stored, queue, todo, draining>>

(* ... and adds the turn's messages to it, one chunk at a time, before it   *)
(* flushes.                                                                 *)
AddMessage(t) ==
    /\ task[t].pc = "adding"
    /\ \E n \in 1 .. MaxMessage :
          /\ Made = 1 .. n - 1
          /\ log' = [log EXCEPT ![task[t].gen] = @ \cup {n}]
    /\ \E more \in BOOLEAN :
          task' = [task EXCEPT ![t] = IF more THEN @ ELSE Flushing(@.gen, 1)]
    /\ UNCHANGED <<frequency, newest, current, synced, stored, queue, todo, draining>>

(* The newest message instead of everything unsynced.                       *)
UnsyncedLatest(g) == {m \in log[g] \ synced : \A k \in log[g] \ synced : k <= m}

Unsynced(g) == log[g] \ synced

(* _flush_session, first part: what is not yet marked synced.               *)
Collect(t) ==
    LET batch == Unsynced(task[t].gen) IN
    /\ task[t].pc = "collect"
    /\ task' = [task EXCEPT ![t] = IF batch = {} THEN Idle
                                   ELSE [@ EXCEPT !.pc = "send", !.batch = batch]]
    /\ UNCHANGED <<frequency, newest, current, log, synced, stored, queue, todo, draining>>

(* add_messages: the server takes the batch or not, and a call whose answer *)
(* is lost raises although the server took it.                              *)
Send(t) ==
    /\ task[t].pc = "send"
    /\ \E took, answered \in BOOLEAN :
          /\ answered => took
          /\ took => Len(stored[task[t].gen]) < MaxStored
          /\ stored' = IF took THEN [stored EXCEPT ![task[t].gen] = Append(@, task[t].batch)]
                               ELSE stored
          /\ task' = [task EXCEPT ![t] = [@ EXCEPT !.pc = "mark", !.ok = answered]]
    /\ UNCHANGED <<frequency, newest, current, log, synced, queue, todo, draining>>

Marked(ok, batch) == IF ok THEN synced \cup batch ELSE synced \ batch

(* _flush_session, last part: mark the batch and put the session back into  *)
(* the cache under its own key.  The writer retries a failed flush once.    *)
Mark(t) ==
    LET f == task[t] IN
    /\ f.pc = "mark"
    /\ synced' = Marked(f.ok, f.batch)
    /\ current' = IF f.gen = 0 THEN 0 ELSE current
    /\ task' = [task EXCEPT ![t] = IF t = "writer" /\ ~f.ok /\ f.tries = 1
                                   THEN Flushing(f.gen, 2) ELSE Idle]
    /\ UNCHANGED <<frequency, newest, log, stored, queue, todo, draining>>

(* _async_writer_loop takes the next session.                               *)
WriterTake ==
    /\ task["writer"] = Idle /\ queue # <<>> /\ frequency = "async"
    /\ task' = [task EXCEPT !["writer"] = Flushing(Head(queue), 1)]
    /\ queue' = Tail(queue)
    /\ UNCHANGED <<frequency, newest, current, log, synced, stored, todo, draining>>

HostFree == task["host"] = Idle /\ todo = <<>> /\ ~draining

(* save: enqueue, flush now, or leave it to the end of the session.         *)
Save ==
    /\ frequency # "off" /\ HostFree
    /\ CASE frequency = "async" ->
                /\ Len(queue) < MaxQueue
                /\ queue' = Append(queue, current) /\ UNCHANGED task
         [] frequency = "turn" ->
                /\ task' = [task EXCEPT !["host"] = Flushing(current, 1)]
                /\ UNCHANGED queue
         [] OTHER -> UNCHANGED <<queue, task>>
    /\ UNCHANGED <<frequency, newest, current, log, synced, stored, todo, draining>>

(* flush_all, called by on_session_end and by shutdown after joins that may *)
(* time out: every cached session in the order of the cache, where the plain *)
(* key was put last, then whatever the queue still holds.                   *)
FlushAll ==
    /\ frequency # "off" /\ HostFree /\ Made # {}
    /\ todo' = [i \in 1 .. newest + 1 |-> IF i <= newest THEN i ELSE current]
    /\ draining' = (frequency = "async")
    /\ UNCHANGED <<frequency, newest, current, log, synced, stored, queue, task>>

HostNext ==
    /\ task["host"] = Idle /\ (todo # <<>> \/ draining)
    /\ IF todo # <<>>
       THEN /\ task' = [task EXCEPT !["host"] = Flushing(Head(todo), 1)]
            /\ todo' = Tail(todo) /\ UNCHANGED <<queue, draining>>
       ELSE IF queue # <<>>
            THEN /\ task' = [task EXCEPT !["host"] = Flushing(Head(queue), 1)]
                 /\ queue' = Tail(queue) /\ UNCHANGED <<todo, draining>>
            ELSE draining' = FALSE /\ UNCHANGED <<task, todo, queue>>
    /\ UNCHANGED <<frequency, newest, current, log, synced, stored>>

(* new_session: forget the old session object, make one under a fresh key   *)
(* and cache it under the plain key as well.                                *)
NewSession ==
    /\ frequency # "off" /\ HostFree /\ newest < MaxNew
    /\ newest' = newest + 1 /\ current' = newest + 1
    /\ UNCHANGED <<frequency, log, synced, stored, queue, task, todo, draining>>

Next == \/ Initialize \/ WriterTake \/ Save \/ FlushAll \/ HostNext \/ NewSession
        \/ \E t \in SyncThreads : SyncTurn(t) \/ AddMessage(t)
        \/ \E t \in Threads : Collect(t) \/ Send(t) \/ Mark(t)

Spec == Init /\ [][Next]_vars

-----------------------------------------------------------------------------
\* What the server holds of a session.
StoredOf(g) == UNION {stored[g][i] : i \in DOMAIN stored[g]}

(* A message marked synced is on the server, whichever of the threads that  *)
(* flush the same session marks it last (_flush_session).                   *)
SyncedIsStored == \A m \in synced : \E g \in Generations : m \in StoredOf(g)

(* Concurrent flushes may store a message twice, but never a message before *)
(* an earlier one of its session: what the server holds, without the        *)
(* repetitions, is always a prefix of the conversation (_flush_session,     *)
(* sync_turn, flush_all).                                                   *)
StoredInOrder ==
    \A g \in Generations : \A i \in DOMAIN stored[g] :
        \A x \in stored[g][i], m \in log[g] :
            m < x => \E j \in 1 .. i : m \in stored[g][j]
=============================================================================
