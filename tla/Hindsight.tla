------------------------------ MODULE Hindsight ------------------------------
(***************************************************************************)
(* The Hindsight memory provider (plugins/memory/hindsight/__init__.py):   *)
(* the host thread buffers finished turns and hands them, as jobs, to one  *)
(* writer thread; recalls run on threads of their own and leave their text *)
(* in a slot that the next prefetch empties; a session switch flushes the  *)
(* buffer under the old document and rotates to a fresh one.               *)
(*                                                                         *)
(* A document is <<session, life>>: life 0 is the session-scoped document  *)
(* of a server that appends, any other life the fresh identifier minted    *)
(* by initialize or by a session switch, which a legacy server replaces on *)
(* every retain.  A join with a timeout may end with the thread still      *)
(* running, so it constrains nothing here: the thread either finished      *)
(* before the step or goes on after it.                                    *)
(***************************************************************************)
EXTENDS Naturals, Sequences, SequencesExt

CONSTANTS Sessions,      \* session identifiers
          MaxTurn,       \* bound: turns the host finishes
          MaxLife,       \* bound: documents minted by initialize and switch
          MaxRecall,     \* bound: recall threads running at once
          RetainEvery    \* retain_every_n_turns

VARIABLES phase,       \* "off" | "up" | "closing" | "down"
          session, life,
          turns,       \* _session_turns
          counter,     \* _turn_counter
          owner,       \* the session each turn finished so far belongs to
          jobs,        \* _retain_queue
          writer,      \* "none" | "idle" | "busy" | "exited"
          job,         \* the job of a busy writer
          append,      \* _append_capability_cache: "unknown" | "yes" | "no"
          documents,   \* what the server holds
          recalls,     \* sessions of the running recall threads
          recalled,    \* _prefetch_result: the session it was recalled for
          lost         \* turns given up: failed, abandoned, dropped, killed

vars == <<phase, session, life, turns, counter, owner, jobs, writer, job,
          append, documents, recalls, recalled, lost>>

NoSession == "none"
Stop == [document |-> <<NoSession, 0>>, mode |-> "stop", turns |-> <<>>]
Documents == (Sessions \cup {NoSession}) \X (0 .. MaxLife)
Turns == DOMAIN owner

Init ==
    /\ phase = "off" /\ session = NoSession /\ life = 0
    /\ turns = <<>> /\ counter = 0 /\ owner = <<>>
    /\ jobs = <<>> /\ writer = "none" /\ job = Stop
    /\ append = "unknown"
    /\ documents = [d \in Documents |-> <<>>]
    /\ recalls = <<>> /\ recalled = NoSession /\ lost = {}

(* initialize: a provider object starts on a session with a document of its *)
(* own.  A local runtime that cannot be imported returns early and leaves  *)
(* every control at its default, which are the controls modelled here.     *)
Initialize(s) ==
    /\ phase = "off" /\ life < MaxLife
    /\ phase' = "up" /\ session' = s /\ life' = life + 1
    /\ turns' = <<>>
    /\ UNCHANGED <<counter, owner, jobs, writer, job, append, documents,
                   recalls, recalled, lost>>

(* The cached answer, or either outcome of a probe: a failed probe is "no". *)
SupportsAppend(a) == IF append = "unknown" THEN a \in {"yes", "no"}
                                           ELSE a = append

(* _resolve_retain_target: the document and update mode of a retain.        *)
RetainTarget(a) == IF a = "yes" THEN [document |-> <<session, 0>>, mode |-> "append"]
                                ELSE [document |-> <<session, life>>, mode |-> "replace"]

(* The newest turn instead of the whole session.                            *)
RetainJobLatest(a, ts) == [document |-> RetainTarget(a).document,
                           mode |-> RetainTarget(a).mode, turns |-> <<Last(ts)>>]

RetainJob(a, ts) == [document |-> RetainTarget(a).document,
                     mode |-> RetainTarget(a).mode, turns |-> ts]

(* _ensure_writer: a writer that is alive is kept, otherwise one starts.    *)
EnsureWriter == writer' = IF writer \in {"idle", "busy"} THEN writer ELSE "idle"

(* sync_turn: buffer the turn, and every RetainEvery turns enqueue all the  *)
(* turns of the session.  Once shutdown has begun the turn is dropped.      *)
SyncTurn ==
    LET t == Len(owner) + 1 IN
    /\ phase # "off" /\ t <= MaxTurn
    /\ owner' = Append(owner, session)
    /\ IF phase # "up"
       THEN /\ lost' = lost \cup {t}
            /\ UNCHANGED <<turns, counter, jobs, writer, append>>
       ELSE /\ turns' = Append(turns, t)
            /\ counter' = counter + 1
            /\ UNCHANGED lost
            /\ IF counter' % RetainEvery # 0
               THEN UNCHANGED <<jobs, writer, append>>
               ELSE \E a \in {"yes", "no"} :
                       /\ SupportsAppend(a) /\ append' = a
                       /\ jobs' = Append(jobs, RetainJob(a, turns'))
                       /\ EnsureWriter
    /\ UNCHANGED <<phase, session, life, job, documents, recalls, recalled>>

(* on_session_switch: flush the buffer under the old identifiers through    *)
(* the same queue, drop the pending recall, rotate to a fresh document.     *)
SwitchSession(s) ==
    /\ phase # "off" /\ life < MaxLife
    /\ IF turns # <<>> /\ phase = "up"
       THEN \E a \in {"yes", "no"} :
               /\ SupportsAppend(a) /\ append' = a
               /\ jobs' = Append(jobs, RetainJob(a, turns))
               /\ EnsureWriter
       ELSE UNCHANGED <<jobs, writer, append>>
    /\ lost' = IF phase = "up" THEN lost ELSE lost \cup ToSet(turns)
    /\ recalled' = NoSession
    /\ session' = s /\ life' = life + 1
    /\ turns' = <<>> /\ counter' = 0
    /\ UNCHANGED <<phase, owner, job, documents, recalls>>

(* _writer_loop: take the next job, or leave on the sentinel, or leave when *)
(* the queue stayed empty for a second during shutdown.                     *)
WriterTake ==
    /\ writer = "idle" /\ jobs # <<>>
    /\ jobs' = Tail(jobs)
    /\ IF Head(jobs) = Stop
       THEN writer' = "exited" /\ UNCHANGED job
       ELSE writer' = "busy" /\ job' = Head(jobs)
    /\ UNCHANGED <<phase, session, life, turns, counter, owner, append,
                   documents, recalls, recalled, lost>>

WriterIdle ==
    /\ writer = "idle" /\ jobs = <<>> /\ phase \in {"closing", "down"}
    /\ writer' = "exited"
    /\ UNCHANGED <<phase, session, life, turns, counter, owner, jobs, job,
                   append, documents, recalls, recalled, lost>>

(* What the server makes of a retain: it replaces the document, or appends. *)
Retained(j, content) == IF j.mode = "append" THEN content \o j.turns ELSE j.turns

(* The job itself, with the one retry that an embedded daemon allows: the   *)
(* server took it, or the writer logs the failure and goes on.              *)
WriterRetain ==
    /\ writer = "busy"
    /\ \/ /\ documents' = [documents EXCEPT ![job.document] = Retained(job, @)]
          /\ lost' = lost \ ToSet(job.turns)
       \/ /\ lost' = lost \cup ToSet(job.turns)
          /\ UNCHANGED documents
    /\ writer' = "idle" /\ job' = Stop
    /\ UNCHANGED <<phase, session, life, turns, counter, owner, jobs, append,
                   recalls, recalled>>

(* queue_prefetch starts a recall thread and forgets the one before it.     *)
QueuePrefetch ==
    /\ phase = "up" /\ Len(recalls) < MaxRecall
    /\ recalls' = Append(recalls, session)
    /\ UNCHANGED <<phase, session, life, turns, counter, owner, jobs, writer,
                   job, append, documents, recalled, lost>>

(* A recall ends with text, which it stores, or without.                    *)
RecallDone(i) ==
    /\ recalled' \in {recalled, recalls[i]}
    /\ recalls' = RemoveAt(recalls, i)
    /\ UNCHANGED <<phase, session, life, turns, counter, owner, jobs, writer,
                   job, append, documents, lost>>

(* prefetch hands the pending text to the session and empties the slot.     *)
Prefetch ==
    /\ phase # "off" /\ recalled # NoSession
    /\ recalled' = NoSession
    /\ UNCHANGED <<phase, session, life, turns, counter, owner, jobs, writer,
                   job, append, documents, recalls, lost>>

(* shutdown, first half: refuse new work and put the sentinel behind what   *)
(* is queued, when a writer is there to read it.                            *)
ShutdownBegin ==
    /\ phase = "up"
    /\ phase' = "closing"
    /\ jobs' = IF writer \in {"idle", "busy"} THEN Append(jobs, Stop) ELSE jobs
    /\ UNCHANGED <<session, life, turns, counter, owner, writer, job, append,
                   documents, recalls, recalled, lost>>

(* shutdown, second half: the join ends, or its ten seconds do.             *)
ShutdownEnd ==
    /\ phase = "closing"
    /\ phase' = "down"
    /\ UNCHANGED <<session, life, turns, counter, owner, jobs, writer, job,
                   append, documents, recalls, recalled, lost>>

Unsaved == ToSet(turns) \cup ToSet(job.turns)
             \cup UNION {ToSet(jobs[i].turns) : i \in DOMAIN jobs}
Saved == UNION {ToSet(documents[d]) : d \in Documents}

(* The process ends, after shutdown or in a crash: every thread goes with   *)
(* it and what was not retained is gone.  The server's documents stay.      *)
ProcessExit ==
    /\ phase # "off"
    /\ phase' = "off" /\ session' = NoSession
    /\ turns' = <<>> /\ counter' = 0 /\ jobs' = <<>> /\ writer' = "none" /\ job' = Stop
    /\ append' = "unknown" /\ recalls' = <<>> /\ recalled' = NoSession
    /\ lost' = lost \cup (Unsaved \ Saved)
    /\ UNCHANGED <<life, owner, documents>>

Next == \/ \E s \in Sessions : Initialize(s) \/ SwitchSession(s)
        \/ SyncTurn \/ WriterTake \/ WriterIdle \/ WriterRetain
        \/ QueuePrefetch \/ Prefetch
        \/ \E i \in DOMAIN recalls : RecallDone(i)
        \/ ShutdownBegin \/ ShutdownEnd \/ ProcessExit

Spec == Init /\ [][Next]_vars

-----------------------------------------------------------------------------

(* Every finished turn is stored, on its way, or was given up by a failed   *)
(* retain, a shutdown or the end of the process: a session switch loses     *)
(* none, whatever is still queued or buffered (on_session_switch).          *)
TurnsAccounted == Turns \subseteq Saved \cup Unsaved \cup lost
=============================================================================
