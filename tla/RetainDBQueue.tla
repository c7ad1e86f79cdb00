---------------------------- MODULE RetainDBQueue ----------------------------
(***************************************************************************)
(* The durable write queue of the RetainDB provider                        *)
(* (plugins/memory/retaindb/__init__.py, _WriteQueue): a turn is a row of  *)
(* an SQLite table before it is an item of the process's queue, and stays  *)
(* a row until its ingestion was answered.  Every process of one home      *)
(* directory has a queue and a writer of its own over the same table.      *)
(***************************************************************************)
EXTENDS Naturals, Sequences, FiniteSets, SequencesExt, FiniteSetsExt

CONSTANTS Processes,    \* processes that share the home directory
          MaxRow,       \* bound: rows ever inserted
          MaxLives,     \* bound: starts of processes
          ReplayLimit   \* LIMIT of _pending_rows

VARIABLES rows,         \* the table of pending rows, by id
          lastRow,      \* ids handed out so far
          running,      \* "down" | "replaying" | "up" | "stopping"
          inserted,     \* per process: the row committed and not yet queued, 0 for none
          items,        \* per process: _q
          flushing,     \* per process: [row, step] of the writer, step "idle" | "ingest" | "delete" | "failed" | "ended"
          ingested,     \* how often the service took each row
          lives         \* starts so far

vars == <<rows, lastRow, running, inserted, items, flushing, ingested, lives>>

Rows == 1 .. MaxRow
Idle == [row |-> 0, step |-> "idle"]
Sentinel == 0

Init ==
    /\ rows = {} /\ lastRow = 0 /\ lives = 0
    /\ running = [p \in Processes |-> "down"]
    /\ inserted = [p \in Processes |-> 0]
    /\ items = [p \in Processes |-> <<>>]
    /\ flushing = [p \in Processes |-> Idle]
    /\ ingested = [r \in Rows |-> 0]

Step(p, row, step) == flushing' = [flushing EXCEPT ![p] = [row |-> row, step |-> step]]

(* _WriteQueue.__init__: the writer thread starts ...                       *)
Start(p) ==
    /\ running[p] = "down" /\ lives < MaxLives
    /\ running' = [running EXCEPT ![p] = "replaying"] /\ lives' = lives + 1
    /\ Step(p, 0, "idle")
    /\ UNCHANGED <<rows, lastRow, inserted, items, ingested>>

(* _pending_rows: the oldest rows, at most ReplayLimit of them.             *)
PendingRows == SubSeq(SetToSortSeq(rows, <), 1, Min({ReplayLimit, Cardinality(rows)}))

(* ... and then the rows of an earlier life, or of a process that still     *)
(* has them queued, are queued again.                                       *)
Replay(p) ==
    /\ running[p] = "replaying"
    /\ running' = [running EXCEPT ![p] = "up"]
    /\ items' = [items EXCEPT ![p] = @ \o PendingRows]
    /\ UNCHANGED <<rows, lastRow, inserted, flushing, ingested, lives>>

(* sync_turn, enqueue: the row is committed first ...                       *)
EnqueueInsert(p) ==
    /\ running[p] = "up" /\ inserted[p] = 0 /\ lastRow < MaxRow
    /\ lastRow' = lastRow + 1 /\ rows' = rows \cup {lastRow + 1}
    /\ inserted' = [inserted EXCEPT ![p] = lastRow + 1]
    /\ UNCHANGED <<running, items, flushing, ingested, lives>>

(* ... and queued after.                                                    *)
EnqueuePut(p) ==
    /\ inserted[p] # 0
    /\ items' = [items EXCEPT ![p] = Append(@, inserted[p])]
    /\ inserted' = [inserted EXCEPT ![p] = 0]
    /\ UNCHANGED <<rows, lastRow, running, flushing, ingested, lives>>

(* _loop: the next item, or the end of the thread.                          *)
WriterTake(p) ==
    /\ flushing[p].step = "idle" /\ items[p] # <<>> /\ running[p] # "down"
    /\ items' = [items EXCEPT ![p] = Tail(@)]
    /\ Step(p, Head(items[p]), IF Head(items[p]) = Sentinel THEN "ended" ELSE "ingest")
    /\ UNCHANGED <<rows, lastRow, running, inserted, ingested, lives>>

(* A failed ingestion deletes the row as well.                              *)
AfterIngestDelete(answered) == "delete"

AfterIngest(answered) == IF answered THEN "delete" ELSE "failed"

(* _flush_row: the service takes the row or not, and an answer can be lost. *)
WriterIngest(p) ==
    /\ flushing[p].step = "ingest"
    /\ \E took, answered \in BOOLEAN :
          /\ answered => took
          /\ ingested' = [ingested EXCEPT ![flushing[p].row] = @ + IF took THEN 1 ELSE 0]
          /\ Step(p, flushing[p].row, AfterIngest(answered))
    /\ UNCHANGED <<rows, lastRow, running, inserted, items, lives>>

(* Only an answered ingestion deletes the row; the statement may fail, and  *)
(* then, as after a failed ingestion, the row only has its error recorded.  *)
WriterDelete(p) ==
    /\ flushing[p].step = "delete"
    /\ \/ rows' = rows \ {flushing[p].row} /\ Step(p, 0, "idle")
       \/ UNCHANGED rows /\ Step(p, flushing[p].row, "failed")
    /\ UNCHANGED <<lastRow, running, inserted, items, ingested, lives>>

WriterFailed(p) ==
    /\ flushing[p].step = "failed"
    /\ Step(p, 0, "idle")
    /\ UNCHANGED <<rows, lastRow, running, inserted, items, ingested, lives>>

(* shutdown queues the sentinel and waits up to ten seconds.                *)
Shutdown(p) ==
    /\ running[p] = "up" /\ inserted[p] = 0
    /\ running' = [running EXCEPT ![p] = "stopping"]
    /\ items' = [items EXCEPT ![p] = Append(@, Sentinel)]
    /\ UNCHANGED <<rows, lastRow, inserted, flushing, ingested, lives>>

(* The process ends, after shutdown or in a crash: only the table stays.    *)
ProcessEnds(p) ==
    /\ running[p] # "down"
    /\ running' = [running EXCEPT ![p] = "down"]
    /\ inserted' = [inserted EXCEPT ![p] = 0]
    /\ items' = [items EXCEPT ![p] = <<>>]
    /\ Step(p, 0, "idle")
    /\ UNCHANGED <<rows, lastRow, ingested, lives>>

Next == \E p \in Processes :
           \/ Start(p) \/ Replay(p) \/ EnqueueInsert(p) \/ EnqueuePut(p)
           \/ WriterTake(p) \/ WriterIngest(p) \/ WriterDelete(p) \/ WriterFailed(p)
           \/ Shutdown(p) \/ ProcessEnds(p)

Spec == Init /\ [][Next]_vars

-----------------------------------------------------------------------------
(* No turn is lost: whatever crashes, and however two processes share the   *)
(* table, each row handed out is still pending or was taken by the service  *)
(* (enqueue, _flush_row).                                                   *)
NothingLost == \A r \in 1 .. lastRow : r \in rows \/ ingested[r] > 0

=============================================================================
