------------------------------ MODULE MemoryStore ------------------------------
(***************************************************************************)
(* Governed business memory: BusinessMemoryService and the remember tool   *)
(* over LocalSQLiteVectorRetriever (src/src/project_maya/memory).          *)
(*                                                                         *)
(* Callers share retrievers.  A retriever has one SQLite connection and a  *)
(* lock held across every operation on it; the database has one writer at  *)
(* a time.  Python's sqlite3 opens a transaction at the first INSERT,      *)
(* UPDATE or DELETE and not at a SELECT, so what an operation reads before *)
(* its first write is read outside its transaction.  A transaction's       *)
(* writes appear together when it commits.                                 *)
(***************************************************************************)
EXTENDS Naturals, Sequences, FiniteSets

CONSTANTS Callers, Retrievers,
          Uses,         \* caller |-> the retriever it goes through
          Model,        \* caller |-> dimension of its embedding model, or NoDim
          Ids, Texts, Dims, NoDim,
          Files,        \* file |-> the chunks ingest_text makes of it
          Remembered,   \* documents the remember tool is handed
          Absent        \* no row; no caller

Texted == [id : Ids, text : Texts]
Vectors == Dims \cup {NoDim}
Incoming == [id : Ids, text : Texts, vector : Vectors]
Documents == [text : Texts, vector : Vectors]
Records == [doc : Documents, text : Texts, vector : Vectors]

ASSUME MemoryConstants ==
    /\ Uses \in [Callers -> Retrievers] /\ Model \in [Callers -> Vectors]
    /\ NoDim \notin Dims /\ IsFiniteSet(Ids)
    /\ \A f \in DOMAIN Files : Files[f] \in Seq(Texted) /\ Files[f] # <<>>
    /\ Remembered \subseteq Incoming
    /\ Absent \notin Callers \cup Documents \cup Records

VARIABLES
    records,    \* memory_records: document_json, and the columns beside it
    index,      \* memory_records_fts: the text each id is found by
    dimension,  \* memory_metadata's embedding_dimension
    lock,       \* holder of each retriever's lock
    writer,     \* the connection's transaction that holds the write lock, by caller
    at, op,     \* where each caller stands, and in what
    batch, next,  \* documents to remember, and the one whose turn it is
    rows,       \* ids and documents a rebuild read
    unset,      \* the upsert found no dimension and will insert one
    granted,    \* ids the running operation was authorized to write
    outcome

store == <<records, index, dimension>>
job == <<op, batch, next, rows, unset, granted>>
vars == <<store, lock, writer, at, job, outcome>>

NoRows == [i \in Ids |-> Absent]

Holding == {"read", "existing", "begin", "commit"}
Points == {"idle", "authorize", "documents", "lock"} \cup Holding

Init ==
    /\ records = NoRows /\ index = NoRows /\ dimension = NoDim
    /\ lock = [r \in Retrievers |-> Absent] /\ writer = Absent
    /\ at = [c \in Callers |-> "idle"]
    /\ op = [c \in Callers |-> "upsert"]
    /\ batch = [c \in Callers |-> <<>>] /\ next = [c \in Callers |-> 1]
    /\ rows = [c \in Callers |-> NoRows]
    /\ unset = [c \in Callers |-> FALSE]
    /\ granted = [c \in Callers |-> {}]
    /\ outcome = [c \in Callers |-> "none"]

Stored(table) == {i \in Ids : table[i] # Absent}
Docs(table) == [i \in Ids |-> IF table[i] = Absent THEN Absent ELSE table[i].doc]
Current(c) == batch[c][next[c]]

\* Leaving "with connection" and "with self._lock".
Unlock(c) ==
    /\ lock' = [r \in Retrievers |-> IF lock[r] = c THEN Absent ELSE lock[r]]
    /\ writer' = IF writer = c THEN Absent ELSE writer

\* The call returns or raises and its local variables are gone; the documents
\* are kept beside the answer only to state StoredIsWhole.
Answer(cs, result) ==
    /\ at' = [c \in Callers |-> IF c \in cs THEN "idle" ELSE at[c]]
    /\ outcome' = [c \in Callers |-> IF c \in cs THEN result ELSE outcome[c]]
    /\ op' = [c \in Callers |-> IF c \in cs THEN "upsert" ELSE op[c]]
    /\ batch' = [c \in Callers |->
                   IF c \in cs /\ result # "stored" THEN <<>> ELSE batch[c]]
    /\ next' = [c \in Callers |-> IF c \in cs THEN 1 ELSE next[c]]
    /\ rows' = [c \in Callers |-> IF c \in cs THEN NoRows ELSE rows[c]]
    /\ unset' = [c \in Callers |-> IF c \in cs THEN FALSE ELSE unset[c]]
    /\ granted' = [c \in Callers |-> IF c \in cs THEN {} ELSE granted[c]]

-----------------------------------------------------------------------------
(* Operations begin. *)

Start(c, kind, docs) ==
    /\ at[c] = "idle"
    /\ op' = [op EXCEPT ![c] = kind]
    /\ batch' = [batch EXCEPT ![c] = docs]
    /\ outcome' = [outcome EXCEPT ![c] = "none"]
    /\ UNCHANGED <<store, lock, writer, next, rows, unset, granted>>

\* The agent's remember tool: any document, with or without a vector.
Remember(c) == \E d \in Remembered :
    /\ Start(c, "upsert", <<d>>)
    /\ at' = [at EXCEPT ![c] = "authorize"]

\* ingest_document: all chunks are embedded before the first is stored.
Embedded(c, chunks) ==
    [k \in 1..Len(chunks) |->
        [id |-> chunks[k].id, text |-> chunks[k].text, vector |-> Model[c]]]

Ingest(c) == \E f \in DOMAIN Files :
    /\ Start(c, "upsert", Embedded(c, Files[f]))
    /\ at' = [at EXCEPT ![c] = "authorize"]

Rebuild(c) ==
    /\ Model[c] # NoDim
    /\ Start(c, "rebuild", <<>>)
    /\ at' = [at EXCEPT ![c] = "documents"]

-----------------------------------------------------------------------------
(* Steps before the lock is taken for the change. *)

\* rebuild_embeddings: documents() takes and leaves the lock, then embeds.
ReadDocuments(c) ==
    /\ at[c] = "documents" /\ lock[Uses[c]] = Absent
    /\ rows' = [rows EXCEPT ![c] = Docs(records)]
    /\ at' = [at EXCEPT ![c] = "authorize"]
    /\ UNCHANGED <<store, lock, writer, op, batch, next, unset, granted, outcome>>

\* The ids an operation asks the gateway for; every decision is audited.
Asked(c) == IF op[c] = "rebuild" THEN Stored(rows[c]) ELSE {Current(c).id}

Authorize(c) ==
    /\ at[c] = "authorize"
    /\ granted' = [granted EXCEPT ![c] = @ \cup Asked(c)]
    /\ at' = [at EXCEPT ![c] = "lock"]
    /\ UNCHANGED <<store, lock, writer, op, batch, next, rows, unset, outcome>>

Lock(c) ==
    /\ at[c] = "lock" /\ lock[Uses[c]] = Absent
    /\ lock' = [lock EXCEPT ![Uses[c]] = c]
    /\ at' = [at EXCEPT ![c] = "read"]
    /\ UNCHANGED <<store, writer, job, outcome>>

-----------------------------------------------------------------------------
(* Under the retriever's lock. *)

Raise(c) ==
    /\ Unlock(c)
    /\ Answer({c}, "failed")
    /\ UNCHANGED store

Proceed(c, point, inserts) ==
    /\ at' = [at EXCEPT ![c] = point]
    /\ unset' = [unset EXCEPT ![c] = inserts]
    /\ UNCHANGED <<store, lock, writer, op, batch, next, rows, granted, outcome>>

\* _validate_embedding_dimensions against the stored dimension.
Agrees(vector, stored) == vector = stored

ReadDimension(c) ==
    /\ at[c] = "read" /\ op[c] = "upsert"
    /\ LET v == Current(c).vector IN
       \/ v = NoDim /\ Proceed(c, "begin", FALSE)
       \/ v # NoDim /\ dimension = NoDim /\ Proceed(c, "existing", FALSE)
       \/ v # NoDim /\ dimension # NoDim /\ Agrees(v, dimension)
          /\ Proceed(c, "begin", FALSE)
       \/ v # NoDim /\ dimension # NoDim /\ ~Agrees(v, dimension) /\ Raise(c)

\* No dimension is recorded: it is taken from the vectors there are, if any.
ReadExisting(c) ==
    /\ at[c] = "existing"
    /\ LET existing == {records[i].vector : i \in Stored(records)} \ {NoDim}
       IN  IF existing \subseteq {Current(c).vector}
             THEN Proceed(c, "begin", TRUE)
             ELSE Raise(c)

\* Mutant: records added since the rebuild listed them are rewritten as well.
Covers_Some(prepared, stored) == prepared \subseteq stored

\* replace_embeddings reads the rows it will rewrite and compares their ids
\* with the ids it has vectors for.
Covers(prepared, stored) == prepared = stored

ReadRows(c) ==
    /\ at[c] = "read" /\ op[c] = "rebuild"
    /\ IF Covers(Stored(rows[c]), Stored(records))
         THEN /\ rows' = [rows EXCEPT ![c] = Docs(records)]
              /\ at' = [at EXCEPT ![c] = "begin"]
              /\ UNCHANGED <<store, lock, writer, op, batch, next, unset,
                             granted, outcome>>
         ELSE Raise(c)

\* The first INSERT, UPDATE or DELETE opens the transaction.
Begin(c) ==
    /\ at[c] = "begin" /\ writer = Absent
    /\ writer' = c
    /\ at' = [at EXCEPT ![c] = "commit"]
    /\ UNCHANGED <<store, lock, job, outcome>>

Upserted(d) == [doc |-> [text |-> d.text, vector |-> d.vector],
                text |-> d.text, vector |-> d.vector]

\* The row of the full-text table is deleted and inserted again.
Indexed(d) == [index EXCEPT ![d.id] = d.text]

\* Mutant: the last chunk is forgotten.
More_ButLast(c) == next[c] + 1 < Len(batch[c])

\* ingest_text goes on to the next chunk.
More(c) == next[c] < Len(batch[c])

CommitUpsert(c) ==
    /\ at[c] = "commit" /\ op[c] = "upsert"
    /\ LET d == Current(c) IN
       /\ records' = [records EXCEPT ![d.id] = Upserted(d)]
       /\ index' = Indexed(d)
       /\ dimension' = IF unset[c] THEN d.vector ELSE dimension
    /\ Unlock(c)
    /\ \/ /\ More(c)
          /\ next' = [next EXCEPT ![c] = @ + 1]
          /\ unset' = [unset EXCEPT ![c] = FALSE]
          /\ at' = [at EXCEPT ![c] = "authorize"]
          /\ UNCHANGED <<op, batch, rows, granted, outcome>>
       \/ ~More(c) /\ Answer({c}, "stored")

\* The document read before is written back with its new vector.
Rebuilt(c, i) == [records[i] EXCEPT
                    !.doc = [text |-> rows[c][i].text, vector |-> Model[c]],
                    !.vector = Model[c]]

CommitRebuild(c) ==
    /\ at[c] = "commit" /\ op[c] = "rebuild"
    /\ records' = [i \in Ids |->
                     IF i \in Stored(rows[c]) THEN Rebuilt(c, i) ELSE records[i]]
    /\ dimension' = IF Stored(rows[c]) = {} THEN NoDim ELSE Model[c]
    /\ Unlock(c)
    /\ Answer({c}, "rebuilt")
    /\ UNCHANGED index

-----------------------------------------------------------------------------
(* A denial, an audit or model error, a closed connection, the writer's    *)
(* lock not free in 30 seconds, or any SQLite error.  Nobody gives up      *)
(* waiting for a retriever's lock.                                         *)
Fail(c) ==
    /\ at[c] \in Holding \cup {"authorize"}
    /\ Raise(c)

\* The process that owns a retriever dies; SQLite rolls its transaction back.
Die(r) ==
    LET gone == {c \in Callers : Uses[c] = r} IN
    /\ Answer(gone, "none")
    /\ lock' = [lock EXCEPT ![r] = Absent]
    /\ writer' = IF writer \in gone THEN Absent ELSE writer
    /\ UNCHANGED store

\* A retriever takes its callers on, whatever the answer.
Step(c) == \/ ReadDocuments(c) \/ Authorize(c) \/ Lock(c) \/ ReadDimension(c)
           \/ ReadExisting(c) \/ ReadRows(c) \/ Begin(c) \/ CommitUpsert(c)
           \/ CommitRebuild(c) \/ Fail(c)

Next == \/ \E c \in Callers : Remember(c) \/ Ingest(c) \/ Rebuild(c) \/ Step(c)
        \/ \E r \in Retrievers : Die(r)

Spec == Init /\ [][Next]_vars

-----------------------------------------------------------------------------
\* The variables keep their types; every stored row has both its columns.
TypeOK ==
    /\ records \in [Ids -> Records \cup {Absent}]
    /\ index \in [Ids -> Texts \cup {Absent}]
    /\ dimension \in Vectors
    /\ lock \in [Retrievers -> Callers \cup {Absent}]
    /\ writer \in Callers \cup {Absent}
    /\ at \in [Callers -> Points]
    /\ op \in [Callers -> {"upsert", "rebuild"}]
    /\ batch \in [Callers -> Seq(Incoming)]
    /\ next \in [Callers -> Nat \ {0}]
    /\ rows \in [Callers -> [Ids -> Documents \cup {Absent}]]
    /\ unset \in [Callers -> BOOLEAN]
    /\ granted \in [Callers -> SUBSET Ids]
    /\ outcome \in [Callers -> {"none", "stored", "rebuilt", "failed"}]

\* Every caller goes through the same retriever object.
OneRetriever == \A c, d \in Callers : Uses[c] = Uses[d]

\* "Embedding rebuild ... replaces the derived vectors in one SQLite
\* transaction" (docs/architecture/sqlite_vector_memory_integration.md), and
\* nothing else: what get() and search() return for a row, document_json,
\* says the same as the columns it was found by.  It does not hold when two
\* processes have a retriever each, because the documents a rebuild writes
\* back were read before its transaction.
ColumnsAgree == \A i \in Stored(records) :
    records[i].doc = [text |-> records[i].text, vector |-> records[i].vector]

\* "A single persisted and validated embedding dimension" (same document):
\* every stored vector has the dimension recorded in memory_metadata.  The
\* same reads break it.
SingleDimension == \A i \in Stored(records) : records[i].vector \in {NoDim, dimension}

\* Full-text search finds each record by its present text and by no other,
\* whatever transaction failed and whichever process died.
IndexAgrees == \A i \in Ids :
    index[i] = IF records[i] = Absent THEN Absent ELSE records[i].text

\* When ingest or remember answers with success, all its documents are in the
\* store, also those another caller's rebuild rewrote meanwhile.
StoredIsWhole == \A c \in Callers : outcome[c] = "stored" =>
    \A k \in 1..Len(batch[c]) : batch[c][k].id \in Stored(records)

\* A row changes only in the transaction of an operation that was authorized
\* to write that id: a rebuild rewrites no record it did not ask for, although
\* it lists the records, asks and reads them again in three separate steps.
WritesAuthorized ==
    [][\A i \in Ids : records'[i] # records[i] =>
          \E c \in Callers : writer = c /\ i \in granted[c]]_vars

-----------------------------------------------------------------------------
(* The inductive invariant. *)

LockInv ==
    /\ \A c \in Callers : at[c] \in Holding <=> lock[Uses[c]] = c
    /\ \A r \in Retrievers, c \in Callers : lock[r] = c => Uses[c] = r
    /\ \A c \in Callers : writer = c <=> at[c] = "commit"

BatchInv == \A c \in Callers :
    /\ op[c] = "upsert" /\ at[c] # "idle" => next[c] \in 1..Len(batch[c])
    /\ op[c] = "upsert" =>
         \A k \in 1..Len(batch[c]) :
            k < next[c] => batch[c][k].id \in Stored(records)
    /\ Stored(rows[c]) \subseteq Stored(records)
    /\ at[c] = "idle" => next[c] = 1
    /\ at[c] = "documents" => op[c] = "rebuild"
    /\ at[c] = "existing" => op[c] = "upsert" /\ Current(c).vector # NoDim

GrantInv == \A c \in Callers :
    at[c] \in Holding \cup {"lock"} => Asked(c) \subseteq granted[c]

\* What the lock's holder read is still so when it writes.
ReadInv == \A c \in Callers :
    /\ at[c] = "existing" => dimension = NoDim
    /\ at[c] \in {"begin", "commit"} /\ op[c] = "upsert" =>
         /\ unset[c] => dimension = NoDim /\ Current(c).vector # NoDim
         /\ ~unset[c] => Current(c).vector \in {NoDim, dimension}
    /\ at[c] \in {"begin", "commit"} /\ op[c] = "rebuild" => rows[c] = Docs(records)

\* The parts of the argument: lock and transaction agree, progress through a
\* batch is real, writes are granted, and with one retriever nothing an
\* operation read under the lock changes before its commit.
IInv == /\ TypeOK /\ LockInv /\ BatchInv /\ GrantInv /\ IndexAgrees /\ StoredIsWhole
        /\ OneRetriever => ReadInv /\ SingleDimension /\ ColumnsAgree
===============================================================================
