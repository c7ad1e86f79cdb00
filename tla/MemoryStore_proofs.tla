--------------------------- MODULE MemoryStore_proofs ---------------------------
(***************************************************************************)
(* Proofs about MemoryStore for any callers, retrievers, records, models   *)
(* and files.                                                              *)
(***************************************************************************)
EXTENDS MemoryStore, TLAPS

USE MemoryConstants DEF Holding, Points, store, job

\* The part of the invariant that needs a shared retriever.
Shared == OneRetriever => ReadInv /\ SingleDimension /\ ColumnsAgree

\* An empty store with idle callers.
LEMMA InitIInv == Init => IInv
<1> SUFFICES ASSUME Init PROVE IInv
  OBVIOUS
<1>1. TypeOK
  BY DEF Init, TypeOK, NoRows, Vectors
<1>2. LockInv /\ BatchInv /\ GrantInv
  BY DEF Init, LockInv, BatchInv, GrantInv
<1>3. IndexAgrees /\ StoredIsWhole
  BY DEF Init, IndexAgrees, StoredIsWhole, NoRows
<1>4. ReadInv /\ SingleDimension /\ ColumnsAgree
  BY DEF Init, ReadInv, SingleDimension, ColumnsAgree, Stored, NoRows
<1> QED
  BY <1>1, <1>2, <1>3, <1>4 DEF IInv

\* The document whose turn it is, is one.
LEMMA CurrentType ==
    ASSUME IInv, NEW c \in Callers, op[c] = "upsert", at[c] # "idle"
    PROVE  Current(c) \in Incoming
BY DEF IInv, TypeOK, BatchInv, Current

\* An upsert adds its id to the stored ones.
LEMMA UpsertGrows ==
    ASSUME IInv, NEW c \in Callers, CommitUpsert(c)
    PROVE  /\ Current(c) \in Incoming /\ Upserted(Current(c)) \in Records
           /\ Stored(records)' = Stored(records) \cup {Current(c).id}
<1>1. Current(c) \in Incoming
  BY CurrentType DEF CommitUpsert
<1>2. Upserted(Current(c)) \in Records
  BY <1>1 DEF Upserted, Records, Documents, Incoming
<1>3. records' = [records EXCEPT ![Current(c).id] = Upserted(Current(c))] /\ Current(c).id \in Ids
  BY <1>1 DEF CommitUpsert, Incoming
<1>4. Upserted(Current(c)) # Absent
  BY <1>2
<1> QED
  BY <1>1, <1>2, <1>3, <1>4 DEF IInv, TypeOK, Stored

\* A rebuild rewrites rows that are there, and leaves their text alone.
LEMMA RebuildKeeps ==
    ASSUME IInv, NEW c \in Callers, CommitRebuild(c)
    PROVE  /\ \A i \in Stored(rows[c]) :
                 /\ i \in Stored(records) /\ Rebuilt(c, i) \in Records
                 /\ Rebuilt(c, i).text = records[i].text
                 /\ Rebuilt(c, i).vector = Model[c]
                 /\ Rebuilt(c, i).doc = [text |-> rows[c][i].text, vector |-> Model[c]]
           /\ Stored(records)' = Stored(records)
<1>1. ASSUME NEW i \in Stored(rows[c])
      PROVE  i \in Stored(records) /\ records[i] \in Records /\ rows[c][i] \in Documents
  BY <1>1 DEF IInv, TypeOK, BatchInv, Stored
<1>2. ASSUME NEW i \in Stored(rows[c])
      PROVE  /\ Rebuilt(c, i) \in Records
             /\ Rebuilt(c, i).text = records[i].text
             /\ Rebuilt(c, i).vector = Model[c]
             /\ Rebuilt(c, i).doc = [text |-> rows[c][i].text, vector |-> Model[c]]
  BY <1>1, <1>2 DEF Rebuilt, Records, Documents
<1>3. ASSUME NEW i \in Stored(rows[c]) PROVE Rebuilt(c, i) # Absent
  BY <1>2, <1>3
<1>4. records' = [i \in Ids |-> IF i \in Stored(rows[c]) THEN Rebuilt(c, i) ELSE records[i]]
  BY DEF CommitRebuild
<1>5. Stored(records)' = Stored(records)
  BY <1>1, <1>3, <1>4 DEF Stored
<1> QED
  BY <1>1, <1>2, <1>5

\* A new operation has read and written nothing.
LEMMA StartIInv ==
    ASSUME IInv, NEW c \in Callers, NEW kind \in {"upsert", "rebuild"}, NEW docs \in Seq(Incoming), Start(c, kind, docs),
           kind = "upsert" => Len(docs) >= 1 /\ at' = [at EXCEPT ![c] = "authorize"],
           kind = "rebuild" => at' = [at EXCEPT ![c] = "documents"]
    PROVE  IInv'
<1>1. TypeOK'
  BY DEF IInv, TypeOK, Start
<1>2. LockInv'
  BY DEF IInv, TypeOK, Start, LockInv
<1>3. BatchInv'
  BY DEF IInv, TypeOK, Start, LockInv, BatchInv, Stored, Current
<1>4. GrantInv'
  BY DEF IInv, TypeOK, Start, LockInv, BatchInv, GrantInv, Asked, Current, Stored
<1>5. IndexAgrees'
  BY DEF IInv, TypeOK, Start, IndexAgrees
<1>6. StoredIsWhole'
  BY DEF IInv, TypeOK, Start, StoredIsWhole, BatchInv, Stored, Current
<1>7. Shared'
  BY DEF IInv, TypeOK, Start, LockInv, BatchInv, Shared, OneRetriever, ReadInv, SingleDimension, ColumnsAgree, Stored, Docs, Current
<1> QED
  BY <1>1, <1>2, <1>3, <1>4, <1>5, <1>6, <1>7 DEF IInv, Shared

\* An exception gives the lock and the transaction back and changes no row.
LEMMA RaiseIInv ==
    ASSUME IInv, NEW c \in Callers, Raise(c)
    PROVE  IInv'
<1>1. TypeOK'
  <2>1. batch' \in [Callers -> Seq(Incoming)]
    BY DEF IInv, TypeOK, Raise, Answer
  <2>2. rows' \in [Callers -> [Ids -> Documents \cup {Absent}]]
    BY DEF IInv, TypeOK, Raise, Answer, NoRows
  <2>3. unset' \in [Callers -> BOOLEAN] /\ granted' \in [Callers -> SUBSET Ids]
    BY DEF IInv, TypeOK, Raise, Answer
  <2>4. lock' \in [Retrievers -> Callers \cup {Absent}] /\ writer' \in Callers \cup {Absent}
    BY DEF IInv, TypeOK, Raise, Unlock
  <2>7. /\ at' \in [Callers -> Points] /\ op' \in [Callers -> {"upsert", "rebuild"}]
        /\ next' \in [Callers -> Nat \ {0}]
        /\ outcome' \in [Callers -> {"none", "stored", "rebuilt", "failed"}]
    BY DEF IInv, TypeOK, Raise, Answer
  <2>8. records' = records /\ index' = index /\ dimension' = dimension
    BY DEF Raise
  <2> QED
    BY <2>1, <2>2, <2>3, <2>4, <2>7, <2>8 DEF IInv, TypeOK
<1>2. LockInv'
  BY DEF IInv, TypeOK, Raise, Unlock, Answer, NoRows, LockInv
<1>3. BatchInv'
  BY DEF IInv, TypeOK, Raise, Unlock, Answer, NoRows, LockInv, BatchInv, Stored, Current
<1>4. GrantInv'
  BY DEF IInv, TypeOK, Raise, Unlock, Answer, NoRows, LockInv, BatchInv, GrantInv, Asked, Current, Stored
<1>5. IndexAgrees'
  BY DEF IInv, TypeOK, Raise, Unlock, Answer, NoRows, IndexAgrees
<1>6. StoredIsWhole'
  BY DEF IInv, TypeOK, Raise, Unlock, Answer, NoRows, StoredIsWhole, BatchInv, Stored, Current
<1>7. Shared'
  BY DEF IInv, TypeOK, Raise, Unlock, Answer, NoRows, LockInv, BatchInv, Shared, OneRetriever, ReadInv, SingleDimension, ColumnsAgree, Stored, Docs, Current
<1> QED
  BY <1>1, <1>2, <1>3, <1>4, <1>5, <1>6, <1>7 DEF IInv, Shared

\* Death gives back all that a retriever held.
LEMMA DieIInv ==
    ASSUME IInv, NEW r \in Retrievers, Die(r)
    PROVE  IInv'
<1>1. TypeOK'
  <2>1. batch' \in [Callers -> Seq(Incoming)]
    BY DEF IInv, TypeOK, Die, Answer
  <2>2. rows' \in [Callers -> [Ids -> Documents \cup {Absent}]]
    BY DEF IInv, TypeOK, Die, Answer, NoRows
  <2>3. unset' \in [Callers -> BOOLEAN] /\ granted' \in [Callers -> SUBSET Ids]
    BY DEF IInv, TypeOK, Die, Answer
  <2>4. lock' \in [Retrievers -> Callers \cup {Absent}] /\ writer' \in Callers \cup {Absent}
    BY DEF IInv, TypeOK, Die
  <2>7. /\ at' \in [Callers -> Points] /\ op' \in [Callers -> {"upsert", "rebuild"}]
        /\ next' \in [Callers -> Nat \ {0}]
        /\ outcome' \in [Callers -> {"none", "stored", "rebuilt", "failed"}]
    BY DEF IInv, TypeOK, Die, Answer
  <2>8. records' = records /\ index' = index /\ dimension' = dimension
    BY DEF Die
  <2> QED
    BY <2>1, <2>2, <2>3, <2>4, <2>7, <2>8 DEF IInv, TypeOK
<1>2. LockInv'
  BY DEF IInv, TypeOK, Die, Answer, NoRows, LockInv
<1>3. BatchInv'
  BY DEF IInv, TypeOK, Die, Answer, NoRows, LockInv, BatchInv, Stored, Current
<1>4. GrantInv'
  BY DEF IInv, TypeOK, Die, Answer, NoRows, LockInv, BatchInv, GrantInv, Asked, Current, Stored
<1>5. IndexAgrees'
  BY DEF IInv, TypeOK, Die, Answer, NoRows, IndexAgrees
<1>6. StoredIsWhole'
  BY DEF IInv, TypeOK, Die, Answer, NoRows, StoredIsWhole, BatchInv, Stored, Current
<1>7. Shared'
  BY DEF IInv, TypeOK, Die, Answer, NoRows, LockInv, BatchInv, Shared, OneRetriever, ReadInv, SingleDimension, ColumnsAgree, Stored, Docs, Current
<1> QED
  BY <1>1, <1>2, <1>3, <1>4, <1>5, <1>6, <1>7 DEF IInv, Shared

\* An upsert that passed its test goes on with what it read.
LEMMA ProceedIInv ==
    ASSUME IInv, NEW c \in Callers, NEW point \in {"begin", "existing"}, NEW inserts \in BOOLEAN, Proceed(c, point, inserts),
           op[c] = "upsert", at[c] \in {"read", "existing"},
           point = "existing" => dimension = NoDim /\ Current(c).vector # NoDim,
           OneRetriever /\ point = "begin" /\ inserts => dimension = NoDim /\ Current(c).vector # NoDim,
           point = "begin" /\ ~inserts => Current(c).vector \in {NoDim, dimension}
    PROVE  IInv'
<1>1. TypeOK'
  BY DEF IInv, TypeOK, Proceed
<1>2. LockInv'
  BY DEF IInv, TypeOK, Proceed, LockInv
<1>3. BatchInv'
  BY DEF IInv, TypeOK, Proceed, LockInv, BatchInv, Stored, Current
<1>4. GrantInv'
  BY DEF IInv, TypeOK, Proceed, LockInv, BatchInv, GrantInv, Asked, Current, Stored
<1>5. IndexAgrees'
  BY DEF IInv, TypeOK, Proceed, IndexAgrees
<1>6. StoredIsWhole'
  BY DEF IInv, TypeOK, Proceed, StoredIsWhole, BatchInv, Stored, Current
<1>7. Shared'
  BY DEF IInv, TypeOK, Proceed, LockInv, BatchInv, Shared, OneRetriever, ReadInv, SingleDimension, ColumnsAgree, Stored, Docs, Current
<1> QED
  BY <1>1, <1>2, <1>3, <1>4, <1>5, <1>6, <1>7 DEF IInv, Shared

\* A rebuild lists the records.
LEMMA ReadDocumentsIInv ==
    ASSUME IInv, NEW c \in Callers, ReadDocuments(c)
    PROVE  IInv'
<1>1. TypeOK'
  <2>1. Docs(records) \in [Ids -> Documents \cup {Absent}]
    BY DEF IInv, TypeOK, Docs, Records
  <2> QED
    BY <2>1 DEF IInv, TypeOK, ReadDocuments
<1>2. LockInv'
  BY DEF IInv, TypeOK, ReadDocuments, Docs, LockInv
<1>3. BatchInv'
  BY DEF IInv, TypeOK, ReadDocuments, Docs, LockInv, BatchInv, Stored, Current
<1>4. GrantInv'
  BY DEF IInv, TypeOK, ReadDocuments, Docs, LockInv, BatchInv, GrantInv, Asked, Current, Stored
<1>5. IndexAgrees'
  BY DEF IInv, TypeOK, ReadDocuments, Docs, IndexAgrees
<1>6. StoredIsWhole'
  BY DEF IInv, TypeOK, ReadDocuments, Docs, StoredIsWhole, BatchInv, Stored, Current
<1>7. Shared'
  BY DEF IInv, TypeOK, ReadDocuments, Docs, LockInv, BatchInv, Shared, OneRetriever, ReadInv, SingleDimension, ColumnsAgree, Stored, Current
<1> QED
  BY <1>1, <1>2, <1>3, <1>4, <1>5, <1>6, <1>7 DEF IInv, Shared

\* The ids asked for are granted.
LEMMA AuthorizeIInv ==
    ASSUME IInv, NEW c \in Callers, Authorize(c)
    PROVE  IInv'
<1>1. TypeOK'
  <2>1. Asked(c) \subseteq Ids
    <3>1. CASE op[c] = "rebuild"
      BY <3>1 DEF Asked, Stored
    <3>2. CASE op[c] = "upsert"
      <4>1. Current(c) \in Incoming
        BY <3>2, CurrentType DEF Authorize
      <4> QED
        BY <3>2, <4>1 DEF Asked, Incoming
    <3> QED
      BY <3>1, <3>2 DEF IInv, TypeOK
  <2> QED
    BY <2>1 DEF IInv, TypeOK, Authorize
<1>2. LockInv'
  BY DEF IInv, TypeOK, Authorize, Asked, LockInv
<1>3. BatchInv'
  BY DEF IInv, TypeOK, Authorize, Asked, LockInv, BatchInv, Stored, Current
<1>4. GrantInv'
  BY DEF IInv, TypeOK, Authorize, Asked, LockInv, BatchInv, GrantInv, Current, Stored
<1>5. IndexAgrees'
  BY DEF IInv, TypeOK, Authorize, Asked, IndexAgrees
<1>6. StoredIsWhole'
  BY DEF IInv, TypeOK, Authorize, Asked, StoredIsWhole, BatchInv, Stored, Current
<1>7. Shared'
  BY DEF IInv, TypeOK, Authorize, Asked, LockInv, BatchInv, Shared, OneRetriever, ReadInv, SingleDimension, ColumnsAgree, Stored, Docs, Current
<1> QED
  BY <1>1, <1>2, <1>3, <1>4, <1>5, <1>6, <1>7 DEF IInv, Shared

\* A free lock is taken.
LEMMA LockIInv ==
    ASSUME IInv, NEW c \in Callers, Lock(c)
    PROVE  IInv'
<1>1. TypeOK'
  BY DEF IInv, TypeOK, Lock
<1>2. LockInv'
  BY DEF IInv, TypeOK, Lock, LockInv
<1>3. BatchInv'
  BY DEF IInv, TypeOK, Lock, LockInv, BatchInv, Stored, Current
<1>4. GrantInv'
  BY DEF IInv, TypeOK, Lock, LockInv, BatchInv, GrantInv, Asked, Current, Stored
<1>5. IndexAgrees'
  BY DEF IInv, TypeOK, Lock, IndexAgrees
<1>6. StoredIsWhole'
  BY DEF IInv, TypeOK, Lock, StoredIsWhole, BatchInv, Stored, Current
<1>7. Shared'
  BY DEF IInv, TypeOK, Lock, LockInv, BatchInv, Shared, OneRetriever, ReadInv, SingleDimension, ColumnsAgree, Stored, Docs, Current
<1> QED
  BY <1>1, <1>2, <1>3, <1>4, <1>5, <1>6, <1>7 DEF IInv, Shared

\* The rows of a rebuild are read under the lock.
LEMMA ReadRowsIInv ==
    ASSUME IInv, NEW c \in Callers, ReadRows(c), Covers(Stored(rows[c]), Stored(records))
    PROVE  IInv'
<1>1. TypeOK'
  <2>1. Docs(records) \in [Ids -> Documents \cup {Absent}]
    BY DEF IInv, TypeOK, Docs, Records
  <2>2. /\ rows' = [rows EXCEPT ![c] = Docs(records)] /\ at' = [at EXCEPT ![c] = "begin"]
        /\ UNCHANGED <<store, lock, writer, op, batch, next, unset, granted, outcome>>
    BY DEF ReadRows
  <2> QED
    BY <2>1, <2>2 DEF IInv, TypeOK
<1>2. LockInv'
  BY DEF IInv, TypeOK, ReadRows, Covers, Docs, LockInv
<1>3. BatchInv'
  BY DEF IInv, TypeOK, ReadRows, Covers, Docs, LockInv, BatchInv, Stored, Current
<1>4. GrantInv'
  <2>1. /\ rows' = [rows EXCEPT ![c] = Docs(records)] /\ at' = [at EXCEPT ![c] = "begin"]
        /\ op[c] = "rebuild" /\ at[c] = "read" /\ UNCHANGED <<op, batch, next, granted>>
    BY DEF ReadRows
  <2>2. Stored(Docs(records)) = Stored(records)
    BY DEF IInv, TypeOK, Stored, Docs, Records
  <2>3. Asked(c)' = Asked(c)
    BY <2>1, <2>2 DEF IInv, TypeOK, Asked, Covers
  <2>4. ASSUME NEW x \in Callers, x # c PROVE at'[x] = at[x] /\ Asked(x)' = Asked(x)
    BY <2>1, <2>4 DEF IInv, TypeOK, Asked, Current
  <2> QED
    BY <2>1, <2>3, <2>4 DEF IInv, TypeOK, GrantInv
<1>5. IndexAgrees'
  BY DEF IInv, TypeOK, ReadRows, Covers, Docs, IndexAgrees
<1>6. StoredIsWhole'
  BY DEF IInv, TypeOK, ReadRows, Covers, Docs, StoredIsWhole, BatchInv, Stored, Current
<1>7. Shared'
  BY DEF IInv, TypeOK, ReadRows, Covers, Docs, LockInv, BatchInv, Shared, OneRetriever, ReadInv, SingleDimension, ColumnsAgree, Stored, Current
<1> QED
  BY <1>1, <1>2, <1>3, <1>4, <1>5, <1>6, <1>7 DEF IInv, Shared

\* A transaction opens when there is no other.
LEMMA BeginIInv ==
    ASSUME IInv, NEW c \in Callers, Begin(c)
    PROVE  IInv'
<1>1. TypeOK'
  BY DEF IInv, TypeOK, Begin
<1>2. LockInv'
  BY DEF IInv, TypeOK, Begin, LockInv
<1>3. BatchInv'
  BY DEF IInv, TypeOK, Begin, LockInv, BatchInv, Stored, Current
<1>4. GrantInv'
  BY DEF IInv, TypeOK, Begin, LockInv, BatchInv, GrantInv, Asked, Current, Stored
<1>5. IndexAgrees'
  BY DEF IInv, TypeOK, Begin, IndexAgrees
<1>6. StoredIsWhole'
  BY DEF IInv, TypeOK, Begin, StoredIsWhole, BatchInv, Stored, Current
<1>7. Shared'
  BY DEF IInv, TypeOK, Begin, LockInv, BatchInv, Shared, OneRetriever, ReadInv, SingleDimension, ColumnsAgree, Stored, Docs, Current
<1> QED
  BY <1>1, <1>2, <1>3, <1>4, <1>5, <1>6, <1>7 DEF IInv, Shared

\* A chunk is stored and there is another.
LEMMA CommitNextIInv ==
    ASSUME IInv, NEW c \in Callers, CommitUpsert(c), More(c)
    PROVE  IInv'
<1>1. TypeOK'
  <2>1. Current(c) \in Incoming
    BY UpsertGrows
  <2>2. Upserted(Current(c)) \in Records
    BY UpsertGrows
  <2>3. records' \in [Ids -> Records \cup {Absent}]
    BY <2>1, <2>2 DEF IInv, TypeOK, CommitUpsert, Incoming
  <2>4. index' \in [Ids -> Texts \cup {Absent}] /\ dimension' \in Vectors
    BY <2>1 DEF IInv, TypeOK, CommitUpsert, Indexed, Incoming
  <2>5. lock' \in [Retrievers -> Callers \cup {Absent}] /\ writer' \in Callers \cup {Absent}
    BY DEF IInv, TypeOK, CommitUpsert, Unlock
  <2>6. /\ next' = [next EXCEPT ![c] = @ + 1] /\ unset' = [unset EXCEPT ![c] = FALSE]
        /\ at' = [at EXCEPT ![c] = "authorize"] /\ UNCHANGED <<op, batch, rows, granted, outcome>>
    BY DEF CommitUpsert
  <2>7. next' \in [Callers -> Nat \ {0}] /\ unset' \in [Callers -> BOOLEAN] /\ at' \in [Callers -> Points]
    BY <2>6 DEF IInv, TypeOK
  <2> QED
    BY <2>3, <2>4, <2>5, <2>6, <2>7 DEF IInv, TypeOK
<1>2. LockInv'
  <2>1. at' = [at EXCEPT ![c] = "authorize"]
    BY DEF IInv, TypeOK, CommitUpsert
  <2> QED
    BY <2>1 DEF IInv, TypeOK, LockInv, CommitUpsert, Unlock
<1>3. BatchInv'
  <2>1. Stored(records)' = Stored(records) \cup {Current(c).id}
    BY UpsertGrows
  <2>2. /\ next' = [next EXCEPT ![c] = @ + 1] /\ at' = [at EXCEPT ![c] = "authorize"]
        /\ UNCHANGED <<op, batch, rows, granted>> /\ next[c] < Len(batch[c]) /\ op[c] = "upsert"
    BY DEF CommitUpsert, More
  <2>3. \A x \in Callers : x # c =>
           /\ at'[x] = at[x] /\ op'[x] = op[x] /\ next'[x] = next[x] /\ batch'[x] = batch[x]
           /\ rows'[x] = rows[x] /\ granted'[x] = granted[x] /\ Current(x)' = Current(x)
    BY <2>2 DEF IInv, TypeOK, Current
  <2>4. /\ at'[c] = "authorize" /\ op'[c] = op[c] /\ next'[c] = next[c] + 1
        /\ batch'[c] = batch[c] /\ rows'[c] = rows[c]
    BY <2>2 DEF IInv, TypeOK
  <2>5. next[c] \in 1..Len(batch[c]) /\ Len(batch[c]) \in Nat /\ next'[c] \in 1..Len(batch[c])
    BY <2>2, <2>4 DEF IInv, TypeOK, BatchInv, CommitUpsert
  <2>6. ASSUME NEW k \in 1..Len(batch[c]), k < next'[c] PROVE batch[c][k].id \in Stored(records)'
    <3>1. CASE k < next[c]
      BY <2>1, <2>2, <3>1 DEF IInv, BatchInv
    <3>2. CASE k = next[c]
      BY <2>1, <3>2 DEF Current
    <3> QED
      BY <2>4, <2>5, <2>6, <3>1, <3>2
  <2> QED
    BY <2>1, <2>3, <2>4, <2>5, <2>6 DEF IInv, BatchInv
<1>4. GrantInv'
  <2>1. at' = [at EXCEPT ![c] = "authorize"] /\ UNCHANGED <<op, batch, rows, granted>>
        /\ next' = [next EXCEPT ![c] = @ + 1]
    BY DEF CommitUpsert
  <2>2. at'[c] = "authorize"
    BY <2>1 DEF IInv, TypeOK
  <2>3. ASSUME NEW x \in Callers, x # c
        PROVE  at'[x] = at[x] /\ granted'[x] = granted[x] /\ Asked(x)' = Asked(x)
    BY <2>1, <2>3 DEF IInv, TypeOK, Asked, Current
  <2> QED
    BY <2>2, <2>3 DEF IInv, GrantInv
<1>5. IndexAgrees'
  <2>1. Current(c) \in Incoming
    BY UpsertGrows
  <2>2. Upserted(Current(c)) \in Records
    BY UpsertGrows
  <2> QED
    BY <2>1, <2>2 DEF IInv, TypeOK, CommitUpsert, Indexed, IndexAgrees, Upserted, Incoming
<1>6. StoredIsWhole'
  <2>1. Stored(records)' = Stored(records) \cup {Current(c).id}
    BY UpsertGrows
  <2> QED
    BY <2>1 DEF IInv, TypeOK, StoredIsWhole, CommitUpsert
<1>7. Shared'
  <2> SUFFICES ASSUME OneRetriever PROVE (ReadInv /\ SingleDimension /\ ColumnsAgree)'
    BY DEF Shared, OneRetriever
  <2>1. ReadInv /\ SingleDimension /\ ColumnsAgree
    BY DEF IInv
  <2>2. at[c] = "commit" /\ op[c] = "upsert" /\ at'[c] \in {"authorize", "idle"}
        /\ \A x \in Callers : x # c => at'[x] = at[x]
    BY DEF IInv, TypeOK, CommitUpsert
  <2>3. \A x \in Callers : at'[x] \notin Holding
    BY <2>2 DEF IInv, LockInv, OneRetriever
  <2>4. ReadInv'
    BY <2>3 DEF ReadInv
  <2>5. /\ Current(c) \in Incoming /\ Stored(records)' = Stored(records) \cup {Current(c).id}
        /\ records' = [records EXCEPT ![Current(c).id] = Upserted(Current(c))]
        /\ dimension' = IF unset[c] THEN Current(c).vector ELSE dimension
    BY UpsertGrows DEF CommitUpsert
  <2>6. /\ records'[Current(c).id] = Upserted(Current(c))
        /\ \A i \in Stored(records) : i # Current(c).id => records'[i] = records[i]
    BY <2>5 DEF IInv, TypeOK, Incoming, Stored
  <2>7. SingleDimension'
    <3>1. CASE unset[c]
      <4>1. dimension = NoDim /\ dimension' = Current(c).vector
        BY <2>1, <2>2, <2>5, <3>1 DEF ReadInv
      <4> QED
        BY <2>1, <2>5, <2>6, <4>1 DEF SingleDimension, Upserted
    <3>2. CASE ~unset[c]
      <4>1. Current(c).vector \in {NoDim, dimension} /\ dimension' = dimension
        BY <2>1, <2>2, <2>5, <3>2 DEF ReadInv
      <4> QED
        BY <2>1, <2>5, <2>6, <4>1 DEF SingleDimension, Upserted
    <3> QED
      BY <3>1, <3>2
  <2>8. ColumnsAgree'
    BY <2>1, <2>5, <2>6 DEF ColumnsAgree, Upserted
  <2> QED
    BY <2>4, <2>7, <2>8
<1> QED
  BY <1>1, <1>2, <1>3, <1>4, <1>5, <1>6, <1>7 DEF IInv, Shared

\* The last document is stored.
LEMMA CommitLastIInv ==
    ASSUME IInv, NEW c \in Callers, CommitUpsert(c), ~More(c)
    PROVE  IInv'
<1>1. TypeOK'
  <2>1. Current(c) \in Incoming
    BY UpsertGrows
  <2>2. Upserted(Current(c)) \in Records
    BY UpsertGrows
  <2>3. records' \in [Ids -> Records \cup {Absent}]
    BY <2>1, <2>2 DEF IInv, TypeOK, CommitUpsert, Incoming
  <2>4. index' \in [Ids -> Texts \cup {Absent}] /\ dimension' \in Vectors
    BY <2>1 DEF IInv, TypeOK, CommitUpsert, Indexed, Incoming
  <2>5. lock' \in [Retrievers -> Callers \cup {Absent}] /\ writer' \in Callers \cup {Absent}
    BY DEF IInv, TypeOK, CommitUpsert, Unlock
  <2>6. Answer({c}, "stored")
    BY DEF CommitUpsert
  <2>7. batch' \in [Callers -> Seq(Incoming)]
    BY <2>6 DEF IInv, TypeOK, Answer
  <2>8. rows' \in [Callers -> [Ids -> Documents \cup {Absent}]]
    BY <2>6 DEF IInv, TypeOK, Answer, NoRows
  <2>9. unset' \in [Callers -> BOOLEAN] /\ granted' \in [Callers -> SUBSET Ids]
    BY <2>6 DEF IInv, TypeOK, Answer
  <2>10. /\ at' \in [Callers -> Points] /\ op' \in [Callers -> {"upsert", "rebuild"}]
         /\ next' \in [Callers -> Nat \ {0}]
         /\ outcome' \in [Callers -> {"none", "stored", "rebuilt", "failed"}]
    BY <2>6 DEF IInv, TypeOK, Answer
  <2> QED
    BY <2>3, <2>4, <2>5, <2>7, <2>8, <2>9, <2>10 DEF TypeOK
<1>2. LockInv'
  <2>1. at' = [at EXCEPT ![c] = "idle"]
    BY DEF IInv, TypeOK, CommitUpsert, Answer
  <2> QED
    BY <2>1 DEF IInv, TypeOK, LockInv, CommitUpsert, Unlock
<1>3. BatchInv'
  <2>1. Stored(records) \subseteq Stored(records)' /\ Answer({c}, "stored")
    BY UpsertGrows DEF CommitUpsert
  <2>2. \A x \in Callers : x # c =>
           /\ at'[x] = at[x] /\ op'[x] = op[x] /\ next'[x] = next[x] /\ batch'[x] = batch[x]
           /\ rows'[x] = rows[x] /\ granted'[x] = granted[x] /\ Current(x)' = Current(x)
    BY <2>1 DEF IInv, TypeOK, Current, Answer
  <2>3. at'[c] = "idle" /\ next'[c] = 1 /\ rows'[c] = NoRows
    BY <2>1 DEF Answer
  <2>4. Stored(NoRows) = {}
    BY DEF Stored, NoRows
  <2>5. \A k \in 1..Len(batch'[c]) : ~(k < next'[c])
    BY <2>3
  <2> QED
    BY <2>1, <2>2, <2>3, <2>4, <2>5 DEF IInv, BatchInv
<1>4. GrantInv'
  <2>1. Answer({c}, "stored")
    BY DEF CommitUpsert
  <2>2. at'[c] = "idle"
    BY <2>1 DEF Answer
  <2>3. ASSUME NEW x \in Callers, x # c
        PROVE  at'[x] = at[x] /\ granted'[x] = granted[x] /\ Asked(x)' = Asked(x)
    BY <2>1, <2>3 DEF IInv, TypeOK, Answer, Asked, Current
  <2> QED
    BY <2>2, <2>3 DEF IInv, GrantInv
<1>5. IndexAgrees'
  <2>1. Current(c) \in Incoming
    BY UpsertGrows
  <2>2. Upserted(Current(c)) \in Records
    BY UpsertGrows
  <2> QED
    BY <2>1, <2>2 DEF IInv, TypeOK, CommitUpsert, Indexed, IndexAgrees, Upserted, Incoming
<1>6. StoredIsWhole'
  <2>1. Stored(records)' = Stored(records) \cup {Current(c).id}
    BY UpsertGrows
  <2>2. Answer({c}, "stored") /\ ~(next[c] < Len(batch[c])) /\ op[c] = "upsert" /\ at[c] = "commit"
    BY DEF CommitUpsert, More
  <2>3. next[c] \in 1..Len(batch[c]) /\ Len(batch[c]) \in Nat
    BY <2>2 DEF IInv, TypeOK, BatchInv
  <2>4. next[c] = Len(batch[c])
    BY <2>2, <2>3
  <2>5. ASSUME NEW k \in 1..Len(batch[c]) PROVE batch[c][k].id \in Stored(records)'
    <3>1. CASE k < next[c]
      BY <2>1, <2>2, <3>1 DEF IInv, BatchInv
    <3>2. CASE k = next[c]
      BY <2>1, <3>2 DEF Current
    <3> QED
      BY <2>3, <2>4, <3>1, <3>2
  <2>6. batch' = batch
    BY <2>2 DEF IInv, TypeOK, Answer
  <2> QED
    BY <2>1, <2>2, <2>5, <2>6 DEF IInv, TypeOK, StoredIsWhole, Answer
<1>7. Shared'
  <2> SUFFICES ASSUME OneRetriever PROVE (ReadInv /\ SingleDimension /\ ColumnsAgree)'
    BY DEF Shared, OneRetriever
  <2>1. ReadInv /\ SingleDimension /\ ColumnsAgree
    BY DEF IInv
  <2>2. at[c] = "commit" /\ op[c] = "upsert" /\ at'[c] \in {"authorize", "idle"}
        /\ \A x \in Callers : x # c => at'[x] = at[x]
    <3>1. Answer({c}, "stored") /\ at[c] = "commit" /\ op[c] = "upsert"
      BY DEF CommitUpsert
    <3> QED
      BY <3>1 DEF Answer
  <2>3. \A x \in Callers : at'[x] \notin Holding
    BY <2>2 DEF IInv, LockInv, OneRetriever
  <2>4. ReadInv'
    BY <2>3 DEF ReadInv
  <2>5. /\ Current(c) \in Incoming /\ Stored(records)' = Stored(records) \cup {Current(c).id}
        /\ records' = [records EXCEPT ![Current(c).id] = Upserted(Current(c))]
        /\ dimension' = IF unset[c] THEN Current(c).vector ELSE dimension
    BY UpsertGrows DEF CommitUpsert
  <2>6. /\ records'[Current(c).id] = Upserted(Current(c))
        /\ \A i \in Stored(records) : i # Current(c).id => records'[i] = records[i]
    BY <2>5 DEF IInv, TypeOK, Incoming, Stored
  <2>7. SingleDimension'
    <3>1. CASE unset[c]
      <4>1. dimension = NoDim /\ dimension' = Current(c).vector
        BY <2>1, <2>2, <2>5, <3>1 DEF ReadInv
      <4> QED
        BY <2>1, <2>5, <2>6, <4>1 DEF SingleDimension, Upserted
    <3>2. CASE ~unset[c]
      <4>1. Current(c).vector \in {NoDim, dimension} /\ dimension' = dimension
        BY <2>1, <2>2, <2>5, <3>2 DEF ReadInv
      <4> QED
        BY <2>1, <2>5, <2>6, <4>1 DEF SingleDimension, Upserted
    <3> QED
      BY <3>1, <3>2
  <2>8. ColumnsAgree'
    BY <2>1, <2>5, <2>6 DEF ColumnsAgree, Upserted
  <2> QED
    BY <2>4, <2>7, <2>8
<1> QED
  BY <1>1, <1>2, <1>3, <1>4, <1>5, <1>6, <1>7 DEF IInv, Shared

\* Every vector is replaced.
LEMMA CommitRebuildIInv ==
    ASSUME IInv, NEW c \in Callers, CommitRebuild(c)
    PROVE  IInv'
<1>1. TypeOK'
  <2>1. Answer({c}, "rebuilt")
    BY DEF CommitRebuild
  <2>2. batch' \in [Callers -> Seq(Incoming)]
    BY <2>1 DEF IInv, TypeOK, Answer
  <2>3. rows' \in [Callers -> [Ids -> Documents \cup {Absent}]]
    BY <2>1 DEF IInv, TypeOK, Answer, NoRows
  <2>4. unset' \in [Callers -> BOOLEAN] /\ granted' \in [Callers -> SUBSET Ids]
    BY <2>1 DEF IInv, TypeOK, Answer
  <2>5. lock' \in [Retrievers -> Callers \cup {Absent}] /\ writer' \in Callers \cup {Absent}
    BY DEF IInv, TypeOK, CommitRebuild, Unlock
  <2>6. dimension' \in Vectors
    BY DEF IInv, TypeOK, CommitRebuild, Vectors
  <2>7. \A i \in Stored(rows[c]) : Rebuilt(c, i) \in Records
    BY RebuildKeeps
  <2>8. records' \in [Ids -> Records \cup {Absent}]
    BY <2>7 DEF IInv, TypeOK, CommitRebuild
  <2>10. /\ at' \in [Callers -> Points] /\ op' \in [Callers -> {"upsert", "rebuild"}]
         /\ next' \in [Callers -> Nat \ {0}]
         /\ outcome' \in [Callers -> {"none", "stored", "rebuilt", "failed"}]
    BY <2>1 DEF IInv, TypeOK, Answer
  <2>11. index' = index
    BY DEF CommitRebuild
  <2> QED
    BY <2>2, <2>3, <2>4, <2>5, <2>6, <2>8, <2>10, <2>11 DEF IInv, TypeOK
<1>2. LockInv'
  <2>1. at' = [at EXCEPT ![c] = "idle"]
    BY DEF IInv, TypeOK, CommitRebuild, Answer
  <2> QED
    BY <2>1 DEF IInv, TypeOK, LockInv, CommitRebuild, Unlock
<1>3. BatchInv'
  <2>1. Stored(records) \subseteq Stored(records)' /\ Answer({c}, "rebuilt")
    BY RebuildKeeps DEF CommitRebuild
  <2>2. \A x \in Callers : x # c =>
           /\ at'[x] = at[x] /\ op'[x] = op[x] /\ next'[x] = next[x] /\ batch'[x] = batch[x]
           /\ rows'[x] = rows[x] /\ granted'[x] = granted[x] /\ Current(x)' = Current(x)
    BY <2>1 DEF IInv, TypeOK, Current, Answer
  <2>3. at'[c] = "idle" /\ next'[c] = 1 /\ rows'[c] = NoRows
    BY <2>1 DEF Answer
  <2>4. Stored(NoRows) = {}
    BY DEF Stored, NoRows
  <2>5. \A k \in 1..Len(batch'[c]) : ~(k < next'[c])
    BY <2>3
  <2> QED
    BY <2>1, <2>2, <2>3, <2>4, <2>5 DEF IInv, BatchInv
<1>4. GrantInv'
  <2>1. Answer({c}, "rebuilt")
    BY DEF CommitRebuild
  <2>2. at'[c] = "idle"
    BY <2>1 DEF Answer
  <2>3. ASSUME NEW x \in Callers, x # c
        PROVE  at'[x] = at[x] /\ granted'[x] = granted[x] /\ Asked(x)' = Asked(x)
    BY <2>1, <2>3 DEF IInv, TypeOK, Answer, Asked, Current
  <2> QED
    BY <2>2, <2>3 DEF IInv, GrantInv
<1>5. IndexAgrees'
  <2>1. records' = [i \in Ids |-> IF i \in Stored(rows[c]) THEN Rebuilt(c, i) ELSE records[i]]
    BY DEF CommitRebuild
  <2>2. \A i \in Stored(rows[c]) : Rebuilt(c, i) # Absent /\ records[i] # Absent
                                 /\ Rebuilt(c, i).text = records[i].text
    <3>1. \A i \in Stored(rows[c]) : Rebuilt(c, i) \in Records
      BY RebuildKeeps
    <3>2. \A i \in Stored(rows[c]) : Rebuilt(c, i) # Absent
      BY <3>1
    <3>3. \A i \in Stored(rows[c]) : i \in Stored(records) /\ Rebuilt(c, i).text = records[i].text
      BY RebuildKeeps
    <3> QED
      BY <3>2, <3>3 DEF Stored
  <2> QED
    BY <2>1, <2>2 DEF IInv, IndexAgrees, CommitRebuild
<1>6. StoredIsWhole'
  <2>1. Stored(records)' = Stored(records) /\ Answer({c}, "rebuilt")
    BY RebuildKeeps DEF CommitRebuild
  <2> QED
    BY <2>1 DEF IInv, TypeOK, StoredIsWhole, Answer
<1>7. Shared'
  <2> SUFFICES ASSUME OneRetriever PROVE (ReadInv /\ SingleDimension /\ ColumnsAgree)'
    BY DEF Shared, OneRetriever
  <2>1. ReadInv /\ SingleDimension /\ ColumnsAgree
    BY DEF IInv
  <2>2. at[c] = "commit" /\ op[c] = "rebuild" /\ at'[c] = "idle"
        /\ \A x \in Callers : x # c => at'[x] = at[x]
    BY DEF IInv, TypeOK, CommitRebuild, Answer
  <2>3. \A x \in Callers : at'[x] \notin Holding
    BY <2>2 DEF IInv, LockInv, OneRetriever
  <2>4. ReadInv'
    BY <2>3 DEF ReadInv
  <2>5. rows[c] = Docs(records)
    BY <2>1, <2>2 DEF ReadInv
  <2>6. \A i \in Stored(records) : records[i] \in Records /\ records[i].doc # Absent /\ i \in Ids
    BY DEF IInv, TypeOK, Stored, Records
  <2>7. Stored(rows[c]) = Stored(records)
        /\ \A i \in Stored(records) : rows[c][i] = records[i].doc
    BY <2>5, <2>6 DEF Stored, Docs
  <2>8. Stored(records)' = Stored(records)
        /\ \A i \in Stored(records) : records'[i] = Rebuilt(c, i)
    BY <2>6, <2>7, RebuildKeeps DEF CommitRebuild
  <2>9. \A i \in Stored(records) :
           /\ Rebuilt(c, i).text = records[i].text /\ Rebuilt(c, i).vector = Model[c]
           /\ Rebuilt(c, i).doc = [text |-> rows[c][i].text, vector |-> Model[c]]
    BY <2>7, RebuildKeeps
  <2>10. SingleDimension'
    BY <2>7, <2>8, <2>9 DEF SingleDimension, CommitRebuild
  <2>11. \A i \in Stored(records) : rows[c][i].text = records[i].text
    <3> TAKE i \in Stored(records)
    <3>1. records[i].doc = [text |-> records[i].text, vector |-> records[i].vector]
      BY <2>1 DEF ColumnsAgree
    <3>2. records[i].doc.text = records[i].text
      BY <3>1
    <3> QED
      BY <2>7, <3>2
  <2>12. ColumnsAgree'
    <3> SUFFICES ASSUME NEW i \in Stored(records)
                 PROVE  records'[i].doc = [text |-> records'[i].text, vector |-> records'[i].vector]
      BY <2>8 DEF ColumnsAgree
    <3>1. records'[i] = Rebuilt(c, i) /\ rows[c][i].text = records[i].text
      BY <2>8, <2>11
    <3> QED
      BY <2>9, <3>1
  <2> QED
    BY <2>4, <2>10, <2>12
<1> QED
  BY <1>1, <1>2, <1>3, <1>4, <1>5, <1>6, <1>7 DEF IInv, Shared

\* With no recorded dimension an upsert may insert its own.
LEMMA ExistingIInv ==
    ASSUME IInv, NEW c \in Callers, ReadExisting(c), Proceed(c, "begin", TRUE)
    PROVE  IInv'
<1>1. at[c] = "existing" /\ op[c] = "upsert" /\ Current(c).vector # NoDim
  BY DEF IInv, ReadExisting, BatchInv
<1>2. OneRetriever => dimension = NoDim
  BY <1>1 DEF IInv, ReadInv
<1> QED
  BY <1>1, <1>2, ProceedIInv

\* Every step of every caller, and every death, preserves the invariant.
LEMMA StepIInv == IInv /\ [Next]_vars => IInv'
<1> SUFFICES ASSUME IInv, [Next]_vars PROVE IInv'
  OBVIOUS
<1>1. ASSUME NEW c \in Callers, Remember(c) PROVE IInv'
  <2> PICK d \in Remembered : Start(c, "upsert", <<d>>) /\ at' = [at EXCEPT ![c] = "authorize"]
    BY <1>1 DEF Remember
  <2>1. d \in Incoming
    OBVIOUS
  <2> DEFINE docs == <<d>>
  <2>2. docs \in Seq(Incoming) /\ Len(docs) >= 1 /\ Start(c, "upsert", docs)
    BY <2>1
  <2> HIDE DEF docs
  <2> QED
    BY <2>2, StartIInv
<1>2. ASSUME NEW c \in Callers, Ingest(c) PROVE IInv'
  <2> PICK f \in DOMAIN Files : Start(c, "upsert", Embedded(c, Files[f]))
                                /\ at' = [at EXCEPT ![c] = "authorize"]
    BY <1>2 DEF Ingest
  <2>1. Files[f] \in Seq(Texted) /\ Len(Files[f]) \in Nat /\ Len(Files[f]) >= 1
    OBVIOUS
  <2>2. \A k \in 1..Len(Files[f]) : Files[f][k] \in Texted
    BY <2>1
  <2>3. Embedded(c, Files[f]) \in Seq(Incoming) /\ Len(Embedded(c, Files[f])) = Len(Files[f])
    <3> DEFINE e(k) == [id |-> Files[f][k].id, text |-> Files[f][k].text, vector |-> Model[c]]
    <3>1. \A k \in 1..Len(Files[f]) : e(k) \in Incoming
      BY <2>2 DEF Texted, Incoming
    <3>2. Embedded(c, Files[f]) = [k \in 1..Len(Files[f]) |-> e(k)]
      BY DEF Embedded
    <3> HIDE DEF e
    <3> QED
      BY <2>1, <3>1, <3>2
  <2> QED
    BY <2>1, <2>3, StartIInv
<1>3. ASSUME NEW c \in Callers, Rebuild(c) PROVE IInv'
  <2>1. <<>> \in Seq(Incoming)
    OBVIOUS
  <2> QED
    BY <1>3, <2>1, StartIInv DEF Rebuild
<1>4. ASSUME NEW c \in Callers, ReadDimension(c) PROVE IInv'
  <2>1. CASE Raise(c)
    BY <2>1, RaiseIInv
  <2>2. CASE Proceed(c, "existing", FALSE) /\ dimension = NoDim /\ Current(c).vector # NoDim
    BY <1>4, <2>2, ProceedIInv DEF ReadDimension
  <2>3. CASE Proceed(c, "begin", FALSE) /\ Current(c).vector \in {NoDim, dimension}
    BY <1>4, <2>3, ProceedIInv DEF ReadDimension
  <2> QED
    BY <1>4, <2>1, <2>2, <2>3 DEF ReadDimension, Agrees
<1>5. ASSUME NEW c \in Callers, ReadExisting(c) PROVE IInv'
  <2>1. CASE Raise(c)
    BY <2>1, RaiseIInv
  <2>2. CASE Proceed(c, "begin", TRUE)
    BY <1>5, <2>2, ExistingIInv
  <2> QED
    BY <1>5, <2>1, <2>2 DEF ReadExisting
<1>6. ASSUME NEW c \in Callers, ReadRows(c) PROVE IInv'
  BY <1>6, RaiseIInv, ReadRowsIInv DEF ReadRows
<1>7. ASSUME NEW c \in Callers, CommitUpsert(c) PROVE IInv'
  BY <1>7, CommitNextIInv, CommitLastIInv
<1>8. CASE UNCHANGED vars
  BY <1>8 DEF vars, IInv, TypeOK, LockInv, BatchInv, GrantInv, IndexAgrees, StoredIsWhole,
     OneRetriever, ReadInv, SingleDimension, ColumnsAgree, Asked, Current, Stored, Docs
<1> QED
  BY <1>1, <1>2, <1>3, <1>4, <1>5, <1>6, <1>7, <1>8, ReadDocumentsIInv, AuthorizeIInv,
     LockIInv, BeginIInv, CommitRebuildIInv, RaiseIInv, DieIInv DEF Next, Step, Fail

\* The invariant holds always, for any number of callers and retrievers.
THEOREM Inductive == Spec => []IInv
<1> QED
  BY InitIInv, StepIInv, PTL DEF Spec

\* What fails with a retriever per process holds with one: a lost document and
\* vectors of two dimensions both need a second connection to the database.
THEOREM SharedIsConsistent ==
    ASSUME OneRetriever
    PROVE  Spec => [](SingleDimension /\ ColumnsAgree)
<1>1. IInv => SingleDimension /\ ColumnsAgree
  BY DEF IInv
<1> QED
  BY <1>1, Inductive, PTL

\* The full-text index follows the records, whatever else runs.
THEOREM IndexFollows == Spec => []IndexAgrees
<1>1. IInv => IndexAgrees
  BY DEF IInv
<1> QED
  BY <1>1, Inductive, PTL

\* A successful answer means that every document is stored.
THEOREM AnswersTrue == Spec => []StoredIsWhole
<1>1. IInv => StoredIsWhole
  BY DEF IInv
<1> QED
  BY <1>1, Inductive, PTL

\* No record changes without an authorization for its id.
THEOREM Authorized == Spec => WritesAuthorized
<1>1. ASSUME IInv, [Next]_vars, NEW i \in Ids, records'[i] # records[i]
      PROVE  \E c \in Callers : writer = c /\ i \in granted[c]
  <2>1. ASSUME NEW c \in Callers, CommitUpsert(c) PROVE writer = c /\ i \in granted[c]
    <3>1. at[c] = "commit" /\ op[c] = "upsert"
          /\ records' = [records EXCEPT ![Current(c).id] = Upserted(Current(c))]
      BY <2>1 DEF CommitUpsert
    <3>2. i = Current(c).id
      BY <1>1, <3>1 DEF IInv, TypeOK
    <3> QED
      BY <1>1, <3>1, <3>2 DEF IInv, LockInv, GrantInv, Asked
  <2>2. ASSUME NEW c \in Callers, CommitRebuild(c) PROVE writer = c /\ i \in granted[c]
    <3>1. at[c] = "commit" /\ op[c] = "rebuild" /\ i \in Stored(rows[c])
      BY <1>1, <2>2 DEF CommitRebuild
    <3> QED
      BY <1>1, <3>1 DEF IInv, LockInv, GrantInv, Asked
  <2>3. CASE UNCHANGED records
    BY <1>1, <2>3
  <2>4. \/ \E c \in Callers : CommitUpsert(c) \/ CommitRebuild(c)
        \/ UNCHANGED records
    BY <1>1 DEF Next, Step, vars, Remember, Ingest, Rebuild, Start, ReadDocuments, Authorize,
       Lock, ReadDimension, ReadExisting, ReadRows, Begin, Fail, Die, Raise, Proceed
  <2> QED
    BY <2>1, <2>2, <2>3, <2>4
<1>2. IInv /\ [Next]_vars =>
        [\A i \in Ids : records'[i] # records[i] =>
            \E c \in Callers : writer = c /\ i \in granted[c]]_vars
  BY <1>1
<1> QED
  BY <1>2, Inductive, PTL DEF Spec, WritesAuthorized
===============================================================================
