------------------------- MODULE SessionCreate_proofs -------------------------
(***************************************************************************)
(* Proofs about SessionCreate, for any hosts, slots and descriptors, and   *)
(* about the readers beside it (SessionReader), for any readers.  Every    *)
(* action preserves IInv, so Spec => []IInv; the invariants, the action    *)
(* properties and the abstract register follow from it.  A step of a       *)
(* reader is a stutter or a crash to the creators, so all of it holds      *)
(* under ReaderSpec as well.                                               *)
(***************************************************************************)
EXTENDS SessionReader, TLAPS

\* Names of states, points and codes, expanded in every leaf.
USE DEF Pending, Verified, Published, Denied, ContextInvalid, Busy, Stale,
        StoreFailed, RecoveryRequired, ProjectionInvalid, AuditPending,
        LockedPoints, GuardPoints, Points, BeforeCommit, AfterCommit

\* The initial database, file and lock satisfy the inductive invariant.
LEMMA InitIInv == Init => IInv
<1> SUFFICES ASSUME Init PROVE IInv
  OBVIOUS
<1> USE SessionConstants DEF Init, EmptyRoutes, Projection
<1>1. TypeOK
  BY DEF TypeOK, TransitionStates, Results, Failures
<1>2. LockInv /\ AuthorityInv
  BY DEF LockInv, AuthorityInv, Live
<1>3. RowsInv /\ PointInv
  BY DEF RowsInv, PointInv, StateValid, Settled, Unmoved, SlotFree
<1>4. ProjectionLag /\ OneUnfinished
  BY DEF ProjectionLag, OneUnfinished, Unfinished
<1>5. PublishedIsAudited /\ ReceiptSound /\ HonestFailure
  BY DEF PublishedIsAudited, ReceiptSound, HonestFailure
<1> QED BY <1>1, <1>2, <1>3, <1>4, <1>5 DEF IInv

\* A fresh descriptor belongs to no other host.
LEMMA AuthenticatedCreateStep ==
    ASSUME IInv, NEW h \in Hosts, NEW a \in Attempts, NEW v \in Verdicts, 
           AuthenticatedCreate(h, a, v)
    PROVE  IInv'
<1> USE SessionConstants DEF AuthenticatedCreate, Goto, Live, durable,
      authority
<1>1. TypeOK'
  <2>1. CASE v = "allow"
    <3>1. cur' \in [Hosts -> Attempts \cup {NoAttempt}]
      BY <2>1 DEF IInv, TypeOK
    <3>2. active' \in [Hosts -> BOOLEAN]
      BY <2>1 DEF IInv, TypeOK
    <3>3. pc' \in [Hosts -> Points] /\ result' \in [Attempts -> Results]
      BY <2>1 DEF IInv, TypeOK, Results
    <3> QED BY <3>1, <3>2, <3>3 DEF IInv, TypeOK
  <2>2. CASE v # "allow"
    BY <2>2 DEF IInv, TypeOK, Results, Failures
  <2> QED BY <2>1, <2>2
<1>2. LockInv'
  BY DEF IInv, TypeOK, LockInv
<1>3. AuthorityInv'
  <2>1. \A k \in Hosts : cur[k] # a
    BY DEF IInv, TypeOK, AuthorityInv
  <2>2. cur[h] = NoAttempt
    BY DEF IInv, AuthorityInv
  <2>3. CASE v = "allow"
    BY <2>1, <2>2, <2>3 DEF IInv, TypeOK, AuthorityInv
  <2>4. CASE v # "allow"
    BY <2>1, <2>2, <2>4 DEF IInv, TypeOK, AuthorityInv
  <2> QED BY <2>3, <2>4
<1>4. RowsInv'
  BY DEF IInv, TypeOK, LockInv, AuthorityInv, PointInv, RowsInv, StateValid,
         SlotFree
<1>5. PointInv'
  BY DEF IInv, TypeOK, LockInv, AuthorityInv, PointInv, RowsInv, StateValid,
         Settled, Unmoved, SlotFree, Projection
<1>6. ProjectionLag' /\ OneUnfinished'
  BY DEF IInv, TypeOK, LockInv, AuthorityInv, PointInv, RowsInv, Settled,
         Unmoved, SlotFree, StateValid, Projection, ProjectionLag,
         OneUnfinished, Unfinished
<1>7. PublishedIsAudited' /\ ReceiptSound' /\ HonestFailure'
  BY DEF IInv, TypeOK, AuthorityInv, PointInv, RowsInv, Settled, Unmoved,
         SlotFree, Projection, ProjectionLag, PublishedIsAudited,
         ReceiptSound, HonestFailure
<1> QED BY <1>1, <1>2, <1>3, <1>4, <1>5, <1>6, <1>7 DEF IInv

\* A second call on the same authority changes nothing.
LEMMA BeginAttemptStep ==
    ASSUME IInv, NEW h \in Hosts, BeginAttempt(h)
    PROVE  IInv'
<1> USE SessionConstants DEF BeginAttempt, MayAttempt, Goto, Live, durable,
      authority
<1>1. TypeOK'
  BY DEF IInv, TypeOK, TransitionStates, Results, Failures, Projection
<1>2. LockInv'
  BY DEF IInv, TypeOK, LockInv
<1>3. AuthorityInv'
  BY DEF IInv, TypeOK, LockInv, AuthorityInv
<1>4. RowsInv'
  BY DEF IInv, TypeOK, LockInv, AuthorityInv, PointInv, RowsInv, StateValid,
         SlotFree
<1>5. PointInv'
  BY DEF IInv, TypeOK, LockInv, AuthorityInv, PointInv, RowsInv, StateValid,
         Settled, Unmoved, SlotFree, Projection
<1>6. ProjectionLag' /\ OneUnfinished'
  BY DEF IInv, TypeOK, LockInv, AuthorityInv, PointInv, RowsInv, Settled,
         Unmoved, SlotFree, StateValid, Projection, ProjectionLag,
         OneUnfinished, Unfinished
<1>7. PublishedIsAudited' /\ ReceiptSound' /\ HonestFailure'
  BY DEF IInv, TypeOK, AuthorityInv, PointInv, RowsInv, Settled, Unmoved,
         SlotFree, Projection, ProjectionLag, PublishedIsAudited,
         ReceiptSound, HonestFailure
<1> QED BY <1>1, <1>2, <1>3, <1>4, <1>5, <1>6, <1>7 DEF IInv

\* Only a free lock is taken.
LEMMA LockProjectionStep ==
    ASSUME IInv, NEW h \in Hosts, LockProjection(h)
    PROVE  IInv'
<1> USE SessionConstants DEF LockProjection, Fail, Release, Goto, Live,
      durable, authority
<1>1. TypeOK'
  BY DEF IInv, TypeOK, TransitionStates, Results, Failures, Projection
<1>2. LockInv'
  BY DEF IInv, TypeOK, LockInv
<1>3. AuthorityInv'
  BY DEF IInv, TypeOK, LockInv, AuthorityInv
<1>4. RowsInv'
  BY DEF IInv, TypeOK, LockInv, AuthorityInv, PointInv, RowsInv, StateValid,
         SlotFree
<1>5. PointInv'
  BY DEF IInv, TypeOK, LockInv, AuthorityInv, PointInv, RowsInv, StateValid,
         Settled, Unmoved, SlotFree, Projection
<1>6. ProjectionLag' /\ OneUnfinished'
  BY DEF IInv, TypeOK, LockInv, AuthorityInv, PointInv, RowsInv, Settled,
         Unmoved, SlotFree, StateValid, Projection, ProjectionLag,
         OneUnfinished, Unfinished
<1>7. PublishedIsAudited' /\ ReceiptSound' /\ HonestFailure'
  BY DEF IInv, TypeOK, AuthorityInv, PointInv, RowsInv, Settled, Unmoved,
         SlotFree, Projection, ProjectionLag, PublishedIsAudited,
         ReceiptSound, HonestFailure
<1> QED BY <1>1, <1>2, <1>3, <1>4, <1>5, <1>6, <1>7 DEF IInv

\* The checks under the lock establish Settled.
LEMMA ValidateStep ==
    ASSUME IInv, NEW h \in Hosts, NEW v \in Verdicts, Validate(h, v)
    PROVE  IInv'
<1> USE SessionConstants DEF Validate, Fail, Release, Goto, Live, durable,
      authority
<1>1. TypeOK'
  BY DEF IInv, TypeOK, TransitionStates, Results, Failures, Projection
<1>2. LockInv'
  BY DEF IInv, TypeOK, LockInv
<1>3. AuthorityInv'
  BY DEF IInv, TypeOK, LockInv, AuthorityInv
<1>4. RowsInv'
  BY DEF IInv, TypeOK, LockInv, AuthorityInv, PointInv, RowsInv, StateValid,
         SlotFree
<1>5. PointInv'
  BY DEF IInv, TypeOK, LockInv, AuthorityInv, PointInv, RowsInv, StateValid,
         Settled, Unmoved, SlotFree, Projection
<1>6. ProjectionLag' /\ OneUnfinished'
  BY DEF IInv, TypeOK, LockInv, AuthorityInv, PointInv, RowsInv, Settled,
         Unmoved, SlotFree, StateValid, Projection, ProjectionLag,
         OneUnfinished, Unfinished
<1>7. PublishedIsAudited' /\ ReceiptSound' /\ HonestFailure'
  BY DEF IInv, TypeOK, AuthorityInv, PointInv, RowsInv, Settled, Unmoved,
         SlotFree, Projection, ProjectionLag, PublishedIsAudited,
         ReceiptSound, HonestFailure
<1> QED BY <1>1, <1>2, <1>3, <1>4, <1>5, <1>6, <1>7 DEF IInv

\* The checks of the transaction establish SlotFree.
LEMMA StageStep ==
    ASSUME IInv, NEW h \in Hosts, Stage(h)
    PROVE  IInv'
<1> USE SessionConstants DEF Stage, Fail, Release, Goto, Live, durable,
      authority
<1>1. TypeOK'
  BY DEF IInv, TypeOK, TransitionStates, Results, Failures, Projection
<1>2. LockInv'
  BY DEF IInv, TypeOK, LockInv
<1>3. AuthorityInv'
  BY DEF IInv, TypeOK, LockInv, AuthorityInv
<1>4. RowsInv'
  BY DEF IInv, TypeOK, LockInv, AuthorityInv, PointInv, RowsInv, StateValid,
         SlotFree
<1>5. PointInv'
  BY DEF IInv, TypeOK, LockInv, AuthorityInv, PointInv, RowsInv, StateValid,
         Settled, Unmoved, SlotFree, Projection
<1>6. ProjectionLag' /\ OneUnfinished'
  BY DEF IInv, TypeOK, LockInv, AuthorityInv, PointInv, RowsInv, Settled,
         Unmoved, SlotFree, StateValid, Projection, ProjectionLag,
         OneUnfinished, Unfinished
<1>7. PublishedIsAudited' /\ ReceiptSound' /\ HonestFailure'
  BY DEF IInv, TypeOK, AuthorityInv, PointInv, RowsInv, Settled, Unmoved,
         SlotFree, Projection, ProjectionLag, PublishedIsAudited,
         ReceiptSound, HonestFailure
<1> QED BY <1>1, <1>2, <1>3, <1>4, <1>5, <1>6, <1>7 DEF IInv

\* The guard is entered by a live authority.
LEMMA EnterCommitGuardStep ==
    ASSUME IInv, NEW h \in Hosts, NEW v \in Verdicts, EnterCommitGuard(h, v)
    PROVE  IInv'
<1> USE SessionConstants DEF EnterCommitGuard, Fail, Release, Goto, Live,
      durable, authority
<1>1. TypeOK'
  BY DEF IInv, TypeOK, TransitionStates, Results, Failures, Projection
<1>2. LockInv'
  BY DEF IInv, TypeOK, LockInv
<1>3. AuthorityInv'
  BY DEF IInv, TypeOK, LockInv, AuthorityInv
<1>4. RowsInv'
  BY DEF IInv, TypeOK, LockInv, AuthorityInv, PointInv, RowsInv, StateValid,
         SlotFree
<1>5. PointInv'
  BY DEF IInv, TypeOK, LockInv, AuthorityInv, PointInv, RowsInv, StateValid,
         Settled, Unmoved, SlotFree, Projection
<1>6. ProjectionLag' /\ OneUnfinished'
  BY DEF IInv, TypeOK, LockInv, AuthorityInv, PointInv, RowsInv, Settled,
         Unmoved, SlotFree, StateValid, Projection, ProjectionLag,
         OneUnfinished, Unfinished
<1>7. PublishedIsAudited' /\ ReceiptSound' /\ HonestFailure'
  BY DEF IInv, TypeOK, AuthorityInv, PointInv, RowsInv, Settled, Unmoved,
         SlotFree, Projection, ProjectionLag, PublishedIsAudited,
         ReceiptSound, HonestFailure
<1> QED BY <1>1, <1>2, <1>3, <1>4, <1>5, <1>6, <1>7 DEF IInv

\* Publication is entered by a live, consumed authority.
LEMMA EnterPublishStep ==
    ASSUME IInv, NEW h \in Hosts, EnterPublish(h)
    PROVE  IInv'
<1> USE SessionConstants DEF EnterPublish, Fail, Release, Goto, Live, durable,
      authority
<1>1. TypeOK'
  BY DEF IInv, TypeOK, TransitionStates, Results, Failures, Projection
<1>2. LockInv'
  BY DEF IInv, TypeOK, LockInv
<1>3. AuthorityInv'
  BY DEF IInv, TypeOK, LockInv, AuthorityInv
<1>4. RowsInv'
  BY DEF IInv, TypeOK, LockInv, AuthorityInv, PointInv, RowsInv, StateValid,
         SlotFree
<1>5. PointInv'
  BY DEF IInv, TypeOK, LockInv, AuthorityInv, PointInv, RowsInv, StateValid,
         Settled, Unmoved, SlotFree, Projection
<1>6. ProjectionLag' /\ OneUnfinished'
  BY DEF IInv, TypeOK, LockInv, AuthorityInv, PointInv, RowsInv, Settled,
         Unmoved, SlotFree, StateValid, Projection, ProjectionLag,
         OneUnfinished, Unfinished
<1>7. PublishedIsAudited' /\ ReceiptSound' /\ HonestFailure'
  BY DEF IInv, TypeOK, AuthorityInv, PointInv, RowsInv, Settled, Unmoved,
         SlotFree, Projection, ProjectionLag, PublishedIsAudited,
         ReceiptSound, HonestFailure
<1> QED BY <1>1, <1>2, <1>3, <1>4, <1>5, <1>6, <1>7 DEF IInv

\* So is the last transaction.
LEMMA EnterFinishStep ==
    ASSUME IInv, NEW h \in Hosts, EnterFinish(h)
    PROVE  IInv'
<1> USE SessionConstants DEF EnterFinish, Fail, Release, Goto, Live, durable,
      authority
<1>1. TypeOK'
  BY DEF IInv, TypeOK, TransitionStates, Results, Failures, Projection
<1>2. LockInv'
  BY DEF IInv, TypeOK, LockInv
<1>3. AuthorityInv'
  BY DEF IInv, TypeOK, LockInv, AuthorityInv
<1>4. RowsInv'
  BY DEF IInv, TypeOK, LockInv, AuthorityInv, PointInv, RowsInv, StateValid,
         SlotFree
<1>5. PointInv'
  BY DEF IInv, TypeOK, LockInv, AuthorityInv, PointInv, RowsInv, StateValid,
         Settled, Unmoved, SlotFree, Projection
<1>6. ProjectionLag' /\ OneUnfinished'
  BY DEF IInv, TypeOK, LockInv, AuthorityInv, PointInv, RowsInv, Settled,
         Unmoved, SlotFree, StateValid, Projection, ProjectionLag,
         OneUnfinished, Unfinished
<1>7. PublishedIsAudited' /\ ReceiptSound' /\ HonestFailure'
  BY DEF IInv, TypeOK, AuthorityInv, PointInv, RowsInv, Settled, Unmoved,
         SlotFree, Projection, ProjectionLag, PublishedIsAudited,
         ReceiptSound, HonestFailure
<1> QED BY <1>1, <1>2, <1>3, <1>4, <1>5, <1>6, <1>7 DEF IInv

\* Leaving the scope changes nothing durable.
LEMMA LeaveScopeStep ==
    ASSUME IInv, NEW h \in Hosts, LeaveScope(h)
    PROVE  IInv'
<1> USE SessionConstants DEF LeaveScope, Discard, Goto, Live, durable,
      authority
<1>1. TypeOK'
  BY DEF IInv, TypeOK, TransitionStates, Results, Failures, Projection
<1>2. LockInv'
  BY DEF IInv, TypeOK, LockInv
<1>3. AuthorityInv'
  BY DEF IInv, TypeOK, LockInv, AuthorityInv
<1>4. RowsInv'
  BY DEF IInv, TypeOK, LockInv, AuthorityInv, PointInv, RowsInv, StateValid,
         SlotFree
<1>5. PointInv'
  BY DEF IInv, TypeOK, LockInv, AuthorityInv, PointInv, RowsInv, StateValid,
         Settled, Unmoved, SlotFree, Projection
<1>6. ProjectionLag' /\ OneUnfinished'
  BY DEF IInv, TypeOK, LockInv, AuthorityInv, PointInv, RowsInv, Settled,
         Unmoved, SlotFree, StateValid, Projection, ProjectionLag,
         OneUnfinished, Unfinished
<1>7. PublishedIsAudited' /\ ReceiptSound' /\ HonestFailure'
  BY DEF IInv, TypeOK, AuthorityInv, PointInv, RowsInv, Settled, Unmoved,
         SlotFree, Projection, ProjectionLag, PublishedIsAudited,
         ReceiptSound, HonestFailure
<1> QED BY <1>1, <1>2, <1>3, <1>4, <1>5, <1>6, <1>7 DEF IInv

\* Revocation waits for the guards, so a guarded point stays active.
LEMMA RevokeStep ==
    ASSUME IInv, NEW h \in Hosts, Revoke(h)
    PROVE  IInv'
<1> USE SessionConstants DEF Revoke, GuardHeld, Goto, Live, durable, authority
<1>1. TypeOK'
  BY DEF IInv, TypeOK, TransitionStates, Results, Failures, Projection
<1>2. LockInv'
  BY DEF IInv, TypeOK, LockInv
<1>3. AuthorityInv'
  <2>1. \A k \in Hosts : k # h => active'[k] = active[k]
    BY DEF IInv, TypeOK
  <2>2. \A k \in Hosts : pc[k] \in GuardPoints => active'[k]
    BY <2>1 DEF IInv, AuthorityInv
  <2>3. \A k \in Hosts : (~Live(k) => ~Live(k)')
    BY <2>1 DEF IInv, TypeOK
  <2> QED BY <2>2, <2>3 DEF IInv, AuthorityInv
<1>4. RowsInv'
  BY DEF IInv, TypeOK, LockInv, AuthorityInv, PointInv, RowsInv, StateValid,
         SlotFree
<1>5. PointInv'
  BY DEF IInv, TypeOK, LockInv, AuthorityInv, PointInv, RowsInv, StateValid,
         Settled, Unmoved, SlotFree, Projection
<1>6. ProjectionLag' /\ OneUnfinished'
  BY DEF IInv, TypeOK, LockInv, AuthorityInv, PointInv, RowsInv, Settled,
         Unmoved, SlotFree, StateValid, Projection, ProjectionLag,
         OneUnfinished, Unfinished
<1>7. PublishedIsAudited' /\ ReceiptSound' /\ HonestFailure'
  BY DEF IInv, TypeOK, AuthorityInv, PointInv, RowsInv, Settled, Unmoved,
         SlotFree, Projection, ProjectionLag, PublishedIsAudited,
         ReceiptSound, HonestFailure
<1> QED BY <1>1, <1>2, <1>3, <1>4, <1>5, <1>6, <1>7 DEF IInv

\* Expiry only takes liveness away.
LEMMA ExpireStep ==
    ASSUME IInv, NEW h \in Hosts, Expire(h)
    PROVE  IInv'
<1> USE SessionConstants DEF Expire, Goto, Live, durable, authority
<1>1. TypeOK'
  BY DEF IInv, TypeOK, TransitionStates, Results, Failures, Projection
<1>2. LockInv'
  BY DEF IInv, TypeOK, LockInv
<1>3. AuthorityInv'
  BY DEF IInv, TypeOK, LockInv, AuthorityInv
<1>4. RowsInv'
  BY DEF IInv, TypeOK, LockInv, AuthorityInv, PointInv, RowsInv, StateValid,
         SlotFree
<1>5. PointInv'
  BY DEF IInv, TypeOK, LockInv, AuthorityInv, PointInv, RowsInv, StateValid,
         Settled, Unmoved, SlotFree, Projection
<1>6. ProjectionLag' /\ OneUnfinished'
  BY DEF IInv, TypeOK, LockInv, AuthorityInv, PointInv, RowsInv, Settled,
         Unmoved, SlotFree, StateValid, Projection, ProjectionLag,
         OneUnfinished, Unfinished
<1>7. PublishedIsAudited' /\ ReceiptSound' /\ HonestFailure'
  BY DEF IInv, TypeOK, AuthorityInv, PointInv, RowsInv, Settled, Unmoved,
         SlotFree, Projection, ProjectionLag, PublishedIsAudited,
         ReceiptSound, HonestFailure
<1> QED BY <1>1, <1>2, <1>3, <1>4, <1>5, <1>6, <1>7 DEF IInv

\* A crash releases the lock and leaves the rows as they are.
LEMMA CrashStep ==
    ASSUME IInv, NEW h \in Hosts, Crash(h)
    PROVE  IInv'
<1> USE SessionConstants DEF Crash, Discard, Goto, Live, durable, authority
<1>1. TypeOK'
  BY DEF IInv, TypeOK, TransitionStates, Results, Failures, Projection
<1>2. LockInv'
  BY DEF IInv, TypeOK, LockInv
<1>3. AuthorityInv'
  BY DEF IInv, TypeOK, LockInv, AuthorityInv
<1>4. RowsInv'
  BY DEF IInv, TypeOK, LockInv, AuthorityInv, PointInv, RowsInv, StateValid,
         SlotFree
<1>5. PointInv'
  BY DEF IInv, TypeOK, LockInv, AuthorityInv, PointInv, RowsInv, StateValid,
         Settled, Unmoved, SlotFree, Projection
<1>6. ProjectionLag' /\ OneUnfinished'
  BY DEF IInv, TypeOK, LockInv, AuthorityInv, PointInv, RowsInv, Settled,
         Unmoved, SlotFree, StateValid, Projection, ProjectionLag,
         OneUnfinished, Unfinished
<1>7. PublishedIsAudited' /\ ReceiptSound' /\ HonestFailure'
  BY DEF IInv, TypeOK, AuthorityInv, PointInv, RowsInv, Settled, Unmoved,
         SlotFree, Projection, ProjectionLag, PublishedIsAudited,
         ReceiptSound, HonestFailure
<1> QED BY <1>1, <1>2, <1>3, <1>4, <1>5, <1>6, <1>7 DEF IInv

(***************************************************************************)
(* The rows of a create, whether _commit returned or raised after them.    *)
(***************************************************************************)
CommitFacts(h) ==
    /\ cur[h] \in Attempts /\ cur[h] # NoAttempt
    /\ trans[cur[h]] = "none" /\ Unfinished = {}
    /\ generation' = generation + 1 /\ generation' \in Nat
    /\ routes' \in [Slots -> Attempts \cup {NoAttempt}]
    /\ hash' = Projection(generation', routes')
    /\ index' = Projection(generation, routes)
    /\ SlotOf[h] \in Slots
    /\ \A s \in Slots : s # SlotOf[h] => routes'[s] = routes[s]
    /\ \A s \in Slots : routes[s] # cur[h]
    /\ routes[SlotOf[h]] = NoAttempt
    /\ routes'[SlotOf[h]] = cur[h]
    /\ [routes' EXCEPT ![SlotOf[h]] = NoAttempt] = routes
    /\ trans' \in [Attempts -> TransitionStates]
    /\ trans'[cur[h]] = Pending
    /\ \A a \in Attempts : a # cur[h] => trans'[a] = trans[a]
    /\ audited' = audited

LEMMA RowsCommitted ==
    ASSUME IInv, NEW h \in Hosts, pc[h] = "committing", CommitRows(h)
    PROVE  CommitFacts(h)
<1> USE SessionConstants DEF CommitRows
<1>1. cur[h] \in Attempts /\ cur[h] # NoAttempt
  BY DEF IInv, TypeOK, AuthorityInv
<1>2. trans[cur[h]] = "none" /\ Settled /\ routes[SlotOf[h]] = NoAttempt
  BY DEF IInv, PointInv, SlotFree
<1>3. \A s \in Slots : routes[s] # cur[h]
  BY <1>1, <1>2 DEF IInv, RowsInv
<1>4. Unfinished = {}
  BY <1>2 DEF Settled, Unfinished
<1>5. routes' \in [Slots -> Attempts \cup {NoAttempt}]
  BY <1>1 DEF IInv, TypeOK
<1>6. SlotOf[h] \in Slots /\ routes'[SlotOf[h]] = cur[h]
  BY DEF IInv, TypeOK
<1>7. \A s \in Slots : s # SlotOf[h] => routes'[s] = routes[s]
  BY DEF IInv, TypeOK
<1>8. [routes' EXCEPT ![SlotOf[h]] = NoAttempt] = routes
  BY <1>2, <1>5, <1>6, <1>7 DEF IInv, TypeOK
<1>9. generation' = generation + 1 /\ generation' \in Nat /\ audited' = audited
  BY DEF IInv, TypeOK
<1>11. trans' \in [Attempts -> TransitionStates] /\ trans'[cur[h]] = Pending
  BY <1>1 DEF IInv, TypeOK, TransitionStates
<1>12. \A a \in Attempts : a # cur[h] => trans'[a] = trans[a]
  BY DEF IInv, TypeOK
<1>13. hash' = Projection(generation', routes')
  BY DEF IInv, TypeOK
<1>10. index' = Projection(generation, routes)
  BY <1>2 DEF Settled
<1> QED BY <1>1, <1>2, <1>3, <1>4, <1>5, <1>6, <1>7, <1>8, <1>9, <1>10, <1>11,
           <1>12, <1>13 DEF CommitFacts

\* Row integrity after the rows of a create, for either outcome of _commit.
LEMMA CommittedRowsInv ==
    ASSUME IInv, NEW h \in Hosts, pc[h] = "committing", CommitRows(h),
           result' = result \/ \E c \in Failures : result' = [result EXCEPT ![cur[h]] = c]
    PROVE  RowsInv' /\ ProjectionLag' /\ OneUnfinished' /\ PublishedIsAudited'
<1>1. CommitFacts(h)
  BY RowsCommitted
<1>2. RowsInv'
  <2>1. StateValid'
    BY <1>1 DEF StateValid, CommitFacts
  <2>2. ASSUME NEW s \in Slots, NEW t \in Slots, s # t, routes'[s] = routes'[t]
        PROVE  routes'[s] = NoAttempt
    <3>1. CASE s = SlotOf[h] \/ t = SlotOf[h]
      BY <1>1, <2>2, <3>1 DEF CommitFacts
    <3>2. CASE s # SlotOf[h] /\ t # SlotOf[h]
      BY <1>1, <2>2, <3>2 DEF CommitFacts, IInv, RowsInv
    <3> QED BY <3>1, <3>2
  <2>3. ASSUME NEW a \in Attempts
        PROVE  trans'[a] # "none" <=> \E s \in Slots : routes'[s] = a
    <3>1. CASE a = cur[h]
      BY <1>1, <3>1 DEF CommitFacts
    <3>2. CASE a # cur[h]
      <4>1. \A s \in Slots : routes'[s] = a <=> routes[s] = a
        BY <1>1, <3>2, SessionConstants DEF CommitFacts
      <4> QED BY <1>1, <3>2, <4>1 DEF CommitFacts, IInv, RowsInv
    <3> QED BY <3>1, <3>2
  <2>4. \A a \in Attempts : result'[a] = "unused" => trans'[a] = "none"
    BY <1>1 DEF CommitFacts, IInv, TypeOK, RowsInv, AuthorityInv, Failures
  <2> QED BY <2>1, <2>2, <2>3, <2>4 DEF RowsInv
<1>3. ProjectionLag'
  <2>1. index'.generation = generation /\ index'.routes = routes
    BY <1>1 DEF CommitFacts, Projection
  <2> QED BY <1>1, <2>1 DEF CommitFacts, ProjectionLag
<1>4. OneUnfinished'
  <2>1. \A a \in Unfinished' : a = cur[h]
    BY <1>1 DEF CommitFacts, Unfinished
  <2> QED BY <2>1 DEF OneUnfinished
<1>5. PublishedIsAudited'
  <2>1. cur[h] \notin audited
    BY <1>1 DEF CommitFacts, IInv, PublishedIsAudited
  <2> QED BY <1>1, <2>1 DEF CommitFacts, IInv, TypeOK, PublishedIsAudited
<1> QED BY <1>2, <1>3, <1>4, <1>5

\* Receipts survive a later commit: their routes keep their slots.
LEMMA CommittedReceipts ==
    ASSUME IInv, NEW h \in Hosts, pc[h] = "committing", CommitRows(h)
    PROVE  \A a \in Attempts : result[a] = "receipt" =>
              /\ trans'[a] = Published
              /\ a \in audited'
              /\ \E s \in Slots : routes'[s] = a /\ index'.routes[s] = a
<1>0. CommitFacts(h)
  BY RowsCommitted
<1> SUFFICES ASSUME NEW a \in Attempts, result[a] = "receipt"
             PROVE  /\ trans'[a] = Published
                    /\ a \in audited'
                    /\ \E s \in Slots : routes'[s] = a /\ index'.routes[s] = a
  OBVIOUS
<1>1. trans[a] = Published /\ a \in audited
  BY DEF IInv, ReceiptSound
<1>2. a # cur[h] /\ trans'[a] = trans[a] /\ audited' = audited
  BY <1>0, <1>1 DEF CommitFacts
<1>3. PICK s \in Slots : routes[s] = a
  BY DEF IInv, ReceiptSound
<1>4. routes'[s] = a
  BY <1>0, <1>3, SessionConstants DEF CommitFacts
<1>5. index'.routes[s] = a
  BY <1>0, <1>3 DEF CommitFacts, Projection
<1> QED BY <1>1, <1>2, <1>4, <1>5

\* _commit returns: only this host can be at a locked point.
LEMMA CommitStep ==
    ASSUME IInv, NEW h \in Hosts, Commit(h)
    PROVE  IInv'
<1> USE SessionConstants DEF Commit, Goto, Live, authority
<1>1. TypeOK'
  <2>1. CommitFacts(h)
    BY RowsCommitted
  <2>2. hash' \in [generation : Nat, routes : [Slots -> Attempts \cup {NoAttempt}]]
    BY <2>1 DEF CommitFacts, Projection
  <2> QED BY <2>1, <2>2 DEF CommitRows, CommitFacts, IInv, TypeOK
<1>2. LockInv' /\ AuthorityInv'
  BY DEF IInv, TypeOK, LockInv, AuthorityInv
<1>3. RowsInv' /\ ProjectionLag' /\ OneUnfinished' /\ PublishedIsAudited'
  BY CommittedRowsInv
<1>4. PointInv'
  <2>1. \A k \in Hosts : k # h => pc[k] \notin LockedPoints /\ pc'[k] = pc[k]
    BY DEF IInv, TypeOK, LockInv
  <2>2. \A k \in Hosts : k # h /\ pc[k] \in BeforeCommit => trans'[cur[k]] = "none"
    BY RowsCommitted DEF CommitFacts, IInv, TypeOK, AuthorityInv, PointInv
  <2>3. pc'[h] = "committed" /\ trans'[cur[h]] = Pending /\ routes'[SlotOf[h]] = cur[h]
    BY RowsCommitted DEF CommitFacts, IInv, TypeOK
  <2> QED BY <2>1, <2>2, <2>3 DEF PointInv
<1>5. ReceiptSound' /\ HonestFailure'
  <2>1. ReceiptSound'
    BY CommittedReceipts DEF ReceiptSound
  <2>2. HonestFailure'
    BY DEF CommitRows, IInv, TypeOK, AuthorityInv, HonestFailure
  <2> QED BY <2>1, <2>2
<1> QED BY <1>1, <1>2, <1>3, <1>4, <1>5 DEF IInv

\* _commit raises: the rows may be durable, the report asks for recovery.
LEMMA CommitFaultStep ==
    ASSUME IInv, NEW h \in Hosts, NEW e \in BOOLEAN, CommitFault(h, e)
    PROVE  IInv'
<1> USE SessionConstants DEF CommitFault, Goto, Fail, Release, UnexpectedCode, CommitAttempted, Live, durable
<1>0. UnexpectedCode(h) = RecoveryRequired
  OBVIOUS
<1>1. CASE e
  <2>1. CommitRows(h) /\ pc[h] = "committing"
    BY <1>1
  <2>2. TypeOK'
    <3>1. trans' \in [Attempts -> TransitionStates]
      BY <2>1 DEF CommitRows, IInv, TypeOK, TransitionStates
    <3>2. hash' \in [generation : Nat, routes : [Slots -> Attempts \cup {NoAttempt}]]
      BY <2>1, RowsCommitted DEF CommitFacts, Projection
    <3>3. index' = index /\ audited' = audited /\ routes' \in [Slots -> Attempts \cup {NoAttempt}] /\ generation' \in Nat
      BY <2>1, RowsCommitted DEF CommitFacts, CommitRows
    <3> QED BY <3>1, <3>2, <3>3, <1>0 DEF IInv, TypeOK, Results, Failures
  <2>3. LockInv' /\ AuthorityInv'
    BY <1>0 DEF IInv, TypeOK, LockInv, AuthorityInv
  <2>4. RowsInv' /\ ProjectionLag' /\ OneUnfinished' /\ PublishedIsAudited'
    <3>1. \E c \in Failures : result' = [result EXCEPT ![cur[h]] = c]
      BY <1>0 DEF Failures
    <3> QED BY <2>1, <3>1, CommittedRowsInv
  <2>5. PointInv'
    <3>1. \A k \in Hosts : pc'[k] \notin LockedPoints /\ (pc'[k] \in BeforeCommit => k # h /\ pc[k] = pc'[k])
      BY DEF IInv, TypeOK, LockInv
    <3>2. \A k \in Hosts : k # h /\ pc[k] \in BeforeCommit => trans'[cur[k]] = "none"
      BY <2>1, RowsCommitted DEF CommitFacts, IInv, TypeOK, AuthorityInv, PointInv
    <3> QED BY <3>1, <3>2 DEF PointInv
  <2>6. ReceiptSound' /\ HonestFailure'
    <3>1. \A a \in Attempts : result'[a] = "receipt" => result[a] = "receipt"
      BY <1>0 DEF IInv, TypeOK
    <3>2. ReceiptSound'
      BY <2>1, <3>1, CommittedReceipts DEF ReceiptSound
    <3>3. HonestFailure'
      BY <2>1, <1>0, RowsCommitted DEF CommitFacts, IInv, TypeOK, AuthorityInv, HonestFailure
    <3> QED BY <3>2, <3>3
  <2> QED BY <2>2, <2>3, <2>4, <2>5, <2>6 DEF IInv
<1>2. CASE ~e
  <2>1. UNCHANGED <<generation, routes, hash, trans, index, audited>>
    BY <1>2
  <2>2. TypeOK' /\ LockInv' /\ AuthorityInv'
    BY <2>1, <1>0 DEF IInv, TypeOK, LockInv, AuthorityInv, Results, Failures
  <2>3. RowsInv' /\ PointInv'
    BY <2>1, <1>0 DEF IInv, TypeOK, LockInv, AuthorityInv, RowsInv, PointInv, StateValid
  <2>4. ProjectionLag' /\ OneUnfinished' /\ PublishedIsAudited'
    BY <2>1 DEF IInv, ProjectionLag, OneUnfinished, Unfinished, PublishedIsAudited
  <2>5. ReceiptSound' /\ HonestFailure'
    BY <2>1, <1>0 DEF IInv, TypeOK, ReceiptSound, HonestFailure
  <2> QED BY <2>2, <2>3, <2>4, <2>5 DEF IInv
<1> QED BY <1>1, <1>2

\* os.replace brings the file up to the rows under the lock.
LEMMA ReplaceStep ==
    ASSUME IInv, NEW h \in Hosts, Replace(h)
    PROVE  IInv'
<1> USE SessionConstants DEF Replace, Goto, Live, durable, authority
<1>1. TypeOK'
  BY DEF IInv, TypeOK, TransitionStates, Results, Failures, Projection
<1>2. LockInv'
  BY DEF IInv, TypeOK, LockInv
<1>3. AuthorityInv'
  BY DEF IInv, TypeOK, LockInv, AuthorityInv
<1>4. RowsInv'
  BY DEF IInv, TypeOK, LockInv, AuthorityInv, PointInv, RowsInv, StateValid,
         SlotFree
<1>5. PointInv'
  BY DEF IInv, TypeOK, LockInv, AuthorityInv, PointInv, RowsInv, StateValid,
         Settled, Unmoved, SlotFree, Projection
<1>6. ProjectionLag' /\ OneUnfinished'
  BY DEF IInv, TypeOK, LockInv, AuthorityInv, PointInv, RowsInv, Settled,
         Unmoved, SlotFree, StateValid, Projection, ProjectionLag,
         OneUnfinished, Unfinished
<1>7. PublishedIsAudited' /\ ReceiptSound' /\ HonestFailure'
  BY DEF IInv, TypeOK, AuthorityInv, PointInv, RowsInv, Settled, Unmoved,
         SlotFree, Projection, ProjectionLag, PublishedIsAudited,
         ReceiptSound, HonestFailure
<1> QED BY <1>1, <1>2, <1>3, <1>4, <1>5, <1>6, <1>7 DEF IInv

\* _publish raises: the file is the old or the new projection.
LEMMA PublishFaultStep ==
    ASSUME IInv, NEW h \in Hosts, NEW e \in BOOLEAN, PublishFault(h, e)
    PROVE  IInv'
<1> USE SessionConstants DEF PublishFault, Fail, Release, UnexpectedCode,
      Goto, Live, durable, authority
<1>1. TypeOK'
  BY DEF IInv, TypeOK, TransitionStates, Results, Failures, Projection
<1>2. LockInv'
  BY DEF IInv, TypeOK, LockInv
<1>3. AuthorityInv'
  BY DEF IInv, TypeOK, LockInv, AuthorityInv
<1>4. RowsInv'
  BY DEF IInv, TypeOK, LockInv, AuthorityInv, PointInv, RowsInv, StateValid,
         SlotFree
<1>5. PointInv'
  BY DEF IInv, TypeOK, LockInv, AuthorityInv, PointInv, RowsInv, StateValid,
         Settled, Unmoved, SlotFree, Projection
<1>6. ProjectionLag' /\ OneUnfinished'
  BY DEF IInv, TypeOK, LockInv, AuthorityInv, PointInv, RowsInv, Settled,
         Unmoved, SlotFree, StateValid, Projection, ProjectionLag,
         OneUnfinished, Unfinished
<1>7. PublishedIsAudited' /\ ReceiptSound' /\ HonestFailure'
  <2>1. PublishedIsAudited'
    BY DEF IInv, TypeOK, PointInv, RowsInv, PublishedIsAudited
  <2>2. ReceiptSound'
    BY DEF IInv, TypeOK, AuthorityInv, PointInv, RowsInv, ReceiptSound, Projection
  <2>3. HonestFailure'
    BY DEF IInv, TypeOK, AuthorityInv, PointInv, HonestFailure, CommitAttempted
  <2> QED BY <2>1, <2>2, <2>3
<1> QED BY <1>1, <1>2, <1>3, <1>4, <1>5, <1>6, <1>7 DEF IInv

\* The checks before the mark projection_verified.
LEMMA VerifyStep ==
    ASSUME IInv, NEW h \in Hosts, Verify(h)
    PROVE  IInv'
<1> USE SessionConstants DEF Verify, Fail, Release, Goto, Live, durable,
      authority
<1>1. TypeOK'
  BY DEF IInv, TypeOK, TransitionStates, Results, Failures, Projection
<1>2. LockInv'
  BY DEF IInv, TypeOK, LockInv
<1>3. AuthorityInv'
  BY DEF IInv, TypeOK, LockInv, AuthorityInv
<1>4. RowsInv'
  BY DEF IInv, TypeOK, LockInv, AuthorityInv, PointInv, RowsInv, StateValid,
         SlotFree
<1>5. PointInv'
  BY DEF IInv, TypeOK, LockInv, AuthorityInv, PointInv, RowsInv, StateValid,
         Settled, Unmoved, SlotFree, Projection
<1>6. ProjectionLag' /\ OneUnfinished'
  BY DEF IInv, TypeOK, LockInv, AuthorityInv, PointInv, RowsInv, Settled,
         Unmoved, SlotFree, StateValid, Projection, ProjectionLag,
         OneUnfinished, Unfinished
<1>7. PublishedIsAudited' /\ ReceiptSound' /\ HonestFailure'
  BY DEF IInv, TypeOK, AuthorityInv, PointInv, RowsInv, Settled, Unmoved,
         SlotFree, Projection, ProjectionLag, PublishedIsAudited,
         ReceiptSound, HonestFailure
<1> QED BY <1>1, <1>2, <1>3, <1>4, <1>5, <1>6, <1>7 DEF IInv

\* The transition becomes projection_verified over a current file.
LEMMA CommitVerifiedStep ==
    ASSUME IInv, NEW h \in Hosts, CommitVerified(h)
    PROVE  IInv'
<1> USE SessionConstants DEF CommitVerified, Fail, Release, Goto, Live, durable,
      authority
<1>1. TypeOK'
  BY DEF IInv, TypeOK, TransitionStates, Results, Failures, Projection
<1>2. LockInv'
  BY DEF IInv, TypeOK, LockInv
<1>3. AuthorityInv'
  BY DEF IInv, TypeOK, LockInv, AuthorityInv
<1>4. RowsInv'
  BY DEF IInv, TypeOK, LockInv, AuthorityInv, PointInv, RowsInv, StateValid,
         SlotFree
<1>5. PointInv'
  BY DEF IInv, TypeOK, LockInv, AuthorityInv, PointInv, RowsInv, StateValid,
         Settled, Unmoved, SlotFree, Projection
<1>6. ProjectionLag' /\ OneUnfinished'
  BY DEF IInv, TypeOK, LockInv, AuthorityInv, PointInv, RowsInv, Settled,
         Unmoved, SlotFree, StateValid, Projection, ProjectionLag,
         OneUnfinished, Unfinished
<1>7. PublishedIsAudited' /\ ReceiptSound' /\ HonestFailure'
  BY DEF IInv, TypeOK, AuthorityInv, PointInv, RowsInv, Settled, Unmoved,
         SlotFree, Projection, ProjectionLag, PublishedIsAudited,
         ReceiptSound, HonestFailure
<1> QED BY <1>1, <1>2, <1>3, <1>4, <1>5, <1>6, <1>7 DEF IInv

\* The outcome record names a verified transition.
LEMMA AuditOutcomeStep ==
    ASSUME IInv, NEW h \in Hosts, NEW ok \in BOOLEAN, AuditOutcome(h, ok)
    PROVE  IInv'
<1> USE SessionConstants DEF AuditOutcome, Fail, Release, Goto, Live, durable,
      authority
<1>1. TypeOK'
  BY DEF IInv, TypeOK, AuthorityInv, Results, Failures
<1>2. LockInv'
  BY DEF IInv, TypeOK, LockInv
<1>3. AuthorityInv'
  BY DEF IInv, TypeOK, LockInv, AuthorityInv
<1>4. RowsInv'
  BY DEF IInv, TypeOK, LockInv, AuthorityInv, PointInv, RowsInv, StateValid,
         SlotFree
<1>5. PointInv'
  BY DEF IInv, TypeOK, LockInv, AuthorityInv, PointInv, RowsInv, StateValid,
         Settled, Unmoved, SlotFree, Projection
<1>6. ProjectionLag' /\ OneUnfinished'
  BY DEF IInv, TypeOK, LockInv, AuthorityInv, PointInv, RowsInv, Settled,
         Unmoved, SlotFree, StateValid, Projection, ProjectionLag,
         OneUnfinished, Unfinished
<1>7. PublishedIsAudited' /\ ReceiptSound' /\ HonestFailure'
  BY DEF IInv, TypeOK, AuthorityInv, PointInv, RowsInv, Settled, Unmoved,
         SlotFree, Projection, ProjectionLag, PublishedIsAudited,
         ReceiptSound, HonestFailure
<1> QED BY <1>1, <1>2, <1>3, <1>4, <1>5, <1>6, <1>7 DEF IInv

\* The last transaction publishes an audited transition.
LEMMA FinishStep ==
    ASSUME IInv, NEW h \in Hosts, Finish(h)
    PROVE  IInv'
<1> USE SessionConstants DEF Finish, Finishable, Fail, Release, Goto, Live,
      durable, authority
<1>1. TypeOK'
  BY DEF IInv, TypeOK, TransitionStates, Results, Failures, Projection
<1>2. LockInv'
  BY DEF IInv, TypeOK, LockInv
<1>3. AuthorityInv'
  BY DEF IInv, TypeOK, LockInv, AuthorityInv
<1>4. RowsInv'
  BY DEF IInv, TypeOK, LockInv, AuthorityInv, PointInv, RowsInv, StateValid,
         SlotFree
<1>5. PointInv'
  BY DEF IInv, TypeOK, LockInv, AuthorityInv, PointInv, RowsInv, StateValid,
         Settled, Unmoved, SlotFree, Projection
<1>6. ProjectionLag' /\ OneUnfinished'
  BY DEF IInv, TypeOK, LockInv, AuthorityInv, PointInv, RowsInv, Settled,
         Unmoved, SlotFree, StateValid, Projection, ProjectionLag,
         OneUnfinished, Unfinished
<1>7. PublishedIsAudited'
  BY DEF IInv, TypeOK, AuthorityInv, PointInv, PublishedIsAudited
<1>8. ReceiptSound'
  <2>1. CASE Finishable(h)
    <3>1. cur[h] \in audited /\ \E s \in Slots : routes[s] = cur[h] /\ index.routes[s] = cur[h]
      BY <2>1 DEF IInv, TypeOK, AuthorityInv, PointInv, RowsInv, Unmoved, Projection
    <3> QED BY <2>1, <3>1 DEF IInv, TypeOK, AuthorityInv, PointInv, ReceiptSound
  <2>2. CASE ~Finishable(h)
    BY <2>2 DEF IInv, TypeOK, AuthorityInv, PointInv, ReceiptSound
  <2> QED BY <2>1, <2>2
<1>9. HonestFailure'
  BY DEF IInv, TypeOK, AuthorityInv, PointInv, HonestFailure
<1> QED BY <1>1, <1>2, <1>3, <1>4, <1>5, <1>6, <1>7, <1>8, <1>9 DEF IInv

\* A raising transaction leaves its old or its new state.
LEMMA StorageFaultStep ==
    ASSUME IInv, NEW h \in Hosts, StorageFault(h)
    PROVE  IInv'
<1> USE SessionConstants DEF StorageFault, Fail, Release, UnexpectedCode,
      Finishable, Goto, Live, durable, authority
<1>1. TypeOK'
  <2>1. trans' \in [Attempts -> TransitionStates]
    BY DEF IInv, TypeOK, TransitionStates
  <2> QED BY <2>1 DEF IInv, TypeOK, Results, Failures
<1>2. LockInv'
  BY DEF IInv, TypeOK, LockInv
<1>3. AuthorityInv'
  BY DEF IInv, TypeOK, LockInv, AuthorityInv
<1>4. RowsInv'
  BY DEF IInv, TypeOK, LockInv, AuthorityInv, PointInv, RowsInv, StateValid,
         SlotFree
<1>5. PointInv'
  BY DEF IInv, TypeOK, LockInv, AuthorityInv, PointInv, RowsInv, StateValid,
         Settled, Unmoved, SlotFree, Projection
<1>6. ProjectionLag' /\ OneUnfinished'
  BY DEF IInv, TypeOK, LockInv, AuthorityInv, PointInv, RowsInv, Settled,
         Unmoved, SlotFree, StateValid, Projection, ProjectionLag,
         OneUnfinished, Unfinished
<1>7. PublishedIsAudited' /\ ReceiptSound' /\ HonestFailure'
  <2>1. PublishedIsAudited'
    BY DEF IInv, TypeOK, PointInv, RowsInv, PublishedIsAudited
  <2>2. ReceiptSound'
    BY DEF IInv, TypeOK, AuthorityInv, PointInv, RowsInv, ReceiptSound, Projection
  <2>3. HonestFailure'
    BY DEF IInv, TypeOK, AuthorityInv, PointInv, HonestFailure, CommitAttempted
  <2> QED BY <2>1, <2>2, <2>3
<1> QED BY <1>1, <1>2, <1>3, <1>4, <1>5, <1>6, <1>7 DEF IInv

\* Steps outside create(): nothing changes.
LEMMA StutterStep ==
    ASSUME IInv, UNCHANGED vars
    PROVE  IInv'
BY DEF IInv, vars, TypeOK, LockInv, AuthorityInv, RowsInv, PointInv, StateValid,
       Settled, Unmoved, SlotFree, Live, ProjectionLag, OneUnfinished, Unfinished,
       PublishedIsAudited, ReceiptSound, HonestFailure

\* Every step of every host preserves the inductive invariant.
LEMMA NextIInv == IInv /\ [Next]_vars => IInv'
<1> SUFFICES ASSUME IInv, [Next]_vars PROVE IInv'
  OBVIOUS
<1>1. CASE UNCHANGED vars
  BY <1>1, StutterStep
<1>2. ASSUME NEW h \in Hosts, Request(h) PROVE IInv'
  BY <1>2, AuthenticatedCreateStep DEF Request
<1>3. ASSUME NEW h \in Hosts, HostStep(h) PROVE IInv'
  <2>1. CASE BeginAttempt(h)
    BY <2>1, BeginAttemptStep
  <2>2. CASE LockProjection(h)
    BY <2>2, LockProjectionStep
  <2>3. CASE \E v \in Verdicts : Validate(h, v) \/ EnterCommitGuard(h, v)
    BY <2>3, ValidateStep, EnterCommitGuardStep
  <2>4. CASE Stage(h)
    BY <2>4, StageStep
  <2>5. CASE Commit(h)
    BY <2>5, CommitStep
  <2>6. CASE \E effect \in BOOLEAN : CommitFault(h, effect) \/ PublishFault(h, effect)
    BY <2>6, CommitFaultStep, PublishFaultStep
  <2>7. CASE EnterPublish(h)
    BY <2>7, EnterPublishStep
  <2>8. CASE Replace(h)
    BY <2>8, ReplaceStep
  <2>9. CASE Verify(h) \/ CommitVerified(h)
    BY <2>9, VerifyStep, CommitVerifiedStep
  <2>10. CASE \E ok \in BOOLEAN : AuditOutcome(h, ok)
    BY <2>10, AuditOutcomeStep
  <2>11. CASE EnterFinish(h)
    BY <2>11, EnterFinishStep
  <2>12. CASE Finish(h)
    BY <2>12, FinishStep
  <2>13. CASE StorageFault(h)
    BY <2>13, StorageFaultStep
  <2>14. CASE LeaveScope(h)
    BY <2>14, LeaveScopeStep
  <2> QED BY <1>3, <2>1, <2>2, <2>3, <2>4, <2>5, <2>6, <2>7, <2>8, <2>9, <2>10,
             <2>11, <2>12, <2>13, <2>14 DEF HostStep
<1>4. ASSUME NEW h \in Hosts, Revoke(h) PROVE IInv'
  BY <1>4, RevokeStep
<1>5. ASSUME NEW h \in Hosts, Expire(h) PROVE IInv'
  BY <1>5, ExpireStep
<1>6. ASSUME NEW h \in Hosts, Crash(h) PROVE IInv'
  BY <1>6, CrashStep
<1> QED BY <1>1, <1>2, <1>3, <1>4, <1>5, <1>6 DEF Next

-----------------------------------------------------------------------------
(***************************************************************************)
(* The inductive invariant holds in every reachable state, whatever the    *)
(* hosts, slots and descriptors, and wherever a host crashes.              *)
(***************************************************************************)
THEOREM Inductive == Spec => []IInv
<1> QED BY InitIInv, NextIInv, PTL DEF Spec

(***************************************************************************)
(* Type correctness of the tables, the file, the lock and the authorities. *)
(***************************************************************************)
THEOREM TypeCorrect == Spec => []TypeOK
<1>1. IInv => TypeOK
  BY DEF IInv
<1> QED BY <1>1, Inductive, PTL

(***************************************************************************)
(* sessions.json lags the database by at most the one pending create, and  *)
(* at most one create is unfinished (the recovery check of create()).      *)
(***************************************************************************)
THEOREM FileFollowsDatabase == Spec => [](ProjectionLag /\ OneUnfinished)
<1>1. IInv => ProjectionLag /\ OneUnfinished
  BY DEF IInv
<1> QED BY <1>1, Inductive, PTL

(***************************************************************************)
(* What create() returns or raises is true of the durable state: receipts  *)
(* name published, audited, routed sessions and plain failures hide none.  *)
(***************************************************************************)
THEOREM HonestReports == Spec => [](ReceiptSound /\ HonestFailure)
<1>1. IInv => ReceiptSound /\ HonestFailure
  BY DEF IInv
<1> QED BY <1>1, Inductive, PTL

\* The outcome audit record precedes publication.
THEOREM AuditBeforePublish == Spec => []PublishedIsAudited
<1>1. IInv => PublishedIsAudited
  BY DEF IInv
<1> QED BY <1>1, Inductive, PTL

(***************************************************************************)
(* A step that changes a transition row is one of the four transactions of *)
(* create(), taken by the host that owns the descriptor, and unless it is  *)
(* the mark projection_verified the authority is unrevoked.                *)
(***************************************************************************)
LEMMA TransitionChange ==
    ASSUME IInv, Next, NEW a \in Attempts, trans'[a] # trans[a]
    PROVE  \E h \in Hosts :
              /\ cur[h] = a
              /\ trans'[a] # Verified => active[h]
              /\ pc[h] \in BeforeCommit \cup AfterCommit
<1> USE DEF durable, authority
<1>1. PICK h \in Hosts : Request(h) \/ HostStep(h) \/ Revoke(h) \/ Expire(h) \/ Crash(h)
  BY DEF Next
<1>2. CASE Commit(h) \/ \E effect \in BOOLEAN : CommitFault(h, effect)
  BY <1>2 DEF Commit, CommitFault, CommitRows, IInv, TypeOK, AuthorityInv
<1>3. CASE CommitVerified(h)
  BY <1>3 DEF CommitVerified, IInv, TypeOK
<1>4. CASE Finish(h)
  BY <1>4 DEF Finish, IInv, TypeOK, AuthorityInv
<1>5. CASE StorageFault(h)
  BY <1>5 DEF StorageFault, IInv, TypeOK, AuthorityInv
<1>6. CASE \/ Request(h) \/ Revoke(h) \/ Expire(h) \/ Crash(h)
           \/ BeginAttempt(h) \/ LockProjection(h) \/ Stage(h) \/ EnterPublish(h)
           \/ Replace(h) \/ Verify(h) \/ EnterFinish(h) \/ LeaveScope(h)
           \/ (\E v \in Verdicts : Validate(h, v) \/ EnterCommitGuard(h, v))
           \/ (\E effect \in BOOLEAN : PublishFault(h, effect))
           \/ (\E ok \in BOOLEAN : AuditOutcome(h, ok))
  <2>1. UNCHANGED trans
    BY <1>6 DEF Request, AuthenticatedCreate, Revoke, Expire, Crash, BeginAttempt,
         LockProjection, Stage, EnterPublish, Replace, Verify, EnterFinish, LeaveScope,
         Validate, EnterCommitGuard, PublishFault, AuditOutcome
  <2> QED BY <2>1
<1> QED BY <1>1, <1>2, <1>3, <1>4, <1>5, <1>6 DEF HostStep

(***************************************************************************)
(* revoke() never falls inside a guarded commit: a create's rows become    *)
(* durable, and are published, under its own unrevoked authority.          *)
(***************************************************************************)
THEOREM RevocationSerialized == Spec => OnlyUnrevoked
<1>1. IInv /\ [Next]_vars =>
        [\A a \in Attempts : trans'[a] # trans[a] /\ trans'[a] # Verified =>
            \E h \in Hosts : cur[h] = a /\ active[h]]_vars
  BY TransitionChange
<1> QED BY <1>1, Inductive, PTL DEF Spec, OnlyUnrevoked

\* Only an attempt that is still running changes its transition.
LEMMA ReportedStepFinal ==
    ASSUME IInv, Next, NEW a \in Attempts, result[a] \notin {"unused", "running"}
    PROVE  trans'[a] = trans[a]
<1> SUFFICES ASSUME trans'[a] # trans[a] PROVE FALSE
  OBVIOUS
<1>1. PICK h \in Hosts : cur[h] = a /\ pc[h] \in BeforeCommit \cup AfterCommit
  BY TransitionChange
<1> QED BY <1>1 DEF IInv, AuthorityInv

(***************************************************************************)
(* No step completes a transition after its outcome has been reported.     *)
(***************************************************************************)
THEOREM NoLateEffect == Spec => ReportedIsFinal
<1>1. IInv /\ [Next]_vars =>
        [\A a \in Attempts :
            result[a] \notin {"unused", "running"} => trans'[a] = trans[a]]_vars
  BY ReportedStepFinal
<1> QED BY <1>1, Inductive, PTL DEF Spec, ReportedIsFinal

(***************************************************************************)
(* Only CommitRows changes the generation and the routes.                  *)
(***************************************************************************)
LEMMA GenerationChange ==
    ASSUME IInv, Next, generation' # generation \/ routes' # routes
    PROVE  \E h \in Hosts : pc[h] = "committing" /\ CommitRows(h)
<1> USE DEF durable, authority
<1>1. PICK h \in Hosts : Request(h) \/ HostStep(h) \/ Revoke(h) \/ Expire(h) \/ Crash(h)
  BY DEF Next
<1>2. CASE Commit(h) \/ \E effect \in BOOLEAN : CommitFault(h, effect)
  BY <1>2 DEF Commit, CommitFault
<1>3. CASE \/ Request(h) \/ Revoke(h) \/ Expire(h) \/ Crash(h)
           \/ BeginAttempt(h) \/ LockProjection(h) \/ Stage(h) \/ EnterPublish(h)
           \/ Replace(h) \/ EnterFinish(h) \/ LeaveScope(h)
           \/ Verify(h) \/ CommitVerified(h) \/ Finish(h) \/ StorageFault(h)
           \/ (\E v \in Verdicts : Validate(h, v) \/ EnterCommitGuard(h, v))
           \/ (\E effect \in BOOLEAN : PublishFault(h, effect))
           \/ (\E ok \in BOOLEAN : AuditOutcome(h, ok))
  <2>1. UNCHANGED <<generation, routes>>
    BY <1>3 DEF Request, AuthenticatedCreate, Revoke, Expire, Crash, BeginAttempt,
         LockProjection, Stage, EnterPublish, Replace, EnterFinish, LeaveScope,
         Validate, EnterCommitGuard, PublishFault, AuditOutcome, Verify, CommitVerified,
         Finish, StorageFault
  <2> QED BY <2>1
<1> QED BY <1>1, <1>2, <1>3 DEF HostStep

\* create() commits a generation only over a finished state that the index file shows.
THEOREM OneGenerationAtATime == Spec => CommitsOnSettled
<1>1. IInv /\ [Next]_vars =>
        [generation' # generation =>
            /\ index = Projection(generation, routes)
            /\ Unfinished = {}]_vars
  <2> SUFFICES ASSUME IInv, Next, generation' # generation
               PROVE  index = Projection(generation, routes) /\ Unfinished = {}
    OBVIOUS
  <2>1. Settled
    BY GenerationChange DEF IInv, PointInv
  <2> QED BY <2>1 DEF Settled, Unfinished
<1> QED BY <1>1, Inductive, PTL DEF Spec, CommitsOnSettled

\* A slot that routes to a session routes to it for ever.
THEOREM RoutesNeverMove == Spec => RoutesAreStable
<1>1. IInv /\ [Next]_vars =>
        [\A s \in Slots : routes[s] # NoAttempt => routes'[s] = routes[s]]_vars
  <2> SUFFICES ASSUME IInv, Next, NEW s \in Slots, routes[s] # NoAttempt, routes' # routes
               PROVE  routes'[s] = routes[s]
    OBVIOUS
  <2>1. PICK h \in Hosts : pc[h] = "committing" /\ CommitRows(h)
    BY GenerationChange
  <2>2. CommitFacts(h)
    BY <2>1, RowsCommitted
  <2> QED BY <2>2 DEF CommitFacts
<1> QED BY <1>1, Inductive, PTL DEF Spec, RoutesAreStable

-----------------------------------------------------------------------------
(***************************************************************************)
(* Refinement.  The rows a register step depends on change in three ways:  *)
(* the rows of a create, verification, and publication.                    *)
(***************************************************************************)
LEMMA RowChange ==
    ASSUME IInv, Next
    PROVE  \/ UNCHANGED <<routes, trans>>
           \/ \E h \in Hosts : pc[h] = "committing" /\ CommitRows(h)
           \/ \E h \in Hosts :
                /\ pc[h] = "verifying"
                /\ UNCHANGED routes /\ trans' = [trans EXCEPT ![cur[h]] = Verified]
           \/ \E h \in Hosts :
                /\ pc[h] = "finishing"
                /\ UNCHANGED routes /\ trans' = [trans EXCEPT ![cur[h]] = Published]
<1> USE DEF durable, authority
<1>1. PICK h \in Hosts : Request(h) \/ HostStep(h) \/ Revoke(h) \/ Expire(h) \/ Crash(h)
  BY DEF Next
<1>2. CASE Commit(h) \/ \E effect \in BOOLEAN : CommitFault(h, effect)
  BY <1>2 DEF Commit, CommitFault
<1>3. CASE CommitVerified(h)
  BY <1>3 DEF CommitVerified
<1>4. CASE Finish(h)
  BY <1>4 DEF Finish
<1>5. CASE StorageFault(h)
  BY <1>5 DEF StorageFault
<1>6. CASE \/ Request(h) \/ Revoke(h) \/ Expire(h) \/ Crash(h)
           \/ BeginAttempt(h) \/ LockProjection(h) \/ Stage(h) \/ EnterPublish(h)
           \/ Replace(h) \/ Verify(h) \/ EnterFinish(h) \/ LeaveScope(h)
           \/ (\E v \in Verdicts : Validate(h, v) \/ EnterCommitGuard(h, v))
           \/ (\E effect \in BOOLEAN : PublishFault(h, effect))
           \/ (\E ok \in BOOLEAN : AuditOutcome(h, ok))
  BY <1>6 DEF Request, AuthenticatedCreate, Revoke, Expire, Crash, BeginAttempt,
       LockProjection, Stage, EnterPublish, Replace, Verify, EnterFinish, LeaveScope,
       Validate, EnterCommitGuard, PublishFault, AuditOutcome
<1> QED BY <1>1, <1>2, <1>3, <1>4, <1>5, <1>6 DEF HostStep

\* The commit of the rows is the register's Reserve step.
LEMMA CommitReserves ==
    ASSUME IInv, NEW h \in Hosts, pc[h] = "committing", CommitRows(h)
    PROVE  Registry!Reserve(SlotOf[h], cur[h])
<1>1. CommitFacts(h)
  BY RowsCommitted
<1>2. InDoubt = {}
  BY <1>1 DEF CommitFacts, InDoubt
<1>3. Visible[SlotOf[h]] = NoAttempt
  BY <1>1, SessionConstants DEF CommitFacts, Visible
<1>4. \A t \in Slots : Visible[t] # cur[h]
  BY <1>1 DEF CommitFacts, Visible
<1>5. InDoubt' = {<<SlotOf[h], cur[h]>>}
  <2>1. \A a \in Attempts : a \in Unfinished' <=> a = cur[h]
    BY <1>1 DEF CommitFacts, Unfinished
  <2>2. \A s \in Slots, a \in Attempts :
           routes'[s] = a /\ a \in Unfinished' <=> s = SlotOf[h] /\ a = cur[h]
    BY <1>1, <2>1 DEF CommitFacts
  <2> QED BY <1>1, <2>2 DEF CommitFacts, InDoubt
<1>6. Visible' = Visible
  <2>1. ASSUME NEW s \in Slots
        PROVE  (routes'[s] \in Attempts /\ trans'[routes'[s]] = Published)
                 <=> (routes[s] \in Attempts /\ trans[routes[s]] = Published)
    <3>1. CASE s = SlotOf[h]
      BY <1>1, <3>1, SessionConstants DEF CommitFacts
    <3>2. CASE s # SlotOf[h]
      BY <1>1, <3>2 DEF CommitFacts
    <3> QED BY <3>1, <3>2
  <2>2. \A s \in Slots : routes[s] \in Attempts => routes'[s] = routes[s]
    BY <1>1, SessionConstants DEF CommitFacts
  <2> QED BY <2>1, <2>2 DEF Visible
<1> QED BY <1>2, <1>3, <1>4, <1>5, <1>6 DEF Registry!Reserve

\* Verification is invisible to the register.
LEMMA VerifyHidden ==
    ASSUME IInv, NEW h \in Hosts, pc[h] = "verifying",
           UNCHANGED routes, trans' = [trans EXCEPT ![cur[h]] = Verified]
    PROVE  UNCHANGED <<Visible, InDoubt>>
<1>1. cur[h] \in Attempts /\ trans[cur[h]] = Pending
  BY DEF IInv, TypeOK, AuthorityInv, PointInv
<1>2. \A a \in Attempts : trans'[a] = IF a = cur[h] THEN Verified ELSE trans[a]
  BY DEF IInv, TypeOK
<1>3. Unfinished' = Unfinished
  BY <1>1, <1>2 DEF Unfinished
<1>4. \A a \in Attempts : trans'[a] = Published <=> trans[a] = Published
  BY <1>1, <1>2
<1> QED BY <1>3, <1>4 DEF Visible, InDoubt

\* Publication is the register's Publish step.
LEMMA FinishPublishes ==
    ASSUME IInv, NEW h \in Hosts, pc[h] = "finishing",
           UNCHANGED routes, trans' = [trans EXCEPT ![cur[h]] = Published]
    PROVE  Registry!Publish(SlotOf[h], cur[h])
<1>1. /\ cur[h] \in Attempts /\ trans[cur[h]] = Verified
      /\ SlotOf[h] \in Slots /\ routes[SlotOf[h]] = cur[h]
  BY SessionConstants DEF IInv, TypeOK, AuthorityInv, PointInv
<1>2. \A a \in Attempts : trans'[a] = IF a = cur[h] THEN Published ELSE trans[a]
  BY DEF IInv, TypeOK
<1>3. \A a \in Attempts : a \in Unfinished <=> a = cur[h]
  BY <1>1 DEF IInv, OneUnfinished, Unfinished
<1>4. Unfinished' = {}
  BY <1>2, <1>3 DEF Unfinished
<1>5. \A s \in Slots : routes[s] = cur[h] <=> s = SlotOf[h]
  BY <1>1, SessionConstants DEF IInv, RowsInv
<1>6. InDoubt = {<<SlotOf[h], cur[h]>>}
  BY <1>1, <1>3, <1>5 DEF InDoubt
<1>7. InDoubt' = {}
  BY <1>4 DEF InDoubt
<1>8. Visible' = [Visible EXCEPT ![SlotOf[h]] = cur[h]]
  BY <1>1, <1>2, <1>5 DEF Visible
<1> QED BY <1>6, <1>7, <1>8 DEF Registry!Publish

\* The empty tables are the register's initial state.
LEMMA RegisterInit == Init => Registry!Init
<1> SUFFICES ASSUME Init PROVE Registry!Init
  OBVIOUS
<1>1. \A s \in Slots : routes[s] \notin Attempts
  BY SessionConstants DEF Init, EmptyRoutes
<1>2. Visible = [s \in Slots |-> NoAttempt]
  BY <1>1 DEF Visible
<1>3. InDoubt = {}
  BY <1>1 DEF InDoubt
<1> QED BY <1>2, <1>3 DEF Registry!Init

\* Every step of a create is a step of the register or hidden from it.
LEMMA RegisterStep ==
    ASSUME IInv, [Next]_vars
    PROVE  [Registry!Next]_<<Visible, InDoubt>>
<1>1. CASE UNCHANGED <<routes, trans>>
  BY <1>1 DEF Visible, InDoubt, Unfinished
<1>2. ASSUME NEW h \in Hosts, pc[h] = "committing", CommitRows(h)
      PROVE  Registry!Next
  <2>1. SlotOf[h] \in Slots /\ cur[h] \in Attempts
    BY <1>2, RowsCommitted DEF CommitFacts
  <2> QED BY <1>2, <2>1, CommitReserves DEF Registry!Next
<1>3. ASSUME NEW h \in Hosts, pc[h] = "verifying",
             UNCHANGED routes, trans' = [trans EXCEPT ![cur[h]] = Verified]
      PROVE  UNCHANGED <<Visible, InDoubt>>
  BY <1>3, VerifyHidden
<1>4. ASSUME NEW h \in Hosts, pc[h] = "finishing",
             UNCHANGED routes, trans' = [trans EXCEPT ![cur[h]] = Published]
      PROVE  Registry!Next
  <2>1. SlotOf[h] \in Slots /\ cur[h] \in Attempts
    BY <1>4, SessionConstants DEF IInv, TypeOK, AuthorityInv
  <2> QED BY <1>4, <2>1, FinishPublishes DEF Registry!Next
<1>5. CASE Next
  BY <1>1, <1>2, <1>3, <1>4, <1>5, RowChange
<1>6. CASE UNCHANGED vars
  BY <1>1, <1>6 DEF vars
<1> QED BY <1>5, <1>6

(***************************************************************************)
(* create(), with its crashes and faults, implements the atomic register.  *)
(***************************************************************************)
THEOREM Implements == Spec => RegistrySpec
<1>1. IInv /\ [Next]_vars => [Registry!Next]_<<Visible, InDoubt>>
  BY RegisterStep
<1> QED BY <1>1, RegisterInit, Inductive, PTL DEF Spec, RegistrySpec, Registry!Spec
-----------------------------------------------------------------------------
(***************************************************************************)
(* The readers beside the creators.  What a create may do to a reader: it  *)
(* never takes or gives back a lock a reader holds, it changes nothing     *)
(* durable unless its own host has the lock, and what was routed and       *)
(* published stays so.                                                     *)
(***************************************************************************)
LEMMA CreatorsLock ==
    ASSUME IInv, [Next]_vars
    PROVE  \A r \in Readers : lock' = r <=> lock = r
<1> SUFFICES ASSUME lock' # lock
             PROVE  \E h \in Hosts : {lock, lock'} = {h, Free}
  BY SessionConstants
<1> USE DEF durable, authority
<1>1. PICK h \in Hosts : Request(h) \/ HostStep(h) \/ Revoke(h) \/ Expire(h) \/ Crash(h)
  BY DEF Next, vars
<1>2. CASE LockProjection(h)
  <2>1. CASE lock = Free
    <3>1. lock' = h
      BY <1>2, <2>1 DEF LockProjection
    <3> QED BY <2>1, <3>1
  <2>2. CASE lock # Free
    BY <1>2, <2>2 DEF LockProjection, Fail, Release
  <2> QED BY <2>1, <2>2
<1>3. CASE Finish(h)
  BY <1>3 DEF Finish, Fail, Release, IInv, LockInv
<1>4. CASE Crash(h) \/ StorageFault(h) \/ Stage(h) \/ EnterPublish(h) \/ Verify(h)
           \/ EnterFinish(h)
  BY <1>4 DEF Crash, StorageFault, Stage, EnterPublish, Verify, EnterFinish, Fail, Release
<1>5. CASE \/ \E v \in Verdicts : Validate(h, v) \/ EnterCommitGuard(h, v)
           \/ \E effect \in BOOLEAN : CommitFault(h, effect) \/ PublishFault(h, effect)
           \/ \E ok \in BOOLEAN : AuditOutcome(h, ok)
  BY <1>5 DEF Validate, EnterCommitGuard, CommitFault, PublishFault, AuditOutcome,
       Fail, Release
<1>6. CASE \/ Request(h) \/ Revoke(h) \/ Expire(h) \/ BeginAttempt(h) \/ Commit(h)
           \/ Replace(h) \/ CommitVerified(h) \/ LeaveScope(h)
  BY <1>6 DEF Request, AuthenticatedCreate, Revoke, Expire, BeginAttempt, Commit,
       Replace, CommitVerified, LeaveScope
<1> QED BY <1>1, <1>2, <1>3, <1>4, <1>5, <1>6 DEF HostStep

LEMMA CreatorsNeedTheLock ==
    ASSUME IInv, [Next]_vars, lock \notin Hosts
    PROVE  UNCHANGED <<generation, routes, hash, trans, index>>
<1> USE DEF durable, authority
<1>1. \A k \in Hosts : pc[k] \notin LockedPoints
  BY DEF IInv, LockInv
<1>2. CASE UNCHANGED vars
  BY <1>2 DEF vars
<1>3. CASE Next
  <2>1. PICK h \in Hosts :
           Request(h) \/ HostStep(h) \/ Revoke(h) \/ Expire(h) \/ Crash(h)
    BY <1>3 DEF Next
  <2>2. CASE StorageFault(h)
    BY <2>2, <1>1 DEF StorageFault
  <2>3. CASE \/ Request(h) \/ Revoke(h) \/ Expire(h) \/ Crash(h)
             \/ BeginAttempt(h) \/ LockProjection(h) \/ LeaveScope(h)
    BY <2>3 DEF Request, AuthenticatedCreate, Revoke, Expire, Crash, BeginAttempt,
         LockProjection, LeaveScope
  <2>4. CASE \/ \E v \in Verdicts : Validate(h, v) \/ EnterCommitGuard(h, v)
             \/ \E effect \in BOOLEAN : CommitFault(h, effect) \/ PublishFault(h, effect)
             \/ \E ok \in BOOLEAN : AuditOutcome(h, ok)
    BY <2>4, <1>1 DEF Validate, EnterCommitGuard, CommitFault, PublishFault, AuditOutcome
  <2>5. CASE \/ Stage(h) \/ Commit(h) \/ EnterPublish(h) \/ Replace(h) \/ Verify(h)
             \/ CommitVerified(h) \/ EnterFinish(h) \/ Finish(h)
    BY <2>5, <1>1 DEF Stage, Commit, EnterPublish, Replace, Verify, CommitVerified,
         EnterFinish, Finish
  <2> QED BY <2>1, <2>2, <2>3, <2>4, <2>5 DEF HostStep
<1> QED BY <1>2, <1>3

LEMMA PublishedStays ==
    ASSUME IInv, [Next]_vars
    PROVE  /\ \A s \in Slots : routes[s] # NoAttempt => routes'[s] = routes[s]
           /\ \A a \in Attempts : trans[a] = Published => trans'[a] = Published
<1>1. CASE UNCHANGED <<routes, trans>>
  BY <1>1
<1>2. ASSUME NEW h \in Hosts, pc[h] = "committing", CommitRows(h)
      PROVE  /\ \A s \in Slots : routes[s] # NoAttempt => routes'[s] = routes[s]
             /\ \A a \in Attempts : trans[a] = Published => trans'[a] = Published
  BY <1>2, RowsCommitted DEF CommitFacts
<1>3. ASSUME NEW h \in Hosts, pc[h] = "verifying",
             UNCHANGED routes, trans' = [trans EXCEPT ![cur[h]] = Verified]
      PROVE  \A a \in Attempts : trans[a] = Published => trans'[a] = Published
  BY <1>3 DEF IInv, TypeOK, PointInv
<1>4. ASSUME NEW h \in Hosts, pc[h] = "finishing",
             UNCHANGED routes, trans' = [trans EXCEPT ![cur[h]] = Published]
      PROVE  \A a \in Attempts : trans[a] = Published => trans'[a] = Published
  BY <1>4 DEF IInv, TypeOK
<1>5. CASE Next
  BY <1>1, <1>2, <1>3, <1>4, <1>5, RowChange
<1> QED BY <1>1, <1>5 DEF vars

(***************************************************************************)
(* A reader moves nothing of the creators but a lock that no host holds.   *)
(***************************************************************************)
LockMove == lock' = lock \/ (lock \notin Hosts /\ lock' \in Readers \cup {Free})

LEMMA ReaderStepKeepsIInv ==
    ASSUME IInv, UNCHANGED createVars, LockMove
    PROVE  IInv'
<1> USE DEF createVars
<1>1. TypeOK'
  BY DEF LockMove, IInv, TypeOK
<1>2. LockInv'
  BY SessionConstants DEF LockMove, IInv, LockInv
<1>3. AuthorityInv'
  BY DEF IInv, AuthorityInv, Live
<1>4. RowsInv' /\ PointInv'
  BY DEF IInv, RowsInv, PointInv, StateValid, Settled, Unmoved, SlotFree
<1>5. ProjectionLag' /\ OneUnfinished' /\ PublishedIsAudited' /\ ReceiptSound' /\ HonestFailure'
  BY DEF IInv, ProjectionLag, OneUnfinished, Unfinished, PublishedIsAudited,
       ReceiptSound, HonestFailure
<1> QED BY <1>1, <1>2, <1>3, <1>4, <1>5 DEF IInv

\* No reader is started, so no lock is held by one and nothing is cached.
LEMMA InitReader == ReaderInit => ReaderIInv
<1> SUFFICES ASSUME ReaderInit PROVE ReaderIInv
  OBVIOUS
<1>1. IInv
  BY InitIInv DEF ReaderInit
<1>2. ReaderTypeOK
  BY DEF ReaderInit, ReaderTypeOK, Scopes
<1>3. ReaderLockInv
  BY SessionConstants DEF ReaderInit, Init, ReaderLockInv, HoldingScopes
<1>4. SelectionInv /\ CacheInv
  BY DEF ReaderInit, SelectionInv, CacheInv
<1> QED BY <1>1, <1>2, <1>3, <1>4 DEF ReaderIInv

(***************************************************************************)
(* A create beside the readers: a selected session is protected by the     *)
(* lock its scope holds, a cached one by the stability of publications.    *)
(***************************************************************************)
LEMMA CreatorStep ==
    ASSUME ReaderIInv, [Next]_vars, UNCHANGED readerVars
    PROVE  ReaderIInv'
<1> USE DEF readerVars
<1>1. IInv'
  BY NextIInv DEF ReaderIInv
<1>2. ReaderTypeOK'
  BY DEF ReaderIInv, ReaderTypeOK
<1>3. ReaderLockInv'
  BY CreatorsLock DEF ReaderIInv, ReaderLockInv
<1>4. SelectionInv'
  <2> SUFFICES ASSUME NEW r \in Readers, scope[r] \in {"selected", "open"}
               PROVE  /\ chosen[r] = RouteOf(r)' /\ chosen[r] # NoAttempt
                      /\ Settled'
                      /\ trans'[chosen[r]] = Published
    BY DEF SelectionInv
  <2>1. lock = r /\ lock \notin Hosts
    BY SessionConstants DEF ReaderIInv, ReaderLockInv, HoldingScopes
  <2>2. UNCHANGED <<generation, routes, hash, trans, index>>
    BY <2>1, CreatorsNeedTheLock DEF ReaderIInv
  <2> QED BY <2>2 DEF ReaderIInv, SelectionInv, RouteOf, Settled, StateValid
<1>5. CacheInv'
  <2> SUFFICES ASSUME NEW r \in Readers, entries[r] # NoAttempt
               PROVE  entries[r] = RouteOf(r)' /\ trans'[entries[r]] = Published
    BY DEF CacheInv
  <2>1. ReaderSlot[r] \in Slots /\ entries[r] \in Attempts
    BY ReaderConstants DEF ReaderIInv, ReaderTypeOK
  <2> QED BY <2>1, PublishedStays DEF ReaderIInv, CacheInv, RouteOf
<1> QED BY <1>1, <1>2, <1>3, <1>4, <1>5 DEF ReaderIInv

(***************************************************************************)
(* A step of one reader leaves the rows of the others as they are; each    *)
(* part of the invariant is an argument about the reader that moved.       *)
(***************************************************************************)
Others(r) ==
    \A q \in Readers \ {r} :
        /\ scope'[q] = scope[q] /\ chosen'[q] = chosen[q] /\ lease'[q] = lease[q]
        /\ entries'[q] = entries[q] /\ reading'[q] = reading[q]

\* What the invariant says of one reader after its step.
Mover(r) ==
    /\ lock' = r <=> scope'[r] \in HoldingScopes \/ reading'[r] = "locked"
    /\ ~(scope'[r] \in HoldingScopes /\ reading'[r] = "locked")
    /\ lease'[r] => scope'[r] = "open"
    /\ scope'[r] \in {"selected", "open"} =>
          /\ chosen'[r] = RouteOf(r) /\ chosen'[r] # NoAttempt
          /\ Settled
          /\ trans[chosen'[r]] = Published
    /\ entries'[r] # NoAttempt =>
          entries'[r] = RouteOf(r) /\ trans[entries'[r]] = Published

LEMMA MoverStep ==
    ASSUME ReaderIInv, NEW r \in Readers, UNCHANGED createVars,
           lock' = lock \/ {lock, lock'} = {r, Free},
           Others(r), Mover(r), ReaderTypeOK'
    PROVE  ReaderIInv'
<1>1. IInv'
  BY ReaderStepKeepsIInv, SessionConstants DEF LockMove, ReaderIInv
<1>2. \A q \in Readers \ {r} : lock' = q <=> lock = q
  BY SessionConstants
<1>3. ReaderLockInv'
  BY <1>2 DEF ReaderIInv, ReaderLockInv, Others, Mover
<1>4. RouteOf(r)' = RouteOf(r) /\ Settled' = Settled /\ trans' = trans
  BY DEF createVars, RouteOf, Settled, StateValid
<1>5. \A q \in Readers : RouteOf(q)' = RouteOf(q)
  BY DEF createVars, RouteOf
<1>6. SelectionInv'
  BY <1>4, <1>5 DEF ReaderIInv, SelectionInv, Others, Mover
<1>7. CacheInv'
  BY <1>4, <1>5 DEF ReaderIInv, CacheInv, Others, Mover
<1> QED BY <1>1, <1>3, <1>6, <1>7 DEF ReaderIInv

\* The session a valid entry names.
LEMMA RouteIsAttempt ==
    ASSUME ReaderIInv, NEW r \in Readers
    PROVE  RouteOf(r) \in Attempts \cup {NoAttempt}
BY ReaderConstants DEF ReaderIInv, IInv, TypeOK, RouteOf

LEMMA ReadSteps ==
    ASSUME ReaderIInv, NEW r \in Readers, NEW v \in Verdicts,
           ReadLock(r) \/ ReadEntry(r, v) \/ ReadClear(r)
    PROVE  ReaderIInv'
<1> USE DEF Cache, ClearCache
<1>1. ReaderTypeOK'
  BY RouteIsAttempt DEF ReadLock, ReadEntry, ReadClear, ReaderIInv, ReaderTypeOK
<1>2. UNCHANGED createVars /\ Others(r)
  BY DEF ReadLock, ReadEntry, ReadClear, ReaderIInv, ReaderTypeOK, Others
<1>3. lock' = lock \/ {lock, lock'} = {r, Free}
  BY DEF ReadLock, ReadEntry, ReadClear, TryLock, ReaderIInv, ReaderLockInv
<1>4. Mover(r)
  BY SessionConstants DEF ReadLock, ReadEntry, ReadClear, TryLock, ValidEntry,
     ReaderIInv, ReaderTypeOK, ReaderLockInv, SelectionInv, CacheInv, Mover
<1> QED BY <1>1, <1>2, <1>3, <1>4, MoverStep

LEMMA ScopeOpens ==
    ASSUME ReaderIInv, NEW r \in Readers, NEW v \in Verdicts, NEW ok \in BOOLEAN,
           ScopeLock(r) \/ ScopeSelect(r, v) \/ ScopeEnter(r, ok)
    PROVE  ReaderIInv'
<1> USE DEF Cache, ClearCache, ScopeGoto, ScopeFails, HoldingScopes
<1>1. ReaderTypeOK'
  BY RouteIsAttempt DEF ScopeLock, ScopeSelect, ScopeEnter, ReaderIInv, ReaderTypeOK, Scopes
<1>2. UNCHANGED createVars /\ Others(r)
  BY DEF ScopeLock, ScopeSelect, ScopeEnter, ReaderIInv, ReaderTypeOK, Others
<1>3. lock' = lock \/ {lock, lock'} = {r, Free}
  BY DEF ScopeLock, ScopeSelect, ScopeEnter, TryLock, ReaderIInv, ReaderLockInv
<1>4. Mover(r)
  BY SessionConstants DEF ScopeLock, ScopeSelect, ScopeEnter, TryLock, ValidEntry,
     ReaderIInv, ReaderTypeOK, ReaderLockInv, SelectionInv, CacheInv, Mover
<1> QED BY <1>1, <1>2, <1>3, <1>4, MoverStep

LEMMA ScopeEnds ==
    ASSUME ReaderIInv, NEW r \in Readers, NEW raised \in BOOLEAN,
           ScopeClose(r) \/ ScopeUnlock(r, raised) \/ ScopeClear(r) \/ LeaseExpires(r)
    PROVE  ReaderIInv'
<1> USE DEF Cache, ClearCache, ScopeGoto, HoldingScopes
<1>1. ReaderTypeOK'
  BY DEF ScopeClose, ScopeUnlock, ScopeClear, LeaseExpires, ReaderIInv, ReaderTypeOK, Scopes
<1>2. UNCHANGED createVars /\ Others(r)
  BY DEF ScopeClose, ScopeUnlock, ScopeClear, LeaseExpires, ReaderIInv, ReaderTypeOK, Others
<1>3. lock' = lock \/ {lock, lock'} = {r, Free}
  BY DEF ScopeClose, ScopeUnlock, ScopeClear, LeaseExpires, ReaderIInv, ReaderLockInv
<1>4. Mover(r)
  BY SessionConstants DEF ScopeClose, ScopeUnlock, ScopeClear, LeaseExpires,
     ReaderIInv, ReaderTypeOK, ReaderLockInv, SelectionInv, CacheInv, Mover
<1> QED BY <1>1, <1>2, <1>3, <1>4, MoverStep

LEMMA LoadAndCrashSteps ==
    ASSUME ReaderIInv, NEW r \in Readers, NEW v \in Verdicts,
           LoadFirst(r, v) \/ LoadSecond(r, v) \/ ReaderCrash(r)
    PROVE  ReaderIInv'
<1> USE DEF Cache, ClearCache, ScopeGoto, HoldingScopes
<1>1. ReaderTypeOK'
  BY RouteIsAttempt
  DEF LoadFirst, LoadSecond, ReaderCrash, ReaderIInv, ReaderTypeOK, Scopes
<1>2. UNCHANGED createVars /\ Others(r)
  BY DEF LoadFirst, LoadSecond, ReaderCrash, ReaderIInv, ReaderTypeOK, Others
<1>3. lock' = lock \/ {lock, lock'} = {r, Free}
  BY DEF LoadFirst, LoadSecond, ReaderCrash
<1>4. Mover(r)
  BY SessionConstants DEF LoadFirst, LoadSecond, ReaderCrash,
     ReaderIInv, ReaderTypeOK, ReaderLockInv, SelectionInv, CacheInv, Mover
<1> QED BY <1>1, <1>2, <1>3, <1>4, MoverStep

\* Every step of a creator or of a reader.
LEMMA ReaderNextInv == ReaderIInv /\ [ReaderNext]_allVars => ReaderIInv'
<1> SUFFICES ASSUME ReaderIInv, [ReaderNext]_allVars PROVE ReaderIInv'
  OBVIOUS
<1>1. CASE [Next]_vars /\ UNCHANGED readerVars
  BY <1>1, CreatorStep
<1>2. ASSUME NEW r \in Readers, ReaderStep(r) PROVE ReaderIInv'
  <2>1. "allow" \in Verdicts /\ TRUE \in BOOLEAN
    BY DEF Verdicts
  <2> QED BY <1>2, <2>1, ReadSteps, ScopeOpens, ScopeEnds, LoadAndCrashSteps DEF ReaderStep
<1> QED BY <1>1, <1>2 DEF ReaderNext, allVars

(***************************************************************************)
(* The invariant of the creators and the readers together.                 *)
(***************************************************************************)
THEOREM ReaderInductive == ReaderSpec => []ReaderIInv
<1> QED BY InitReader, ReaderNextInv, PTL DEF ReaderSpec

(***************************************************************************)
(* An open conversation scope reads a published, routed session of a       *)
(* settled store, and the entry cache never names anything else            *)
(* (authenticated_request and read of session_readers.py).                 *)
(***************************************************************************)
THEOREM ScopesSeePublished == ReaderSpec => []ReadersSeePublished
<1>1. ReaderIInv => ReadersSeePublished
  BY DEF ReaderIInv, SelectionInv, CacheInv, ReadersSeePublished
<1> QED BY <1>1, ReaderInductive, PTL

(***************************************************************************)
(* No create moves the store under an open scope, and load_transcript      *)
(* returns a transcript only while its own scope holds lock and lease.     *)
(***************************************************************************)
THEOREM ScopeFreezesTheStore == ReaderSpec => ReadsUnderScope
<1>1. ReaderIInv /\ [ReaderNext]_allVars =>
        [\A r \in Readers :
          /\ scope[r] = "open" => UNCHANGED <<generation, routes, trans, index>>
          /\ delivered'[r] # delivered[r] /\ delivered'[r] # NoAttempt =>
                /\ lock = r /\ lease[r]
                /\ delivered'[r] = chosen[r]]_allVars
  <2> SUFFICES ASSUME ReaderIInv, ReaderNext, NEW r \in Readers
               PROVE  /\ scope[r] = "open" => UNCHANGED <<generation, routes, trans, index>>
                      /\ delivered'[r] # delivered[r] /\ delivered'[r] # NoAttempt =>
                            /\ lock = r /\ lease[r]
                            /\ delivered'[r] = chosen[r]
    OBVIOUS
  <2>1. CASE Next /\ UNCHANGED readerVars
    <3>1. scope[r] = "open" => lock \notin Hosts
      BY SessionConstants DEF ReaderIInv, ReaderLockInv, HoldingScopes
    <3> QED BY <2>1, <3>1, CreatorsNeedTheLock DEF ReaderIInv, readerVars
  <2>2. ASSUME NEW q \in Readers, ReaderStep(q)
        PROVE  UNCHANGED createVars /\ (delivered' = delivered \/
                 \E v \in Verdicts : LoadFirst(q, v) \/ LoadSecond(q, v))
    BY <2>2 DEF ReaderStep, ReadLock, ReadEntry, ReadClear, ScopeLock, ScopeSelect,
       ScopeEnter, ScopeClose, ScopeUnlock, ScopeClear, LeaseExpires, LoadFirst,
       LoadSecond, ReaderCrash
  <2>3. ASSUME NEW q \in Readers, NEW v \in Verdicts, LoadFirst(q, v) \/ LoadSecond(q, v),
               delivered'[r] # delivered[r], delivered'[r] # NoAttempt
        PROVE  lock = r /\ lease[r] /\ delivered'[r] = chosen[r]
    <3>1. q = r /\ LoadSecond(r, v) /\ LoadAllowed(r, v) /\ delivered'[r] = RouteOf(r)
      BY <2>3 DEF LoadFirst, LoadSecond, ReaderIInv, ReaderTypeOK
    <3> QED BY <3>1 DEF LoadAllowed, ReaderIInv, ReaderLockInv, HoldingScopes
  <2> QED BY <2>1, <2>2, <2>3 DEF ReaderNext, createVars
<1> QED BY <1>1, ReaderInductive, PTL DEF ReaderSpec, ReadsUnderScope

(***************************************************************************)
(* With readers competing for the lock file, what was proved of the        *)
(* creators alone still holds.                                             *)
(***************************************************************************)
THEOREM CreatorsUnmoved ==
    ReaderSpec => [](ProjectionLag /\ HonestFailure) /\ ReportedIsFinal /\ OnlyUnrevoked
<1>1. ReaderIInv => IInv /\ ProjectionLag /\ HonestFailure
  BY DEF ReaderIInv, IInv
<1>2. [ReaderNext]_allVars => [Next]_vars \/ UNCHANGED trans
  BY DEF ReaderNext, allVars, createVars, ReaderStep, ReadLock, ReadEntry, ReadClear,
     ScopeLock, ScopeSelect, ScopeEnter, ScopeClose, ScopeUnlock, ScopeClear,
     LeaseExpires, LoadFirst, LoadSecond, ReaderCrash
<1>3. ReaderIInv /\ [ReaderNext]_allVars =>
        [\A a \in Attempts :
            result[a] \notin {"unused", "running"} => trans'[a] = trans[a]]_vars
  BY <1>1, <1>2, ReportedStepFinal
<1>4. ReaderIInv /\ [ReaderNext]_allVars =>
        [\A a \in Attempts : trans'[a] # trans[a] /\ trans'[a] # Verified =>
            \E h \in Hosts : cur[h] = a /\ active[h]]_vars
  BY <1>1, <1>2, TransitionChange
<1> QED BY <1>1, <1>3, <1>4, ReaderInductive, PTL
       DEF ReaderSpec, ReportedIsFinal, OnlyUnrevoked

(***************************************************************************)
(* Readers change neither what is published nor what is in doubt, so       *)
(* creators and readers together implement the atomic register.            *)
(***************************************************************************)
THEOREM ReadersImplement == ReaderSpec => RegistrySpec
<1>1. ReaderInit => Registry!Init
  BY RegisterInit DEF ReaderInit
<1>2. ReaderIInv /\ [ReaderNext]_allVars => [Registry!Next]_<<Visible, InDoubt>>
  <2> SUFFICES ASSUME ReaderIInv, [ReaderNext]_allVars
               PROVE  [Registry!Next]_<<Visible, InDoubt>>
    OBVIOUS
  <2>1. [Next]_vars \/ UNCHANGED <<routes, trans>>
    BY DEF ReaderNext, allVars, createVars, ReaderStep, ReadLock, ReadEntry, ReadClear,
       ScopeLock, ScopeSelect, ScopeEnter, ScopeClose, ScopeUnlock, ScopeClear,
       LeaseExpires, LoadFirst, LoadSecond, ReaderCrash
  <2>2. CASE UNCHANGED <<routes, trans>>
    BY <2>2 DEF Visible, InDoubt, Unfinished
  <2> QED BY <2>1, <2>2, RegisterStep DEF ReaderIInv
<1> QED BY <1>1, <1>2, ReaderInductive, PTL DEF ReaderSpec, RegistrySpec, Registry!Spec
=============================================================================
