----------------------- MODULE CallerPreparation_proofs -----------------------
(***************************************************************************)
(* Proofs about CallerPreparation for any hosts, slots, attempts, readers. *)
(***************************************************************************)
EXTENDS CallerPreparation, TLAPS

USE PreparationConstants DEF rows, authority, Goto, Live, Unfinished, PendingCaller,
    Acknowledged, Quarantined, RowStates, GuardPoints, LockedPoints, Points, EmptyRoutes, Open

\* An empty database, nobody in a scope.
LEMMA InitIInv == Init => IInv
BY DEF Init, IInv, TypeOK, RouteInv, ScopeInv, LockInv, Bound, Clear,
       AcknowledgedIsEarned, OneOpen, HonestOutcome, SelectedIsAcknowledged

\* create() commits over a clear database only, so its row becomes the one open row.
LEMMA CommitCreateRows ==
    ASSUME IInv, NEW h \in Hosts, NEW a \in Attempts,
           NEW s \in Unfinished \cup {PendingCaller}, CommitCreate(h, a, s),
           shown' = a \/ (shown' = shown /\ s \in Unfinished)
    PROVE  /\ row' \in [Attempts -> RowStates]
           /\ routes' \in [Slots -> Attempts \cup {NoAttempt}]
           /\ row[a] = "none" /\ row'[a] = s
           /\ \A b \in Attempts \ {a} : row'[b] = row[b] /\ ~Open(b)
           /\ \A t \in Slots : routes[t] # NoAttempt => routes'[t] = routes[t]
           /\ \A t \in Slots : routes[t] # a
           /\ routes'[SlotOf[h]] = a /\ head' = a
           /\ \A b \in Attempts : row'[b] # "none" <=> \E t \in Slots : routes'[t] = b
           /\ \A t, u \in Slots : routes'[t] = routes'[u] /\ routes'[t] # NoAttempt => t = u
           /\ \A g \in Hosts : pc[g] = "idle" \/ (pc[g] = "failed" /\ row[cur[g]] = Acknowledged)
           /\ OneOpen'
<1> USE DEF IInv, TypeOK, RouteInv, CommitCreate, Creatable, Clear
<1>1. row[a] = "none" /\ row' \in [Attempts -> RowStates] /\ row'[a] = s
  OBVIOUS
<1>2. SlotOf[h] \in Slots /\ routes[SlotOf[h]] = NoAttempt
  OBVIOUS
<1>3. routes' \in [Slots -> Attempts \cup {NoAttempt}]
  BY <1>2
<1>4. \A t \in Slots : routes[t] # a
  BY <1>1
<1>5. \A b \in Attempts \ {a} : row'[b] = row[b] /\ ~Open(b)
  OBVIOUS
<1>6. \A t \in Slots : routes'[t] = IF t = SlotOf[h] THEN a ELSE routes[t]
  BY <1>2
<1>7. \A b \in Attempts : row'[b] # "none" <=> \E t \in Slots : routes'[t] = b
  <2> SUFFICES ASSUME NEW b \in Attempts
               PROVE  row'[b] # "none" <=> \E t \in Slots : routes'[t] = b
    OBVIOUS
  <2>1. CASE b = a
    BY <2>1, <1>1, <1>2, <1>6
  <2>2. CASE b # a
    BY <2>2, <1>2, <1>5, <1>6
  <2> QED BY <2>1, <2>2
<1>8. \A t, u \in Slots : routes'[t] = routes'[u] /\ routes'[t] # NoAttempt => t = u
  BY <1>2, <1>4, <1>6
<1>9. \A g \in Hosts : pc[g] = "idle" \/ (pc[g] = "failed" /\ row[cur[g]] = Acknowledged)
  <2> SUFFICES ASSUME NEW g \in Hosts, pc[g] # "idle"
               PROVE  pc[g] = "failed" /\ row[cur[g]] = Acknowledged
    OBVIOUS
  <2>1. cur[g] \in Attempts /\ outcome[cur[g]] = "running" /\ routes[SlotOf[g]] = cur[g]
        /\ (pc[g] # "failed" => row[cur[g]] = PendingCaller)
    BY DEF ScopeInv
  <2>2. row[cur[g]] \in {"none", Acknowledged}
    BY <2>1, <1>1
  <2>3. row[cur[g]] # "none"
    BY <2>1
  <2> QED BY <2>1, <2>2, <2>3
<1>10. OneOpen'
  BY <1>1, <1>5 DEF OneOpen
<1> QED BY <1>1, <1>2, <1>3, <1>4, <1>5, <1>6, <1>7, <1>8, <1>9, <1>10

\* A raising create() leaves an open row that belongs to no scope.
LEMMA CreateRaisesStep ==
    ASSUME IInv, NEW h \in Hosts, NEW a \in Attempts, NEW s \in Unfinished,
           NEW replaced \in BOOLEAN, CreateRaises(h, a, s, replaced)
    PROVE  IInv'
<1> USE DEF CreateRaises
<1>1. shown' = a \/ (shown' = shown /\ s \in Unfinished)
  OBVIOUS
<1>2. CommitCreate(h, a, s)
  OBVIOUS
<1>3. outcome[a] = "unused" /\ row[a] = "none" /\ row'[a] = s
  <2>1. outcome[a] = "unused"
    BY <1>2 DEF CommitCreate, Creatable
  <2> QED BY <2>1, <1>1, <1>2, CommitCreateRows
<1>4. TypeOK' /\ RouteInv' /\ OneOpen'
  BY <1>1, <1>2, <1>3, CommitCreateRows DEF IInv, TypeOK, RouteInv
<1>5. ScopeInv'
  BY <1>1, <1>2, <1>3, CommitCreateRows DEF IInv, TypeOK, ScopeInv
<1>6. LockInv'
  BY <1>1, <1>2, CommitCreateRows DEF IInv, TypeOK, LockInv
<1>7. AcknowledgedIsEarned' /\ HonestOutcome'
  BY <1>1, <1>2, <1>3, CommitCreateRows DEF IInv, TypeOK, AcknowledgedIsEarned, HonestOutcome
<1>8. SelectedIsAcknowledged'
  BY <1>1, <1>2, <1>3, CommitCreateRows DEF IInv, TypeOK, SelectedIsAcknowledged
<1> QED BY <1>4, <1>5, <1>6, <1>7, <1>8 DEF IInv

\* A complete create() opens a scope of its own.
LEMMA CreateStep ==
    ASSUME IInv, NEW h \in Hosts, NEW a \in Attempts, Create(h, a)
    PROVE  IInv'
<1> USE DEF Create
<1>1. shown' = a /\ CommitCreate(h, a, PendingCaller)
  OBVIOUS
<1>2. outcome[a] = "unused" /\ row[a] = "none" /\ row'[a] = PendingCaller /\ pc[h] = "idle" /\ lock = Free
  <2>1. outcome[a] = "unused" /\ pc[h] = "idle" /\ lock = Free
    BY <1>1 DEF CommitCreate, Creatable
  <2> QED BY <2>1, <1>1, CommitCreateRows
<1>3. TypeOK' /\ RouteInv' /\ OneOpen'
  BY <1>1, <1>2, CommitCreateRows DEF IInv, TypeOK, RouteInv
<1>4. ScopeInv'
  <2>1. \A g \in Hosts : pc[g] # "idle" => cur[g] \in Attempts /\ cur[g] # a
    BY <1>2 DEF IInv, ScopeInv
  <2> QED BY <2>1, <1>1, <1>2, CommitCreateRows DEF IInv, TypeOK, ScopeInv
<1>5. LockInv'
  BY <1>1, <1>2, CommitCreateRows DEF IInv, TypeOK, LockInv
<1>6. AcknowledgedIsEarned' /\ HonestOutcome'
  BY <1>1, <1>2, CommitCreateRows DEF IInv, TypeOK, AcknowledgedIsEarned, HonestOutcome
<1>7. SelectedIsAcknowledged'
  BY <1>1, <1>2, CommitCreateRows DEF IInv, TypeOK, SelectedIsAcknowledged
<1> QED BY <1>3, <1>4, <1>5, <1>6, <1>7 DEF IInv

\* Steps of a scope that change no row.
LEMMA QuietSteps ==
    ASSUME IInv, NEW h \in Hosts,
           \/ \E a \in Attempts : CreateRefused(h, a)
           \/ \E normally \in BOOLEAN : ExitBody(h, normally)
           \/ EnterAcknowledge(h)
           \/ \E verdict \in {"allow", "deny"}, ok \in BOOLEAN : Decide(h, verdict, ok)
           \/ Swap(h)
           \/ EnterQuarantine(h)
           \/ Revoke(h)
           \/ Expire(h)
           \/ Crash(h)
    PROVE  IInv'
<1> USE DEF IInv, TypeOK
<1>1. ASSUME NEW a \in Attempts, CreateRefused(h, a) PROVE IInv'
  BY <1>1 DEF CreateRefused, TypeOK, RouteInv, ScopeInv, LockInv, Bound, Clear,
       AcknowledgedIsEarned, OneOpen, HonestOutcome, SelectedIsAcknowledged
<1>2. ASSUME NEW normally \in BOOLEAN, ExitBody(h, normally) PROVE IInv'
  BY <1>2 DEF ExitBody, TypeOK, RouteInv, ScopeInv, LockInv, Bound, Clear,
       AcknowledgedIsEarned, OneOpen, HonestOutcome, SelectedIsAcknowledged
<1>3. ASSUME EnterAcknowledge(h) PROVE IInv'
  <2>1. TypeOK'
    BY <1>3 DEF EnterAcknowledge
  <2>2. RouteInv' /\ AcknowledgedIsEarned' /\ OneOpen' /\ HonestOutcome' /\ SelectedIsAcknowledged'
    BY <1>3 DEF EnterAcknowledge, RouteInv, ScopeInv, AcknowledgedIsEarned, OneOpen, HonestOutcome,
         SelectedIsAcknowledged
  <2>3. ScopeInv'
    <3>1. \A g \in Hosts : pc'[g] = pc[g] \/ (g = h /\ pc'[h] \in {"guarded", "failed"})
      BY <1>3 DEF EnterAcknowledge
    <3> QED BY <1>3, <3>1 DEF EnterAcknowledge, ScopeInv
  <2>4. LockInv'
    BY <1>3 DEF EnterAcknowledge, LockInv, ScopeInv, Bound, Clear
  <2> QED BY <2>1, <2>2, <2>3, <2>4
<1>4. ASSUME NEW verdict, NEW ok \in BOOLEAN, Decide(h, verdict, ok) PROVE IInv'
  <2>1. TypeOK'
    BY <1>4 DEF Decide, ScopeInv
  <2>2. RouteInv' /\ AcknowledgedIsEarned' /\ OneOpen' /\ HonestOutcome' /\ SelectedIsAcknowledged'
    BY <1>4 DEF Decide, RouteInv, ScopeInv, AcknowledgedIsEarned, OneOpen, HonestOutcome,
         SelectedIsAcknowledged
  <2>3. ScopeInv'
    BY <1>4 DEF Decide, ScopeInv, LockInv
  <2>4. LockInv'
    BY <1>4 DEF Decide, LockInv, ScopeInv, Bound, Clear
  <2> QED BY <2>1, <2>2, <2>3, <2>4
<1>5. ASSUME Swap(h) PROVE IInv'
  <2>1. TypeOK'
    BY <1>5 DEF Swap
  <2>2. RouteInv' /\ AcknowledgedIsEarned' /\ OneOpen' /\ HonestOutcome' /\ SelectedIsAcknowledged'
    BY <1>5 DEF Swap, RouteInv, ScopeInv, AcknowledgedIsEarned, OneOpen, HonestOutcome,
         SelectedIsAcknowledged
  <2>3. ScopeInv'
    BY <1>5 DEF Swap, ScopeInv, LockInv
  <2>4. LockInv'
    BY <1>5 DEF Swap, LockInv, ScopeInv, Bound, Clear
  <2> QED BY <2>1, <2>2, <2>3, <2>4
<1>6. ASSUME EnterQuarantine(h) PROVE IInv'
  <2>1. TypeOK'
    BY <1>6 DEF EnterQuarantine, MayQuarantine, Leave
  <2>2. RouteInv' /\ AcknowledgedIsEarned' /\ OneOpen' /\ HonestOutcome' /\ SelectedIsAcknowledged'
    BY <1>6 DEF EnterQuarantine, MayQuarantine, Leave, RouteInv, ScopeInv, AcknowledgedIsEarned, OneOpen, HonestOutcome,
         SelectedIsAcknowledged
  <2>3. ScopeInv'
    <3>1. CASE lock = Free /\ MayQuarantine(h)
      BY <1>6, <3>1 DEF EnterQuarantine, MayQuarantine, Bound, ScopeInv
    <3>2. CASE ~(lock = Free /\ MayQuarantine(h))
      <4>1. pc' = [pc EXCEPT ![h] = "idle"] /\ outcome' = [outcome EXCEPT ![cur[h]] = "failed"]
        BY <1>6, <3>2 DEF EnterQuarantine, Leave
      <4>2. \A g \in Hosts : pc'[g] # "idle" => pc'[g] = pc[g] /\ cur[g] # cur[h]
        BY <1>6, <4>1 DEF EnterQuarantine, ScopeInv
      <4> QED BY <1>6, <4>1, <4>2 DEF EnterQuarantine, ScopeInv
    <3> QED BY <3>1, <3>2
  <2>4. LockInv'
    BY <1>6 DEF EnterQuarantine, MayQuarantine, Leave, LockInv, ScopeInv, Bound, Clear
  <2> QED BY <2>1, <2>2, <2>3, <2>4
<1>7. ASSUME Revoke(h) PROVE IInv'
  BY <1>7 DEF Revoke, Guarded, TypeOK, RouteInv, ScopeInv, LockInv, Bound, Clear,
       AcknowledgedIsEarned, OneOpen, HonestOutcome, SelectedIsAcknowledged
<1>8. ASSUME Expire(h) PROVE IInv'
  BY <1>8 DEF Expire, TypeOK, RouteInv, ScopeInv, LockInv, Bound, Clear,
       AcknowledgedIsEarned, OneOpen, HonestOutcome, SelectedIsAcknowledged
<1>9. ASSUME Crash(h) PROVE IInv'
  BY <1>9 DEF Crash, Leave, TypeOK, RouteInv, ScopeInv, LockInv, Bound, Clear,
       AcknowledgedIsEarned, OneOpen, HonestOutcome, SelectedIsAcknowledged
<1> QED BY <1>1, <1>2, <1>3, <1>4, <1>5, <1>6, <1>7, <1>8, <1>9

\* The acknowledging commit: this host holds the lock and its row is the open one.
LEMMA CommitAcknowledgeStep ==
    ASSUME IInv, NEW h \in Hosts, NEW commit \in {"returns", "raises", "lost"},
           CommitAcknowledge(h, commit)
    PROVE  IInv'
<1> USE DEF IInv, TypeOK, CommitAcknowledge
<1>1. /\ pc[h] = "swapped" /\ Bound(h) /\ cur[h] \in Attempts /\ outcome[cur[h]] = "running"
      /\ cur[h] \in exited /\ cur[h] \in audited /\ row[cur[h]] = PendingCaller
      /\ head = cur[h] /\ shown = head
  BY DEF ScopeInv, LockInv, Bound
<1>2. \A g \in Hosts \ {h} : pc[g] # "idle" => cur[g] # cur[h]
  BY <1>1 DEF ScopeInv
<1>3. \A g \in Hosts \ {h} : pc[g] \notin LockedPoints
  BY <1>1 DEF LockInv
<1>4. /\ \A b \in Attempts \ {cur[h]} : row'[b] = row[b]
      /\ row'[cur[h]] = IF commit = "lost" THEN PendingCaller ELSE Acknowledged
      /\ row' \in [Attempts -> RowStates]
  BY <1>1
<1>5. /\ \A g \in Hosts \ {h} : pc'[g] = pc[g] /\ active'[g] = active[g]
      /\ pc'[h] = IF commit = "returns" THEN "idle" ELSE "failed"
      /\ commit = "returns" => ~active'[h]
      /\ commit # "returns" => active' = active
      /\ pc' \in [Hosts -> Points] /\ active' \in [Hosts -> BOOLEAN]
  BY <1>1 DEF Leave
<1>6. /\ \A b \in Attempts \ {cur[h]} : outcome'[b] = outcome[b]
      /\ outcome'[cur[h]] = IF commit = "returns" THEN "acknowledged" ELSE "running"
      /\ outcome' \in [Attempts -> {"unused", "running", "acknowledged", "failed", "crashed"}]
      /\ unknown' = IF commit = "raises" THEN unknown \cup {cur[h]} ELSE unknown
  BY <1>1 DEF Leave
<1>7. TypeOK'
  BY <1>1, <1>4, <1>5, <1>6
<1>8. RouteInv' /\ AcknowledgedIsEarned' /\ OneOpen' /\ HonestOutcome' /\ SelectedIsAcknowledged'
  BY <1>1, <1>4, <1>6 DEF RouteInv, AcknowledgedIsEarned, OneOpen, HonestOutcome,
       SelectedIsAcknowledged
<1>9. ScopeInv'
  BY <1>1, <1>2, <1>4, <1>5, <1>6 DEF ScopeInv
<1>10. LockInv'
  BY <1>1, <1>3, <1>4, <1>5 DEF LockInv
<1> QED BY <1>7, <1>8, <1>9, <1>10

\* The quarantining commit: the row was pending, nobody else holds the lock.
LEMMA CommitQuarantineStep ==
    ASSUME IInv, NEW h \in Hosts, NEW effect \in BOOLEAN, CommitQuarantine(h, effect)
    PROVE  IInv'
<1> USE DEF IInv, TypeOK, CommitQuarantine
<1>1. /\ pc[h] = "quarantining" /\ cur[h] \in Attempts /\ outcome[cur[h]] = "running"
      /\ row[cur[h]] = PendingCaller
  BY DEF ScopeInv
<1>2. \A g \in Hosts \ {h} : pc[g] # "idle" => cur[g] # cur[h]
  BY <1>1 DEF ScopeInv
<1>3. \A g \in Hosts \ {h} : pc[g] \notin LockedPoints
  BY <1>1 DEF LockInv
<1>4. /\ \A b \in Attempts \ {cur[h]} : row'[b] = row[b]
      /\ row'[cur[h]] \in {PendingCaller, Quarantined}
      /\ row' \in [Attempts -> RowStates]
  BY <1>1
<1>5. /\ \A g \in Hosts \ {h} : pc'[g] = pc[g] /\ active'[g] = active[g]
      /\ pc'[h] = "idle" /\ ~active'[h]
      /\ pc' \in [Hosts -> Points] /\ active' \in [Hosts -> BOOLEAN]
  BY <1>1 DEF Leave
<1>6. /\ \A b \in Attempts \ {cur[h]} : outcome'[b] = outcome[b]
      /\ outcome'[cur[h]] = "failed"
      /\ outcome' \in [Attempts -> {"unused", "running", "acknowledged", "failed", "crashed"}]
  BY <1>1 DEF Leave
<1>7. TypeOK'
  BY <1>1, <1>4, <1>5, <1>6
<1>8. RouteInv' /\ AcknowledgedIsEarned' /\ OneOpen' /\ HonestOutcome' /\ SelectedIsAcknowledged'
  BY <1>1, <1>4, <1>6 DEF RouteInv, AcknowledgedIsEarned, OneOpen, HonestOutcome,
       SelectedIsAcknowledged
<1>9. ScopeInv'
  BY <1>1, <1>2, <1>4, <1>5, <1>6 DEF ScopeInv
<1>10. LockInv'
  BY <1>1, <1>3, <1>4, <1>5 DEF LockInv
<1> QED BY <1>7, <1>8, <1>9, <1>10

\* A reader takes the lock, and hands out the routes of acknowledged rows only.
LEMMA ReaderSteps ==
    ASSUME IInv, NEW r \in Readers,
           ReaderLock(r) \/ \E s \in Slots, allowed \in BOOLEAN : ReaderLoad(r, s, allowed)
    PROVE  IInv'
<1> USE DEF IInv, TypeOK
<1>1. CASE ReaderLock(r)
  BY <1>1 DEF ReaderLock, RouteInv, ScopeInv, LockInv, Bound, Clear,
       AcknowledgedIsEarned, OneOpen, HonestOutcome, SelectedIsAcknowledged
<1>2. ASSUME NEW s \in Slots, NEW allowed \in BOOLEAN, ReaderLoad(r, s, allowed) PROVE IInv'
  <2>1. TypeOK'
    BY <1>2 DEF ReaderLoad
  <2>2. RouteInv' /\ AcknowledgedIsEarned' /\ OneOpen' /\ HonestOutcome' /\ ScopeInv'
    BY <1>2 DEF ReaderLoad, RouteInv, ScopeInv, AcknowledgedIsEarned, OneOpen, HonestOutcome
  <2>3. LockInv'
    BY <1>2 DEF ReaderLoad, LockInv, Bound, Clear
  <2>4. SelectedIsAcknowledged'
    <3>1. CASE allowed /\ shown = head /\ \A a \in Attempts : Selectable(row[a])
      <4>1. routes[s] # NoAttempt => row[routes[s]] = Acknowledged
        BY <3>1 DEF Selectable, RouteInv
      <4> QED BY <1>2, <3>1, <4>1 DEF ReaderLoad, SelectedIsAcknowledged
    <3>2. CASE ~(allowed /\ shown = head /\ \A a \in Attempts : Selectable(row[a]))
      BY <1>2, <3>2 DEF ReaderLoad, SelectedIsAcknowledged
    <3> QED BY <3>1, <3>2
  <2> QED BY <2>1, <2>2, <2>3, <2>4
<1> QED BY <1>1, <1>2

\* Every step of every host and reader preserves the inductive invariant.
LEMMA NextIInv == IInv /\ [Next]_vars => IInv'
<1> SUFFICES ASSUME IInv, [Next]_vars PROVE IInv'
  OBVIOUS
<1>1. ASSUME NEW h \in Hosts, PrepareStep(h) PROVE IInv'
  BY <1>1, QuietSteps, CreateStep, CreateRaisesStep, CommitAcknowledgeStep, CommitQuarantineStep
  DEF PrepareStep
<1>2. ASSUME NEW r \in Readers,
             ReaderLock(r) \/ \E s \in Slots, allowed \in BOOLEAN : ReaderLoad(r, s, allowed)
      PROVE  IInv'
  BY <1>2, ReaderSteps
<1>3. CASE UNCHANGED vars
  BY <1>3 DEF vars, IInv, TypeOK, RouteInv, ScopeInv, LockInv, Bound, Clear,
       AcknowledgedIsEarned, OneOpen, HonestOutcome, SelectedIsAcknowledged
<1> QED BY <1>1, <1>2, <1>3 DEF Next

(***************************************************************************)
(* The inductive invariant of prepare(): routes, scopes, locks and         *)
(* outcomes agree after every step.                                        *)
(***************************************************************************)
THEOREM Inductive == Spec => []IInv
BY InitIInv, NextIInv, PTL DEF Spec

(***************************************************************************)
(* An acknowledged transition had a normal exit and an audited decision of *)
(* its own.                                                                *)
(***************************************************************************)
THEOREM AcknowledgementEarned == Spec => []AcknowledgedIsEarned
<1>1. IInv => AcknowledgedIsEarned
  BY DEF IInv
<1> QED BY <1>1, Inductive, PTL

\* One open transition at most, and a file that lags only behind an unfinished one.
THEOREM OneOpenTransition == Spec => []OneOpen
<1>1. IInv => OneOpen
  BY DEF IInv
<1> QED BY <1>1, Inductive, PTL

\* prepare() never reports success without an acknowledged row, nor the reverse unknowingly.
THEOREM HonestScopes == Spec => []HonestOutcome
<1>1. IInv => HonestOutcome
  BY DEF IInv
<1> QED BY <1>1, Inductive, PTL

\* Readers never hand out a pending or quarantined session.
THEOREM ReadersSelectAcknowledged == Spec => []SelectedIsAcknowledged
<1>1. IInv => SelectedIsAcknowledged
  BY DEF IInv
<1> QED BY <1>1, Inductive, PTL

(***************************************************************************)
(* Which steps change rows: a create over a clear database, or a commit of *)
(* the host that is bound to the one open, running transition.             *)
(***************************************************************************)
LEMMA RowChange ==
    ASSUME IInv, Next, row' # row
    PROVE  \E h \in Hosts, a \in Attempts :
              /\ \A b \in Attempts \ {a} : row'[b] = row[b] /\ ~Open(b)
              /\ \/ /\ row[a] = "none" /\ outcome[a] = "unused"
                    /\ \E s \in Unfinished \cup {PendingCaller} :
                          CommitCreate(h, a, s) /\ row'[a] = s
                          /\ (shown' = a \/ (shown' = shown /\ s \in Unfinished))
                 \/ /\ cur[h] = a /\ pc[h] # "idle" /\ UNCHANGED routes
                    /\ row[a] = PendingCaller /\ outcome[a] = "running"
                    /\ \/ row'[a] = Acknowledged /\ pc[h] = "swapped"
                       \/ row'[a] = Quarantined
<1>1. PICK h \in Hosts : PrepareStep(h)
  BY DEF Next, ReaderLock, ReaderLoad
<1>2. ASSUME NEW a \in Attempts, NEW s \in Unfinished \cup {PendingCaller}, CommitCreate(h, a, s),
             shown' = a \/ (shown' = shown /\ s \in Unfinished)
      PROVE  /\ \A b \in Attempts \ {a} : row'[b] = row[b] /\ ~Open(b)
             /\ row[a] = "none" /\ outcome[a] = "unused" /\ row'[a] = s
  <2>1. outcome[a] = "unused"
    BY <1>2 DEF CommitCreate, Creatable
  <2> QED BY <2>1, <1>2, CommitCreateRows
<1>3. ASSUME NEW a \in Attempts, NEW s \in Unfinished, NEW replaced \in BOOLEAN,
             CreateRaises(h, a, s, replaced)
      PROVE  CommitCreate(h, a, s) /\ (shown' = a \/ (shown' = shown /\ s \in Unfinished))
  BY <1>3 DEF CreateRaises
<1>4. ASSUME NEW a \in Attempts, Create(h, a)
      PROVE  CommitCreate(h, a, PendingCaller) /\ shown' = a
  BY <1>4 DEF Create
<1>5. ASSUME pc[h] \in {"swapped", "quarantining"}
      PROVE  /\ cur[h] \in Attempts /\ row[cur[h]] = PendingCaller /\ outcome[cur[h]] = "running"
             /\ \A b \in Attempts \ {cur[h]} : ~Open(b)
  BY <1>5 DEF IInv, ScopeInv, OneOpen
<1>6. ASSUME NEW commit \in {"returns", "raises", "lost"}, CommitAcknowledge(h, commit)
      PROVE  /\ pc[h] = "swapped" /\ UNCHANGED routes /\ row'[cur[h]] = Acknowledged
             /\ \A b \in Attempts \ {cur[h]} : row'[b] = row[b]
  BY <1>5, <1>6 DEF CommitAcknowledge, IInv, TypeOK
<1>7. ASSUME NEW effect \in BOOLEAN, CommitQuarantine(h, effect)
      PROVE  /\ pc[h] = "quarantining" /\ UNCHANGED routes /\ row'[cur[h]] = Quarantined
             /\ \A b \in Attempts \ {cur[h]} : row'[b] = row[b]
  BY <1>5, <1>7 DEF CommitQuarantine, IInv, TypeOK
<1>8. \/ \E a \in Attempts, s \in Unfinished, replaced \in BOOLEAN : CreateRaises(h, a, s, replaced)
      \/ \E a \in Attempts : Create(h, a)
      \/ \E commit \in {"returns", "raises", "lost"} : CommitAcknowledge(h, commit)
      \/ \E effect \in BOOLEAN : CommitQuarantine(h, effect)
  BY <1>1 DEF PrepareStep, CreateRefused, ExitBody, EnterAcknowledge, Decide, Swap,
       EnterQuarantine, Revoke, Expire, Crash
<1>9. CASE \E a \in Attempts, s \in Unfinished, replaced \in BOOLEAN : CreateRaises(h, a, s, replaced)
  BY <1>9, <1>2, <1>3
<1>10. CASE \E a \in Attempts : Create(h, a)
  BY <1>10, <1>2, <1>4
<1>11. CASE \E commit \in {"returns", "raises", "lost"} : CommitAcknowledge(h, commit)
  BY <1>11, <1>5, <1>6
<1>12. CASE \E effect \in BOOLEAN : CommitQuarantine(h, effect)
  BY <1>12, <1>5, <1>7
<1> QED BY <1>8, <1>9, <1>10, <1>11, <1>12

\* Acknowledged, quarantined and unfinished rows, and rows of ended scopes, never change.
THEOREM OutcomesFinal == Spec => OutcomesAreFinal
<1>1. IInv /\ [Next]_vars =>
        [\A a \in Attempts : row'[a] # row[a] =>
            /\ row[a] \in {"none", PendingCaller}
            /\ outcome[a] \in {"unused", "running"}]_vars
  <2> SUFFICES ASSUME IInv, Next, NEW a \in Attempts, row'[a] # row[a]
               PROVE  row[a] \in {"none", PendingCaller} /\ outcome[a] \in {"unused", "running"}
    OBVIOUS
  <2>1. row' # row
    OBVIOUS
  <2> QED BY <2>1, RowChange
<1> QED BY <1>1, Inductive, PTL DEF Spec, OutcomesAreFinal

\* A transition left open by an ended scope stops every create and acknowledgement.
THEOREM FailClosed == Spec => OpenBlocksAll
<1>1. IInv /\ [Next]_vars =>
        [(\E a \in Attempts : Open(a) /\ outcome[a] # "running") => UNCHANGED row]_vars
  <2> SUFFICES ASSUME IInv, Next, NEW a \in Attempts, Open(a), outcome[a] # "running", row' # row
               PROVE  FALSE
    OBVIOUS
  <2>1. PICK b \in Attempts :
          /\ \A c \in Attempts \ {b} : ~Open(c)
          /\ row[b] = "none" \/ outcome[b] = "running"
    BY RowChange
  <2> QED BY <2>1
<1> QED BY <1>1, Inductive, PTL DEF Spec, OpenBlocksAll

\* The acknowledging commit is serialized with revoke() by publication_guard.
THEOREM RevocationHolds == Spec => RevokedNeverAcknowledges
<1>1. IInv /\ [Next]_vars =>
        [\A h \in Hosts : pc[h] # "idle" /\ ~active[h] =>
            (row'[cur[h]] = Acknowledged => row[cur[h]] = Acknowledged)]_vars
  <2> SUFFICES ASSUME IInv, Next, NEW h \in Hosts, pc[h] # "idle", ~active[h],
                      row'[cur[h]] = Acknowledged, row[cur[h]] # Acknowledged
               PROVE  FALSE
    OBVIOUS
  <2>1. cur[h] \in Attempts /\ outcome[cur[h]] = "running" /\ row' # row
    BY DEF IInv, ScopeInv
  <2>2. PICK g \in Hosts : cur[g] = cur[h] /\ pc[g] = "swapped"
    BY <2>1, RowChange
  <2>3. g = h /\ active[g]
    BY <2>2 DEF IInv, ScopeInv, LockInv
  <2> QED BY <2>3
<1> QED BY <1>1, Inductive, PTL DEF Spec, RevokedNeverAcknowledges

\* Routes change with rows only.
LEMMA RoutesFollowRows ==
    ASSUME IInv, [Next]_vars, row' = row
    PROVE  UNCHANGED routes
<1>1. ASSUME NEW h \in Hosts, NEW a \in Attempts, NEW s \in Unfinished \cup {PendingCaller},
             CommitCreate(h, a, s)
      PROVE  FALSE
  <2>1. row[a] = "none" /\ row'[a] = s
    BY <1>1 DEF CommitCreate, Creatable, IInv, TypeOK, RouteInv
  <2> QED BY <2>1
<1>2. ASSUME NEW h \in Hosts, PrepareStep(h) PROVE UNCHANGED routes
  BY <1>1, <1>2 DEF PrepareStep, CreateRefused, CreateRaises, Create, ExitBody, EnterAcknowledge,
       Decide, Swap, CommitAcknowledge, EnterQuarantine, CommitQuarantine, Revoke, Expire, Crash
<1> QED BY <1>2 DEF Next, ReaderLock, ReaderLoad, vars

\* A create over a clear database is the register's Reserve step.
LEMMA CreateReserves ==
    ASSUME IInv, NEW h \in Hosts, NEW a \in Attempts, NEW s \in Unfinished \cup {PendingCaller},
           CommitCreate(h, a, s), shown' = a \/ (shown' = shown /\ s \in Unfinished)
    PROVE  Registry!Reserve(SlotOf[h], a)
<1> DEFINE Facts ==
      /\ row[a] = "none" /\ row'[a] = s
      /\ \A b \in Attempts \ {a} : row'[b] = row[b] /\ ~Open(b)
      /\ \A t \in Slots : routes[t] # NoAttempt => routes'[t] = routes[t]
      /\ \A t \in Slots : routes[t] # a
      /\ routes'[SlotOf[h]] = a
      /\ \A t, u \in Slots : routes'[t] = routes'[u] /\ routes'[t] # NoAttempt => t = u
<1>1. Facts
  BY CommitCreateRows
<1>2. SlotOf[h] \in Slots /\ routes[SlotOf[h]] = NoAttempt
  BY DEF CommitCreate, Creatable
<1>3. \A t \in Slots \ {SlotOf[h]} : routes'[t] = routes[t]
  BY DEF CommitCreate, IInv, TypeOK
<1>4. InDoubt = {}
  BY <1>1 DEF InDoubt
<1>5. \A t \in Slots, b \in Attempts : routes'[t] = b /\ Open(b)' <=> t = SlotOf[h] /\ b = a
  BY <1>1, <1>2
<1>6. InDoubt' = {<<SlotOf[h], a>>}
  BY <1>2, <1>5 DEF InDoubt
<1>7. Visible[SlotOf[h]] = NoAttempt /\ \A t \in Slots : Visible[t] # a
  BY <1>1, <1>2 DEF Visible
<1>8. ASSUME NEW t \in Slots
      PROVE  (IF routes'[t] # NoAttempt /\ row'[routes'[t]] = Acknowledged THEN routes'[t] ELSE NoAttempt)
             = (IF routes[t] # NoAttempt /\ row[routes[t]] = Acknowledged THEN routes[t] ELSE NoAttempt)
  <2>1. CASE t = SlotOf[h]
    BY <2>1, <1>1, <1>2
  <2>2. CASE t # SlotOf[h]
    BY <2>2, <1>1, <1>3 DEF IInv, TypeOK
  <2> QED BY <2>1, <2>2
<1>9. Visible' = Visible
  BY <1>8 DEF Visible
<1> QED BY <1>4, <1>6, <1>7, <1>9 DEF Registry!Reserve

\* The acknowledgement is its Publish step; a quarantine is invisible.
LEMMA AcknowledgePublishes ==
    ASSUME IInv, NEW h \in Hosts, NEW a \in Attempts, cur[h] = a, pc[h] # "idle", UNCHANGED routes,
           row[a] = PendingCaller, \A b \in Attempts \ {a} : row'[b] = row[b] /\ ~Open(b)
    PROVE  /\ row'[a] = Acknowledged => Registry!Publish(SlotOf[h], a)
           /\ row'[a] = Quarantined => UNCHANGED <<Visible, InDoubt>>
<1>1. SlotOf[h] \in Slots /\ routes[SlotOf[h]] = a
  BY DEF IInv, ScopeInv
<1>2. \A t \in Slots : routes[t] = a <=> t = SlotOf[h]
  BY <1>1 DEF IInv, RouteInv
<1>3. InDoubt = {<<SlotOf[h], a>>}
  BY <1>1, <1>2 DEF InDoubt
<1>4. ASSUME row'[a] = Acknowledged PROVE Registry!Publish(SlotOf[h], a)
  <2>1. InDoubt' = {}
    BY <1>4 DEF InDoubt
  <2>2. Visible' = [Visible EXCEPT ![SlotOf[h]] = a]
    <3>1. ASSUME NEW t \in Slots
          PROVE  (IF routes[t] # NoAttempt /\ row'[routes[t]] = Acknowledged THEN routes[t] ELSE NoAttempt)
                 = IF t = SlotOf[h] THEN a ELSE Visible[t]
      BY <1>1, <1>2, <1>4 DEF Visible, IInv, TypeOK
    <3> QED BY <3>1, <1>1 DEF Visible
  <2> QED BY <1>3, <2>1, <2>2 DEF Registry!Publish
<1>5. ASSUME row'[a] = Quarantined PROVE UNCHANGED <<Visible, InDoubt>>
  <2>1. \A b \in Attempts : (row'[b] = Acknowledged <=> row[b] = Acknowledged) /\ (Open(b)' <=> Open(b))
    BY <1>5
  <2>2. \A t \in Slots : routes[t] # NoAttempt => routes[t] \in Attempts
    BY DEF IInv, TypeOK
  <2>3. Visible' = Visible
    BY <2>1, <2>2 DEF Visible
  <2>4. InDoubt' = InDoubt
    BY <2>1 DEF InDoubt
  <2> QED BY <2>3, <2>4
<1> QED BY <1>4, <1>5

(***************************************************************************)
(* prepare(), with its failures, crashes and cleanup, implements the       *)
(* atomic session register.                                                *)
(***************************************************************************)
THEOREM Implements == Spec => RegistrySpec
<1>1. Init => Registry!Init
  BY DEF Init, Registry!Init, Visible, InDoubt
<1>2. IInv /\ [Next]_vars => [Registry!Next]_<<Visible, InDoubt>>
  <2> SUFFICES ASSUME IInv, [Next]_vars
               PROVE  Registry!Next \/ UNCHANGED <<Visible, InDoubt>>
    OBVIOUS
  <2>1. CASE row' = row
    <3>1. UNCHANGED routes
      BY <2>1, RoutesFollowRows
    <3> QED BY <2>1, <3>1 DEF Visible, InDoubt
  <2>2. CASE row' # row
    <3>1. Next
      BY <2>2 DEF vars
    <3>2. PICK h \in Hosts, a \in Attempts :
              /\ \A b \in Attempts \ {a} : row'[b] = row[b] /\ ~Open(b)
              /\ \/ \E s \in Unfinished \cup {PendingCaller} :
                       CommitCreate(h, a, s) /\ (shown' = a \/ (shown' = shown /\ s \in Unfinished))
                 \/ /\ cur[h] = a /\ pc[h] # "idle" /\ UNCHANGED routes /\ row[a] = PendingCaller
                    /\ row'[a] \in {Acknowledged, Quarantined}
      BY <2>2, <3>1, RowChange
    <3>3. SlotOf[h] \in Slots
      OBVIOUS
    <3>4. CASE \E s \in Unfinished \cup {PendingCaller} :
                  CommitCreate(h, a, s) /\ (shown' = a \/ (shown' = shown /\ s \in Unfinished))
      <4>1. Registry!Reserve(SlotOf[h], a)
        BY <3>4, CreateReserves
      <4> QED BY <3>3, <4>1 DEF Registry!Next
    <3>5. CASE /\ cur[h] = a /\ pc[h] # "idle" /\ UNCHANGED routes /\ row[a] = PendingCaller
               /\ row'[a] \in {Acknowledged, Quarantined}
      <4>1. Registry!Publish(SlotOf[h], a) \/ UNCHANGED <<Visible, InDoubt>>
        BY <3>2, <3>5, AcknowledgePublishes
      <4> QED BY <3>3, <4>1 DEF Registry!Next
    <3> QED BY <3>2, <3>4, <3>5
  <2> QED BY <2>1, <2>2
<1> QED BY <1>1, <1>2, Inductive, PTL DEF Spec, RegistrySpec, Registry!Spec
=============================================================================
