------------------------- MODULE MemoryPlugins_proofs -------------------------
(***************************************************************************)
(* Proofs about the memory plugins, for any configuration of them.  The    *)
(* host drives one provider: a step is one of that provider, or leaves its *)
(* state alone, so each provider has an inductive invariant of its own     *)
(* over its own variables.                                                 *)
(***************************************************************************)
EXTENDS MemoryPlugins, Integers, FiniteSetTheorems, TLAPS

-----------------------------------------------------------------------------
(* OpenViking.                                                             *)

(***************************************************************************)
(* While the process runs, the module's reference is that candidate: a     *)
(* provider is initialised once and shut down only after that, so shutting *)
(* another one down cannot make an older provider the last.                *)
(***************************************************************************)
VikingInv ==
    /\ started \in Seq(Agents)
    /\ DOMAIN connected = Agents /\ DOMAIN committed = Agents
    /\ \A p \in shut : p \in Agents /\ connected[p] # "new"
    /\ exited = "no" => lastActive = OV!ExitCandidate
    /\ VikingExitCommitsLast

LEMMA VikingInit == OV!Init => VikingInv
BY DEF OV!Init, OV!NoAgent, VikingInv, VikingExitCommitsLast, OV!ExitCommitsLast,
   OV!ExitCandidate

\* Steps that concern neither the reference nor the order of initialisation.
LEMMA VikingOther ==
    ASSUME VikingInv, exited = "no", exited' # "atexit", DOMAIN committed' = Agents,
           UNCHANGED <<connected, lastActive, started, shut>>
    PROVE  VikingInv'
BY DEF VikingInv, VikingExitCommitsLast, OV!ExitCommitsLast, OV!ExitCandidate

LEMMA VikingStep == VikingInv /\ OV!Next => VikingInv'
<1> SUFFICES ASSUME VikingInv, OV!Next PROVE VikingInv'
  OBVIOUS
<1>1. ASSUME NEW p \in Agents, OV!Initialize(p) PROVE VikingInv'
  <2>1. PICK c \in {"up", "down"} : connected' = [connected EXCEPT ![p] = c]
    BY <1>1 DEF OV!Initialize
  <2>2. /\ connected[p] = "new" /\ exited = "no" /\ lastActive' = p
        /\ started' = Append(started, p) /\ shut' = shut /\ exited' = exited
        /\ committed' = committed
    BY <1>1 DEF OV!Initialize
  <2>3. p \notin shut
    BY <2>2 DEF VikingInv
  <2>4. started' \in Seq(Agents) /\ started' # <<>> /\ OV!Last(started') = p
    BY <2>2 DEF VikingInv, OV!Last
  <2>5. DOMAIN connected' = Agents /\ \A q \in shut : connected'[q] # "new"
    BY <2>1 DEF VikingInv
  <2>6. lastActive' = OV!ExitCandidate'
    BY <2>2, <2>3, <2>4 DEF OV!ExitCandidate
  <2> QED BY <2>2, <2>4, <2>5, <2>6 DEF VikingInv, VikingExitCommitsLast, OV!ExitCommitsLast
<1>2. ASSUME NEW p \in Agents, OV!Shutdown(p) PROVE VikingInv'
  <2>1. /\ connected[p] # "new" /\ exited = "no" /\ shut' = shut \cup {p}
        /\ lastActive' = IF lastActive = p THEN "none" ELSE lastActive
        /\ UNCHANGED <<connected, started, exited, committed>>
    BY <1>2 DEF OV!Shutdown, OV!Forget, OV!NoAgent
  <2>2. lastActive' = OV!ExitCandidate'
    BY <2>1 DEF VikingInv, OV!ExitCandidate, OV!NoAgent
  <2> QED BY <2>1, <2>2 DEF VikingInv, VikingExitCommitsLast, OV!ExitCommitsLast
<1>3. ASSUME OV!AtExit PROVE VikingInv'
  <2>1. PICK outcome \in OV!Outcomes :
          /\ IF lastActive = OV!NoAgent THEN outcome = "nothing" /\ UNCHANGED committed
                                        ELSE OV!Commit(lastActive, outcome)
          /\ answer' = [kind |-> "exit", committing |-> lastActive, outcome |-> outcome]
    BY <1>3 DEF OV!AtExit
  <2>2. /\ exited = "no" /\ exited' = "atexit"
        /\ UNCHANGED <<connected, turnCount, messages, started, shut>>
    BY <1>3 DEF OV!AtExit
  <2>3. lastActive = OV!ExitCandidate /\ answer'.committing = OV!ExitCandidate'
    BY <2>1, <2>2 DEF VikingInv, OV!ExitCandidate
  <2>4. CASE lastActive = OV!NoAgent
    BY <2>1, <2>2, <2>3, <2>4, VikingConstants
       DEF VikingInv, VikingExitCommitsLast, OV!ExitCommitsLast, OV!NoAgent
  <2>5. CASE lastActive # OV!NoAgent
    <3>1. lastActive \in Agents
      BY <2>3, <2>5 DEF VikingInv, OV!ExitCandidate, OV!Last
    <3>2. (outcome = "nothing") <=> ~OV!Committable(lastActive)
      BY <2>1, <2>5 DEF OV!Commit, OV!Committable
    <3>3. outcome = "committed" => committed'[lastActive] = messages[lastActive]
      BY <2>1, <2>5, <3>1 DEF OV!Commit, VikingInv
    <3>4. DOMAIN committed' = Agents
      BY <2>1, <2>5 DEF OV!Commit, VikingInv
    <3> QED BY <2>1, <2>2, <2>3, <3>1, <3>2, <3>3, <3>4
            DEF VikingInv, VikingExitCommitsLast, OV!ExitCommitsLast, OV!Committable
  <2> QED BY <2>4, <2>5
<1>4. ASSUME NEW p \in Agents,
             \/ OV!SyncTurn(p) \/ OV!MemoryWrite(p) \/ OV!SessionEnd(p) \/ OV!Remember(p)
             \/ \E uri \in OV!Uris, level \in OV!Levels : OV!Read(p, uri, level)
             \/ \E i \in DOMAIN threads[p] : OV!Post(p, i)
      PROVE  VikingInv'
  <2>1. exited = "no" /\ UNCHANGED <<connected, lastActive, started, shut, exited>>
    BY <1>4 DEF OV!SyncTurn, OV!MemoryWrite, OV!SessionEnd, OV!Remember, OV!Read, OV!Post,
       OV!Ready
  <2>2. committed' = committed \/ committed' = [committed EXCEPT ![p] = messages[p]]
    BY <1>4 DEF OV!SyncTurn, OV!MemoryWrite, OV!SessionEnd, OV!Remember, OV!Read, OV!Post,
       OV!Commit
  <2> QED BY <2>1, <2>2, VikingOther DEF VikingInv
<1>5. ASSUME OV!Killed PROVE VikingInv'
  BY <1>5, VikingOther DEF OV!Killed, VikingInv
<1> QED BY <1>1, <1>2, <1>3, <1>4, <1>5 DEF OV!Next

(***************************************************************************)
(* Leaving the process turns to the provider initialised last unless it    *)
(* was shut down, and an answered commit covers its whole session          *)
(* (_atexit_commit_sessions, shutdown, on_session_end).                    *)
(***************************************************************************)
THEOREM ExitCommitsLastProvider == Spec => []VikingExitCommitsLast
<1>1. Init => VikingInv
  BY VikingInit DEF Init
<1>2. VikingInv /\ [Next]_vars => VikingInv'
  <2> SUFFICES ASSUME VikingInv, [Next]_vars PROVE VikingInv'
    OBVIOUS
  <2>1. OV!Next \/ UNCHANGED vikingVars
    BY DEF Next, Load, vars, vikingVars, loaderVars
  <2>2. CASE UNCHANGED vikingVars
    BY <2>2 DEF vikingVars, VikingInv, VikingExitCommitsLast, OV!ExitCommitsLast,
       OV!ExitCandidate, OV!Committable
  <2> QED BY <2>1, <2>2, VikingStep
<1>3. VikingInv => VikingExitCommitsLast
  BY DEF VikingInv
<1> QED BY <1>1, <1>2, <1>3, PTL DEF Spec

-----------------------------------------------------------------------------
(* RetainDB.                                                               *)

(***************************************************************************)
(* A row is only about to be deleted when the service took it; that is     *)
(* true of the row whichever process has it queued, and however often.     *)
(***************************************************************************)
RetainInv ==
    /\ lastRow \in Nat /\ lastRow <= MaxRow
    /\ ingested \in [1 .. MaxRow -> Nat]
    /\ DOMAIN flushing = Processes
    /\ \A p \in Processes :
          flushing[p].step = "delete" /\ flushing[p].row \in 1 .. MaxRow =>
              ingested[flushing[p].row] > 0
    /\ \A r \in 1 .. lastRow : r \in rows \/ ingested[r] > 0

LEMMA RetainInit == RD!Init => RetainInv
BY RetainConstants DEF RD!Init, RD!Rows, RD!Idle, RetainInv

\* A writer that moves to another point than the deletion.
LEMMA RetainMoves ==
    ASSUME RetainInv, NEW p \in Processes, NEW row, NEW step, step # "delete",
           RD!Step(p, row, step), UNCHANGED <<rows, lastRow, ingested>>
    PROVE  RetainInv'
BY DEF RetainInv, RD!Step

LEMMA RetainStep == RetainInv /\ RD!Next => RetainInv'
<1> SUFFICES ASSUME RetainInv, NEW p \in Processes,
                    \/ RD!Start(p) \/ RD!Replay(p) \/ RD!EnqueueInsert(p) \/ RD!EnqueuePut(p)
                    \/ RD!WriterTake(p) \/ RD!WriterIngest(p) \/ RD!WriterDelete(p)
                    \/ RD!WriterFailed(p) \/ RD!Shutdown(p) \/ RD!ProcessEnds(p)
             PROVE  RetainInv'
  BY DEF RD!Next
<1>1. CASE RD!Start(p) \/ RD!WriterFailed(p) \/ RD!ProcessEnds(p)
  BY <1>1, RetainMoves DEF RD!Start, RD!WriterFailed, RD!ProcessEnds
<1>2. CASE RD!WriterTake(p)
  BY <1>2, RetainMoves DEF RD!WriterTake
<1>3. CASE RD!Replay(p) \/ RD!EnqueuePut(p) \/ RD!Shutdown(p)
  <2>1. UNCHANGED <<rows, lastRow, flushing, ingested>>
    BY <1>3 DEF RD!Replay, RD!EnqueuePut, RD!Shutdown
  <2> QED BY <2>1 DEF RetainInv
<1>4. CASE RD!EnqueueInsert(p)
  <2>1. /\ lastRow < MaxRow /\ lastRow' = lastRow + 1 /\ rows' = rows \cup {lastRow + 1}
        /\ UNCHANGED <<flushing, ingested>>
    BY <1>4 DEF RD!EnqueueInsert
  <2>2. \A r \in 1 .. lastRow' : r \in 1 .. lastRow \/ r = lastRow + 1
    BY <2>1 DEF RetainInv
  <2> QED BY <2>1, <2>2, RetainConstants DEF RetainInv
<1>5. CASE RD!WriterIngest(p)
  <2> DEFINE row == flushing[p].row
  <2>1. PICK took \in BOOLEAN, answered \in BOOLEAN :
           /\ answered => took
           /\ ingested' = [ingested EXCEPT ![row] = @ + IF took THEN 1 ELSE 0]
           /\ RD!Step(p, row, RD!AfterIngest(answered))
    BY <1>5 DEF RD!WriterIngest
  <2>2. UNCHANGED <<rows, lastRow>>
    BY <1>5 DEF RD!WriterIngest
  <2>3. \A r \in 1 .. MaxRow : ingested[r] \in Nat
    BY DEF RetainInv
  <2>4. /\ ingested' \in [1 .. MaxRow -> Nat]
        /\ \A r \in 1 .. MaxRow : ingested'[r] >= ingested[r]
        /\ took /\ row \in 1 .. MaxRow => ingested'[row] > 0
    <3>1. \A r \in 1 .. MaxRow :
             ingested'[r] = IF r = row THEN ingested[r] + (IF took THEN 1 ELSE 0)
                                       ELSE ingested[r]
      BY <2>1 DEF RetainInv
    <3>2. DOMAIN ingested' = 1 .. MaxRow /\ ingested' = [r \in 1 .. MaxRow |-> ingested'[r]]
      BY <2>1 DEF RetainInv
    <3> HIDE DEF row
    <3>3. \A r \in 1 .. MaxRow : ingested'[r] \in Nat /\ ingested'[r] >= ingested[r]
      BY <2>3, <3>1
    <3>4. took /\ row \in 1 .. MaxRow => ingested'[row] > 0
      BY <2>3, <3>1
    <3> QED BY <3>2, <3>3, <3>4
  <2>5. /\ DOMAIN flushing' = Processes
        /\ flushing'[p] = [row |-> row, step |-> IF answered THEN "delete" ELSE "failed"]
        /\ \A q \in Processes : q # p => flushing'[q] = flushing[q]
    BY <2>1 DEF RetainInv, RD!Step, RD!AfterIngest
  <2>6. \A q \in Processes :
          flushing'[q].step = "delete" /\ flushing'[q].row \in 1 .. MaxRow =>
              ingested'[flushing'[q].row] > 0
    BY <2>1, <2>3, <2>4, <2>5 DEF RetainInv
  <2>7. \A r \in 1 .. lastRow : r \in rows \/ ingested'[r] > 0
    <3>1. \A r \in 1 .. lastRow : r \in 1 .. MaxRow
      BY RetainConstants DEF RetainInv
    <3> QED BY <3>1, <2>3, <2>4 DEF RetainInv
  <2> QED BY <2>2, <2>4, <2>5, <2>6, <2>7 DEF RetainInv
<1>6. CASE RD!WriterDelete(p)
  <2>1. CASE UNCHANGED rows
    BY <1>6, <2>1, RetainMoves DEF RD!WriterDelete
  <2>2. CASE rows' = rows \ {flushing[p].row} /\ RD!Step(p, 0, "idle")
    <3>1. flushing[p].step = "delete" /\ UNCHANGED <<lastRow, ingested>>
      BY <1>6 DEF RD!WriterDelete
    <3>2. \A r \in 1 .. lastRow : r \in 1 .. MaxRow
      BY RetainConstants DEF RetainInv
    <3>3. \A r \in 1 .. lastRow : r \in rows' \/ ingested[r] > 0
      BY <2>2, <3>1, <3>2 DEF RetainInv
    <3> QED BY <2>2, <3>1, <3>3 DEF RetainInv, RD!Step
  <2> QED BY <1>6, <2>1, <2>2 DEF RD!WriterDelete
<1> QED BY <1>1, <1>2, <1>3, <1>4, <1>5, <1>6

(***************************************************************************)
(* A turn that was accepted stays a row until the service took it, through *)
(* crashes, replays and any number of processes (enqueue, _flush_row).     *)
(***************************************************************************)
THEOREM AcceptedTurnsAreKept == Spec => []RetainNothingLost
<1>1. Init => RetainInv
  BY RetainInit DEF Init
<1>2. RetainInv /\ [Next]_vars => RetainInv'
  <2> SUFFICES ASSUME RetainInv, [Next]_vars PROVE RetainInv'
    OBVIOUS
  <2>1. RD!Next \/ UNCHANGED retainVars
    BY DEF Next, Load, vars, retainVars, loaderVars
  <2> QED BY <2>1, RetainStep DEF retainVars, RetainInv
<1>3. RetainInv => RetainNothingLost
  BY DEF RetainInv, RetainNothingLost, RD!NothingLost
<1> QED BY <1>1, <1>2, <1>3, PTL DEF Spec

-----------------------------------------------------------------------------
(* Honcho's reasoning.                                                     *)

(***************************************************************************)
(* A waiting text carries the turn it was fired at, whichever thread left  *)
(* it and however late; its age is measured when it is taken.              *)
(***************************************************************************)
DialecticInv ==
    /\ turn \in Nat
    /\ pending.answers = pending.firedAt
    /\ pending.firedAt \in Int
    /\ asking \in Seq([firedAt : Nat, step : {"asking", "landed"}])
    /\ HR!InjectedIsRecent

LEMMA DialecticInit == HR!Init => DialecticInv
BY DEF HR!Init, HR!NoText, HR!Never, HR!InjectedIsRecent, DialecticInv

\* A thread that ends is taken out of the list.
LEMMA ThreadEnds ==
    ASSUME DialecticInv, NEW i \in DOMAIN asking, HR!EndThread(i)
    PROVE  asking' \in Seq([firedAt : Nat, step : {"asking", "landed"}])
<1> DEFINE T == [firedAt : Nat, step : {"asking", "landed"}]
<1>1. asking \in Seq(T) /\ i \in 1 .. Len(asking)
  BY DEF DialecticInv
<1>2. asking' = SubSeq(asking, 1, i - 1) \o SubSeq(asking, i + 1, Len(asking))
  BY DEF HR!EndThread, HR!RemoveAt
<1> HIDE DEF T
<1>3. SubSeq(asking, 1, i - 1) \in Seq(T) /\ SubSeq(asking, i + 1, Len(asking)) \in Seq(T)
  BY <1>1
<1> QED BY <1>2, <1>3 DEF T

\* Steps that only start a thread, or none, and inject nothing.
LEMMA DialecticOther ==
    ASSUME DialecticInv, UNCHANGED <<pending, injected>>, turn' \in Nat,
           asking' = asking \/ \E t \in Nat : asking' = Append(asking, HR!Thread(t))
    PROVE  DialecticInv'
<1> DEFINE T == [firedAt : Nat, step : {"asking", "landed"}]
<1>1. \A t \in Nat : HR!Thread(t) \in T
  BY DEF HR!Thread
<1>2. asking \in Seq(T)
  BY DEF DialecticInv
<1> HIDE DEF T
<1>3. asking' \in Seq(T)
  BY <1>1, <1>2
<1> USE DEF T
<1> QED BY <1>3 DEF DialecticInv, HR!InjectedIsRecent, HR!Never

LEMMA DialecticStep == DialecticInv /\ HR!Next => DialecticInv'
<1> SUFFICES ASSUME DialecticInv, HR!Next PROVE DialecticInv'
  OBVIOUS
<1>0. turn \in Nat /\ 0 \in Nat
  BY DEF DialecticInv
<1>1. CASE (\E mode \in {"skipped", "context", "tools", "hybrid"} : HR!Initialize(mode))
           \/ HR!ToolReasoning
  <2>1. UNCHANGED <<pending, injected, turn>>
        /\ (asking' = asking \/ asking' = Append(asking, HR!Thread(0)))
    BY <1>1 DEF HR!Initialize, HR!ToolReasoning, HR!SessionInit
  <2> QED BY <1>0, <2>1, DialecticOther
<1>2. CASE HR!TurnStart
  BY <1>0, <1>2, DialecticOther DEF HR!TurnStart
<1>3. CASE HR!PrefetchFire \/ HR!QueuePrefetch
  <2>1. UNCHANGED <<pending, injected, turn>>
        /\ (asking' = asking \/ asking' = Append(asking, HR!Thread(turn)))
    BY <1>3 DEF HR!PrefetchFire, HR!QueuePrefetch
  <2> QED BY <1>0, <2>1, DialecticOther
<1>4. CASE HR!PrefetchTake
  <2>1. /\ pending' = HR!NoText /\ UNCHANGED <<turn, asking>>
        /\ injected' = IF pending = HR!NoText \/ HR!Stale(pending) THEN injected
                       ELSE [answers |-> pending.answers, at |-> turn]
    BY <1>4 DEF HR!PrefetchTake
  <2>2. HR!InjectedIsRecent'
    <3>1. CASE injected' = injected
      BY <3>1 DEF DialecticInv, HR!InjectedIsRecent, HR!Never
    <3>2. CASE ~HR!Stale(pending) /\ injected' = [answers |-> pending.answers, at |-> turn]
      <4> DEFINE limit == Cadence * StaleFactor
      <4>1. limit \in Nat
        BY DialecticConstants
      <4>2. ~(turn - pending.firedAt > limit)
        BY <3>2 DEF HR!Stale
      <4> HIDE DEF limit
      <4>3. turn - pending.answers <= limit
        BY <4>1, <4>2, <1>0 DEF DialecticInv
      <4> QED BY <3>2, <4>3 DEF HR!InjectedIsRecent, limit
    <3> QED BY <2>1, <3>1, <3>2
  <2> QED BY <2>1, <2>2 DEF DialecticInv, HR!NoText, HR!Never
<1>5. ASSUME NEW i \in DOMAIN asking, HR!AskEmpty(i) \/ HR!AskCounts(i) PROVE DialecticInv'
  <2>1. HR!EndThread(i) /\ UNCHANGED <<turn, pending, injected>>
    BY <1>5 DEF HR!AskEmpty, HR!AskCounts
  <2>2. asking' \in Seq([firedAt : Nat, step : {"asking", "landed"}])
    BY <2>1, ThreadEnds
  <2> QED BY <2>1, <2>2 DEF DialecticInv, HR!InjectedIsRecent, HR!Never
<1>6. ASSUME NEW i \in DOMAIN asking, HR!AskLands(i) PROVE DialecticInv'
  <2>1. /\ pending' = [answers |-> asking[i].firedAt, firedAt |-> asking[i].firedAt]
        /\ asking' = [asking EXCEPT ![i].step = "landed"]
        /\ UNCHANGED <<turn, injected>>
    BY <1>6 DEF HR!AskLands
  <2> DEFINE T == [firedAt : Nat, step : {"asking", "landed"}]
  <2>2. asking \in Seq(T)
    BY DEF DialecticInv
  <2>3. \A x \in T : x.firedAt \in Nat /\ [x EXCEPT !.step = "landed"] \in T
    OBVIOUS
  <2> HIDE DEF T
  <2>5. asking[i] \in T
    BY <2>2
  <2>4. asking' \in Seq(T) /\ asking[i].firedAt \in Int
    BY <2>1, <2>2, <2>3, <2>5
  <2> QED BY <2>1, <2>4 DEF DialecticInv, HR!InjectedIsRecent, HR!Never, T
<1> QED BY <1>1, <1>2, <1>3, <1>4, <1>5, <1>6 DEF HR!Next

(***************************************************************************)
(* No text older than the stale limit is injected, although threads taken  *)
(* for dead still deliver (prefetch, queue_prefetch).                      *)
(***************************************************************************)
THEOREM InjectedIsNeverStale == Spec => []HonchoInjectedIsRecent
<1>1. Init => DialecticInv
  BY DialecticInit DEF Init
<1>2. DialecticInv /\ [Next]_vars => DialecticInv'
  <2> SUFFICES ASSUME DialecticInv, [Next]_vars PROVE DialecticInv'
    OBVIOUS
  <2>1. HR!Next \/ UNCHANGED dialecticVars
    BY DEF Next, Load, vars, dialecticVars, loaderVars
  <2> QED BY <2>1, DialecticStep
       DEF dialecticVars, DialecticInv, HR!InjectedIsRecent, HR!Never
<1>3. DialecticInv => HonchoInjectedIsRecent
  BY DEF DialecticInv, HonchoInjectedIsRecent
<1> QED BY <1>1, <1>2, <1>3, PTL DEF Spec

-----------------------------------------------------------------------------
(* Hindsight.                                                              *)

\* A turn named anywhere in a buffer, a job or a document.
In(s) == HI!ToSet(s)

Retain == [document : HI!Documents, mode : {"append", "replace"}, turns : Seq(Nat)]
Job == Retain \cup {HI!Stop}

\* What is still to be retained, the writer's own job first.
Places == 0 .. Len(jobs)
Queued(i) == IF i = 0 THEN job ELSE jobs[i]
Replaces(i, d) == Queued(i).mode = "replace" /\ Queued(i).document = d

\* The shape of the buffer, the queue and the server's documents.
HindsightTypes ==
    /\ phase \in {"off", "up", "closing", "down"}
    /\ session \in Sessions \cup {"none"} /\ life \in 0 .. MaxLife
    /\ turns \in Seq(Nat) /\ owner \in Seq(Sessions \cup {"none"})
    /\ jobs \in Seq(Job) /\ job \in Job
    /\ documents \in [HI!Documents -> Seq(Nat)]
    /\ writer # "busy" <=> job = HI!Stop
    /\ phase = "off" => turns = <<>>

(***************************************************************************)
(* A document that retains replace belongs to one life of the provider:    *)
(* those still queued are of lives so far, and a life to come is empty.    *)
(***************************************************************************)
LivesInv ==
    /\ phase # "off" => life >= 1
    /\ \A i \in Places :
          /\ Queued(i).document[2] <= life
          /\ Queued(i).mode = "append" => Queued(i).document[2] = 0
          /\ Queued(i).mode = "replace" => Queued(i).document[2] >= 1
    /\ \A d \in HI!Documents : d[2] > life => In(documents[d]) = {}

(***************************************************************************)
(* Along the server's document, the queue and the buffer, the turns of one *)
(* replaced document only grow, so a replacement drops none of them.       *)
(***************************************************************************)
GrowthInv ==
    /\ \A i, k \in Places, d \in HI!Documents :
          i < k /\ Replaces(i, d) /\ Replaces(k, d) => In(Queued(i).turns) \subseteq In(Queued(k).turns)
    /\ \A i \in Places, d \in HI!Documents :
          Replaces(i, d) => In(documents[d]) \subseteq In(Queued(i).turns)
    /\ phase # "off" =>
          /\ In(documents[<<session, life>>]) \subseteq In(turns)
          /\ \A i \in Places :
                Replaces(i, <<session, life>>) => In(Queued(i).turns) \subseteq In(turns)

\* Where each finished turn is.
Kept(t) ==
    \/ \E d \in HI!Documents : t \in In(documents[d])
    \/ \E i \in Places : t \in In(Queued(i).turns)
    \/ t \in In(turns)
    \/ t \in lost

KeptInv == \A t \in 1 .. Len(owner) : Kept(t)

HindsightInv == HindsightTypes /\ LivesInv /\ GrowthInv /\ KeptInv

LEMMA InAppend ==
    ASSUME NEW s \in Seq(Nat), NEW x \in Nat
    PROVE  Append(s, x) \in Seq(Nat) /\ In(Append(s, x)) = In(s) \cup {x}
<1>1. Append(s, x) \in Seq(Nat) /\ Len(Append(s, x)) = Len(s) + 1
  OBVIOUS
<1>2. \A i \in 1 .. Len(s) : Append(s, x)[i] = s[i]
  OBVIOUS
<1>3. Append(s, x)[Len(s) + 1] = x
  OBVIOUS
<1>4. \A i \in 1 .. Len(s) + 1 : i \in 1 .. Len(s) \/ i = Len(s) + 1
  OBVIOUS
<1>5. ASSUME NEW y PROVE y \in In(Append(s, x)) <=> y \in In(s) \cup {x}
  <2>1. y \in In(Append(s, x)) <=> \E i \in 1 .. Len(s) + 1 : y = Append(s, x)[i]
    BY <1>1 DEF In, HI!ToSet
  <2>2. y \in In(s) <=> \E i \in 1 .. Len(s) : y = s[i]
    BY DEF In, HI!ToSet
  <2> QED BY <2>1, <2>2, <1>2, <1>3, <1>4
<1> QED BY <1>1, <1>5

LEMMA InConcat ==
    ASSUME NEW s \in Seq(Nat), NEW t \in Seq(Nat)
    PROVE  s \o t \in Seq(Nat) /\ In(s) \subseteq In(s \o t) /\ In(t) \subseteq In(s \o t)
<1>1. s \o t \in Seq(Nat) /\ Len(s \o t) = Len(s) + Len(t)
  OBVIOUS
<1>2. \A i \in 1 .. Len(s) : i \in 1 .. Len(s \o t) /\ (s \o t)[i] = s[i]
  BY <1>1
<1>3. \A i \in 1 .. Len(t) : Len(s) + i \in 1 .. Len(s \o t) /\ (s \o t)[Len(s) + i] = t[i]
  BY <1>1
<1>4. DOMAIN (s \o t) = 1 .. Len(s \o t) /\ DOMAIN s = 1 .. Len(s) /\ DOMAIN t = 1 .. Len(t)
  BY <1>1
<1>5. In(s) \subseteq In(s \o t)
  BY <1>2, <1>4 DEF In, HI!ToSet
<1>6. In(t) \subseteq In(s \o t)
  BY <1>3, <1>4 DEF In, HI!ToSet
<1> QED BY <1>1, <1>5, <1>6

LEMMA InEmpty == In(<<>>) = {} /\ <<>> \in Seq(Nat)
BY DEF In, HI!ToSet

\* The sentinel is a job without turns.
LEMMA StopIsJob ==
    /\ HI!Stop \in Job /\ HI!Stop.turns = <<>> /\ HI!Stop.mode = "stop"
    /\ HI!Stop.document[2] = 0 /\ HI!Stop.document \in HI!Documents
<1>1. <<"none", 0>> \in HI!Documents
  BY HindsightConstants DEF HI!Documents, HI!NoSession
<1> QED BY <1>1 DEF HI!Stop, Job, HI!NoSession

LEMMA JobsHaveDocuments ==
    ASSUME NEW j \in Job
    PROVE  /\ j.document \in HI!Documents /\ j.document[2] \in Nat /\ j.turns \in Seq(Nat)
           /\ (j.mode \in {"append", "replace"} \/ j = HI!Stop)
<1>1. j.document \in HI!Documents /\ j.turns \in Seq(Nat)
      /\ (j.mode \in {"append", "replace"} \/ j = HI!Stop)
  BY StopIsJob, InEmpty DEF Job, Retain
<1>2. \A d \in HI!Documents : d[2] \in Nat
  BY HindsightConstants DEF HI!Documents
<1> QED BY <1>1, <1>2

\* The lives that LivesInv compares are numbers.
LEMMA LivesAreNat ==
    HindsightTypes => /\ \A i \in Places : Queued(i) \in Job
                      /\ \A i \in Places : Queued(i).document[2] \in Nat
                      /\ \A d \in HI!Documents : d[2] \in Nat
<1> SUFFICES ASSUME HindsightTypes
             PROVE  /\ \A i \in Places : Queued(i) \in Job
                    /\ \A i \in Places : Queued(i).document[2] \in Nat
                    /\ \A d \in HI!Documents : d[2] \in Nat
  OBVIOUS
<1>1. \A d \in HI!Documents : d[2] \in Nat
  BY HindsightConstants DEF HI!Documents
<1>2. jobs \in Seq(Job) /\ job \in Job
  BY DEF HindsightTypes
<1> HIDE DEF Job
<1>3. \A i \in Places : Queued(i) \in Job
  BY <1>2 DEF Places, Queued
<1> QED BY <1>1, <1>3, JobsHaveDocuments

LEMMA HindsightInit == HI!Init => HindsightInv
<1> SUFFICES ASSUME HI!Init PROVE HindsightInv
  OBVIOUS
<1>1. <<>> \in Seq(Nat) /\ <<>> \in Seq(Job) /\ <<>> \in Seq(Sessions \cup {"none"})
  OBVIOUS
<1>2. documents \in [HI!Documents -> Seq(Nat)] /\ \A d \in HI!Documents : documents[d] = <<>>
  BY <1>1 DEF HI!Init
<1>3. HindsightTypes
  BY <1>1, <1>2, StopIsJob, HindsightConstants DEF HI!Init, HI!NoSession, HindsightTypes
<1>4. Places = {0} /\ Queued(0) = HI!Stop
  BY DEF HI!Init, Places, Queued
<1>5. LivesInv
  BY <1>2, <1>4, InEmpty, StopIsJob DEF HI!Init, LivesInv
<1>6. GrowthInv
  BY <1>4, StopIsJob DEF HI!Init, GrowthInv, Replaces
<1>7. KeptInv
  BY DEF HI!Init, KeptInv
<1> QED BY <1>3, <1>5, <1>6, <1>7 DEF HindsightInv

\* Steps of the recalls, of the writer's end and of the shutdown.
LEMMA HindsightQuiet ==
    ASSUME HindsightInv, UNCHANGED <<session, life, turns, owner, jobs, job, documents, lost>>,
           phase' \in {"off", "up", "closing", "down"}, phase' = "off" <=> phase = "off",
           writer' # "busy" <=> job = HI!Stop
    PROVE  HindsightInv'
BY DEF HindsightInv, HindsightTypes, LivesInv, GrowthInv, KeptInv, Kept, Places, Queued, Replaces

(***************************************************************************)
(* A job put behind the others, for the turns so far or more, keeps the    *)
(* order in which the turns of one document grow.                          *)
(***************************************************************************)
Behind(j, ts) ==
    /\ j \in Job /\ j.document[2] <= life
    /\ j.mode = "append" => j.document[2] = 0
    /\ j.mode = "replace" => j.document = <<session, life>> /\ life >= 1 /\ In(j.turns) = ts

LEMMA QueueGrows ==
    ASSUME HindsightInv, phase # "off", NEW j, NEW ts, Behind(j, ts), In(turns) \subseteq ts,
           jobs' = Append(jobs, j), UNCHANGED <<job, documents>>, NEW n \in Nat, n = Len(jobs)
    PROVE  /\ jobs' \in Seq(Job) /\ Places' = Places \cup {n + 1}
           /\ \A i \in Places : i # n + 1 /\ Queued(i)' = Queued(i)
           /\ Queued(n + 1)' = j
           /\ \A i, k \in Places', d \in HI!Documents :
                 i < k /\ Replaces(i, d)' /\ Replaces(k, d)' =>
                     In(Queued(i).turns)' \subseteq In(Queued(k).turns)'
           /\ \A i \in Places', d \in HI!Documents :
                 Replaces(i, d)' => In(documents[d])' \subseteq In(Queued(i).turns)'
           /\ \A i \in Places' :
                 Queued(i)'.mode = "replace" /\ Queued(i)'.document = <<session, life>> =>
                     In(Queued(i).turns)' \subseteq ts
<1>1. jobs \in Seq(Job) /\ j \in Job
  BY DEF HindsightInv, HindsightTypes, Behind
<1> HIDE DEF Job
<1>2. jobs' \in Seq(Job) /\ Len(jobs') = n + 1 /\ jobs'[n + 1] = j
  BY <1>1
<1>3. \A i \in 1 .. n : jobs'[i] = jobs[i]
  BY <1>1
<1>4. Places = 0 .. n /\ Places' = 0 .. n + 1
  BY <1>2 DEF Places
<1>5. Places' = Places \cup {n + 1} /\ \A i \in Places : i # n + 1
  BY <1>4
<1>6. \A i \in Places : Queued(i)' = Queued(i)
  BY <1>3, <1>4 DEF Queued
<1>7. Queued(n + 1)' = j
  BY <1>2 DEF Queued
<1>8. ASSUME NEW i \in Places', NEW d \in HI!Documents, Replaces(i, d)'
      PROVE  In(documents[d])' \subseteq In(Queued(i).turns)'
  <2>1. CASE i \in Places
    BY <1>6, <1>8, <2>1 DEF HindsightInv, GrowthInv, Replaces, In
  <2>2. CASE i = n + 1
    <3>1. d = <<session, life>> /\ In(j.turns) = ts
      BY <1>7, <1>8, <2>2 DEF Behind, Replaces
    <3>2. In(documents[d]) \subseteq In(turns)
      BY <3>1 DEF HindsightInv, GrowthInv
    <3> QED BY <1>7, <2>2, <3>1, <3>2 DEF In
  <2> QED BY <1>5, <2>1, <2>2
<1>9. ASSUME NEW i \in Places', Queued(i)'.mode = "replace",
             Queued(i)'.document = <<session, life>>
      PROVE  In(Queued(i).turns)' \subseteq ts
  <2>1. CASE i \in Places
    BY <1>6, <1>9, <2>1 DEF HindsightInv, GrowthInv, Replaces, In
  <2>2. CASE i = n + 1
    BY <1>7, <1>9, <2>2 DEF Behind, In
  <2> QED BY <1>5, <2>1, <2>2
<1>10. ASSUME NEW i \in Places', NEW k \in Places', NEW d \in HI!Documents,
              i < k, Replaces(i, d)', Replaces(k, d)'
       PROVE  In(Queued(i).turns)' \subseteq In(Queued(k).turns)'
  <2>1. i \in Places
    BY <1>4, <1>10
  <2>2. CASE k \in Places
    BY <1>6, <1>10, <2>1, <2>2 DEF HindsightInv, GrowthInv, Replaces, In
  <2>3. CASE k = n + 1
    <3>1. d = <<session, life>> /\ In(j.turns) = ts
      BY <1>7, <1>10, <2>3 DEF Behind, Replaces
    <3>2. In(Queued(i).turns)' \subseteq ts
      BY <1>9, <1>10, <3>1 DEF Replaces
    <3> QED BY <1>7, <2>3, <3>1, <3>2 DEF In
  <2> QED BY <1>5, <2>2, <2>3
<1> QED BY <1>2, <1>5, <1>6, <1>7, <1>8, <1>9, <1>10

\* The sentinel behind the queue replaces nothing.
LEMMA StopBehind == HindsightInv => Behind(HI!Stop, In(turns))
BY StopIsJob, HindsightConstants DEF HindsightInv, HindsightTypes, Behind

\* What sync_turn and on_session_switch queue.
LEMMA RetainBehind ==
    ASSUME HindsightInv, phase # "off", NEW a \in {"yes", "no"}, NEW ts \in Seq(Nat)
    PROVE  Behind(HI!RetainJob(a, ts), In(ts)) /\ HI!RetainJob(a, ts).turns = ts
<1>1. life \in 0 .. MaxLife /\ session \in Sessions \cup {"none"} /\ life >= 1
  BY DEF HindsightInv, HindsightTypes, LivesInv
<1>2. <<session, 0>> \in HI!Documents /\ <<session, life>> \in HI!Documents
  BY <1>1, HindsightConstants DEF HI!Documents, HI!NoSession
<1>3. CASE a = "yes"
  <2>1. HI!RetainJob(a, ts) = [document |-> <<session, 0>>, mode |-> "append", turns |-> ts]
    BY <1>3 DEF HI!RetainJob, HI!RetainTarget
  <2> QED BY <2>1, <1>1, <1>2 DEF Behind, Job, Retain
<1>4. CASE a = "no"
  <2>1. HI!RetainJob(a, ts) = [document |-> <<session, life>>, mode |-> "replace", turns |-> ts]
    BY <1>4 DEF HI!RetainJob, HI!RetainTarget
  <2> QED BY <2>1, <1>1, <1>2 DEF Behind, Job, Retain
<1> QED BY <1>3, <1>4

LEMMA ShutdownBeginStep == HindsightInv /\ HI!ShutdownBegin => HindsightInv'
<1> SUFFICES ASSUME HindsightInv, HI!ShutdownBegin PROVE HindsightInv'
  OBVIOUS
<1>1. /\ phase = "up" /\ phase' = "closing"
      /\ UNCHANGED <<session, life, turns, owner, writer, job, documents, lost>>
      /\ jobs' = jobs \/ jobs' = Append(jobs, HI!Stop)
  BY DEF HI!ShutdownBegin
<1>2. CASE jobs' = jobs
  BY <1>1, <1>2, HindsightQuiet DEF HindsightInv, HindsightTypes
<1>3. CASE jobs' = Append(jobs, HI!Stop)
  <2>1. PICK n \in Nat : n = Len(jobs)
    BY DEF HindsightInv, HindsightTypes
  <2>2. /\ jobs' \in Seq(Job) /\ Places' = Places \cup {n + 1}
        /\ \A i \in Places : Queued(i)' = Queued(i)
        /\ Queued(n + 1)' = HI!Stop
        /\ \A i, k \in Places', d \in HI!Documents :
              i < k /\ Replaces(i, d)' /\ Replaces(k, d)' =>
                  In(Queued(i).turns)' \subseteq In(Queued(k).turns)'
        /\ \A i \in Places', d \in HI!Documents :
              Replaces(i, d)' => In(documents[d])' \subseteq In(Queued(i).turns)'
        /\ \A i \in Places' :
              Queued(i)'.mode = "replace" /\ Queued(i)'.document = <<session, life>> =>
                  In(Queued(i).turns)' \subseteq In(turns)
    BY <1>1, <1>3, <2>1, StopBehind, QueueGrows
  <2>3. HindsightTypes'
    BY <1>1, <2>2 DEF HindsightInv, HindsightTypes
  <2>4. LivesInv'
    BY <1>1, <2>2, StopIsJob DEF HindsightInv, HindsightTypes, LivesInv, In
  <2>5. GrowthInv'
    BY <1>1, <2>2 DEF HindsightInv, GrowthInv, Replaces, In
  <2>6. KeptInv'
    BY <1>1, <2>2 DEF HindsightInv, KeptInv, Kept, In
  <2> QED BY <2>3, <2>4, <2>5, <2>6 DEF HindsightInv
<1> QED BY <1>1, <1>2, <1>3

LEMMA SyncTurnStep == HindsightInv /\ HI!SyncTurn => HindsightInv'
<1> SUFFICES ASSUME HindsightInv, HI!SyncTurn PROVE HindsightInv'
  OBVIOUS
<1>1. PICK n \in Nat, t \in Nat : n = Len(jobs) /\ t = Len(owner) + 1
  BY DEF HindsightInv, HindsightTypes
<1>2. /\ phase # "off" /\ owner' = Append(owner, session)
      /\ UNCHANGED <<phase, session, life, job, documents>>
  BY DEF HI!SyncTurn
<1>3. /\ owner' \in Seq(Sessions \cup {"none"}) /\ Len(owner') = t
      /\ \A x \in 1 .. Len(owner') : x \in 1 .. Len(owner) \/ x = t
  BY <1>1, <1>2 DEF HindsightInv, HindsightTypes
<1>4. CASE phase # "up"
  <2>1. lost' = lost \cup {t} /\ UNCHANGED <<turns, jobs, writer>>
    BY <1>1, <1>4 DEF HI!SyncTurn
  <2>2. HindsightTypes' /\ LivesInv' /\ GrowthInv'
    BY <1>2, <1>3, <2>1
    DEF HindsightInv, HindsightTypes, LivesInv, GrowthInv, Places, Queued, Replaces
  <2>3. KeptInv'
    BY <1>2, <1>3, <2>1 DEF HindsightInv, KeptInv, Kept, Places, Queued
  <2> QED BY <2>2, <2>3 DEF HindsightInv
<1>5. CASE phase = "up"
  <2>1. turns' = Append(turns, t) /\ lost' = lost
    BY <1>1, <1>5 DEF HI!SyncTurn
  <2>2. turns' \in Seq(Nat) /\ In(turns') = In(turns) \cup {t}
    BY <2>1, InAppend DEF HindsightInv, HindsightTypes
  <2>3. CASE UNCHANGED <<jobs, writer>>
    <3>1. HindsightTypes' /\ LivesInv'
      BY <1>2, <1>3, <2>2, <2>3
      DEF HindsightInv, HindsightTypes, LivesInv, Places, Queued
    <3>2. GrowthInv'
      BY <1>2, <2>2, <2>3 DEF HindsightInv, GrowthInv, Places, Queued, Replaces, In
    <3>3. KeptInv'
      BY <1>2, <1>3, <2>1, <2>2, <2>3 DEF HindsightInv, KeptInv, Kept, Places, Queued, In
    <3> QED BY <3>1, <3>2, <3>3 DEF HindsightInv
  <2>4. ASSUME NEW a \in {"yes", "no"}, jobs' = Append(jobs, HI!RetainJob(a, turns')),
               HI!EnsureWriter
        PROVE  HindsightInv'
    <3>1. Behind(HI!RetainJob(a, turns'), In(turns'))
      BY <1>2, <2>2, <2>4, RetainBehind
    <3>2. PICK j, ts : /\ j = HI!RetainJob(a, turns') /\ ts = In(turns')
                       /\ Behind(j, ts) /\ jobs' = Append(jobs, j)
      BY <2>4, <3>1
    <3>3. /\ jobs' \in Seq(Job) /\ Places' = Places \cup {n + 1}
          /\ \A i \in Places : Queued(i)' = Queued(i)
          /\ Queued(n + 1)' = j
          /\ \A i, k \in Places', d \in HI!Documents :
                i < k /\ Replaces(i, d)' /\ Replaces(k, d)' =>
                    In(Queued(i).turns)' \subseteq In(Queued(k).turns)'
          /\ \A i \in Places', d \in HI!Documents :
                Replaces(i, d)' => In(documents[d])' \subseteq In(Queued(i).turns)'
          /\ \A i \in Places' :
                Queued(i)'.mode = "replace" /\ Queued(i)'.document = <<session, life>> =>
                    In(Queued(i).turns)' \subseteq ts
      BY <1>1, <1>2, <2>2, <3>2, QueueGrows
    <3>4. HindsightTypes'
      <4>1. writer' # "busy" <=> job = HI!Stop
        BY <2>4 DEF HI!EnsureWriter, HindsightInv, HindsightTypes
      <4> QED BY <1>2, <1>3, <2>2, <3>3, <4>1 DEF HindsightInv, HindsightTypes
    <3>5. LivesInv'
      <4>1. \A i \in Places' : i \in Places \/ i = n + 1
        BY <3>3
      <4>2. /\ j.document[2] <= life
            /\ j.mode = "append" => j.document[2] = 0
            /\ j.mode = "replace" => j.document[2] >= 1
        BY <3>2 DEF Behind
      <4> QED BY <1>2, <3>3, <4>1, <4>2 DEF HindsightInv, LivesInv, In
    <3>6. GrowthInv'
      <4>1. In(documents[<<session, life>>]) \subseteq ts
        BY <1>2, <2>2, <3>2 DEF HindsightInv, GrowthInv
      <4> QED BY <1>2, <3>2, <3>3, <4>1 DEF GrowthInv, Replaces, In
    <3>7. KeptInv'
      BY <1>2, <1>3, <2>1, <2>2, <3>3 DEF HindsightInv, KeptInv, Kept, In
    <3> QED BY <3>4, <3>5, <3>6, <3>7 DEF HindsightInv
  <2>5. UNCHANGED <<jobs, writer>> \/ \E a \in {"yes", "no"} :
           jobs' = Append(jobs, HI!RetainJob(a, turns')) /\ HI!EnsureWriter
    BY <1>5 DEF HI!SyncTurn
  <2> QED BY <2>3, <2>4, <2>5
<1> QED BY <1>4, <1>5

\* A document of the next life is fresh.
LEMMA FreshDocument ==
    ASSUME HindsightInv, NEW s \in Sessions, NEW l \in Nat, l = life, life < MaxLife
    PROVE  /\ <<s, l + 1>> \in HI!Documents /\ l + 1 \in 0 .. MaxLife
           /\ In(documents[<<s, l + 1>>]) = {}
<1>1. <<s, l + 1>> \in HI!Documents /\ l + 1 \in 0 .. MaxLife
  BY HindsightConstants DEF HI!Documents
<1> DEFINE d == <<s, l + 1>>
<1>2. d \in HI!Documents /\ d[2] = l + 1
  BY <1>1
<1> HIDE DEF d
<1>3. d[2] > life
  BY <1>2
<1>4. In(documents[d]) = {}
  BY <1>2, <1>3 DEF HindsightInv, LivesInv
<1> QED BY <1>1, <1>4 DEF d

\* Turning to the next document with nothing to flush.
LEMMA RotateStep ==
    ASSUME HindsightInv, NEW s \in Sessions, NEW l \in Nat, l = life, life < MaxLife,
           phase' \in {"off", "up", "closing", "down"}, phase' # "off",
           session' = s, life' = l + 1, turns' = <<>>,
           UNCHANGED <<owner, jobs, writer, job, documents>>,
           In(turns) \subseteq lost', lost \subseteq lost'
    PROVE  HindsightInv'
<1>1. turns' \in Seq(Nat) /\ In(turns') = {}
  BY InEmpty
<1>2. /\ \A i \in Places : Queued(i).document[2] \in Nat
      /\ \A d \in HI!Documents : d[2] \in Nat
  BY LivesAreNat DEF HindsightInv
<1>3. HindsightTypes'
  BY <1>1, FreshDocument DEF HindsightInv, HindsightTypes
<1>4. LivesInv'
  <2>1. /\ \A i \in Places : Queued(i).document[2] <= l
        /\ \A d \in HI!Documents : d[2] > l => In(documents[d]) = {}
    BY DEF HindsightInv, LivesInv
  <2>2. /\ \A i \in Places : Queued(i).document[2] <= l + 1
        /\ \A d \in HI!Documents : d[2] > l + 1 => In(documents[d]) = {}
    <3>1. \A i \in Places : Queued(i).document[2] <= l + 1
      BY <1>2, <2>1
    <3>2. \A d \in HI!Documents : d[2] > l + 1 => d[2] > l
      BY <1>2
    <3> QED BY <2>1, <3>1, <3>2
  <2>3. Places' = Places /\ \A i \in Places : Queued(i)' = Queued(i)
    BY DEF Places, Queued
  <2>4. l + 1 >= 1
    OBVIOUS
  <2> QED BY <2>2, <2>3, <2>4 DEF HindsightInv, LivesInv, In
<1>5. \A i \in Places : Queued(i).document # <<s, l + 1>>
  BY <1>2 DEF HindsightInv, LivesInv
<1>6. GrowthInv'
  BY <1>1, <1>5, FreshDocument
  DEF HindsightInv, GrowthInv, Places, Queued, Replaces, In
<1>7. KeptInv'
  BY DEF HindsightInv, KeptInv, Kept, Places, Queued, In
<1> QED BY <1>3, <1>4, <1>6, <1>7 DEF HindsightInv

LEMMA InitializeStep == ASSUME HindsightInv, NEW s \in Sessions, HI!Initialize(s)
                        PROVE  HindsightInv'
<1>1. PICK l \in Nat : l = life
  BY HindsightConstants DEF HindsightInv, HindsightTypes
<1>2. In(turns) = {}
  BY InEmpty DEF HI!Initialize, HindsightInv, HindsightTypes
<1> QED BY <1>1, <1>2, RotateStep DEF HI!Initialize

LEMMA SwitchStep == ASSUME HindsightInv, NEW s \in Sessions, HI!SwitchSession(s)
                    PROVE  HindsightInv'
<1>1. PICK n \in Nat, l \in Nat : n = Len(jobs) /\ l = life
  BY HindsightConstants DEF HindsightInv, HindsightTypes
<1>2. /\ phase # "off" /\ life < MaxLife /\ session' = s /\ life' = l + 1 /\ turns' = <<>>
      /\ UNCHANGED <<phase, owner, job, documents>>
  BY <1>1 DEF HI!SwitchSession
<1>3. turns' \in Seq(Nat) /\ In(turns') = {}
  BY <1>2, InEmpty
<1>4. <<s, l + 1>> \in HI!Documents /\ l + 1 \in 0 .. MaxLife
  BY <1>1, <1>2, FreshDocument
<1>5. In(documents[<<s, l + 1>>]) = {}
  BY <1>1, <1>2, FreshDocument
<1>6. /\ \A i \in Places : Queued(i).document[2] \in Nat
      /\ \A d \in HI!Documents : d[2] \in Nat
  BY LivesAreNat DEF HindsightInv
<1>7. CASE UNCHANGED <<jobs, writer>> /\ In(turns) \subseteq lost' /\ lost \subseteq lost'
  BY <1>1, <1>2, <1>7, RotateStep DEF HindsightInv, HindsightTypes
<1>8. ASSUME NEW a \in {"yes", "no"}, jobs' = Append(jobs, HI!RetainJob(a, turns)),
             HI!EnsureWriter, lost' = lost
      PROVE  HindsightInv'
  <2>1. turns \in Seq(Nat)
    BY DEF HindsightInv, HindsightTypes
  <2>2. PICK j, ts : /\ j = HI!RetainJob(a, turns) /\ ts = In(turns) /\ In(j.turns) = ts
                     /\ Behind(j, ts) /\ jobs' = Append(jobs, j)
    BY <1>2, <1>8, <2>1, RetainBehind
  <2>3. /\ jobs' \in Seq(Job) /\ Places' = Places \cup {n + 1}
        /\ \A i \in Places : Queued(i)' = Queued(i)
        /\ Queued(n + 1)' = j
        /\ \A i, k \in Places', d \in HI!Documents :
              i < k /\ Replaces(i, d)' /\ Replaces(k, d)' =>
                  In(Queued(i).turns)' \subseteq In(Queued(k).turns)'
        /\ \A i \in Places', d \in HI!Documents :
              Replaces(i, d)' => In(documents[d])' \subseteq In(Queued(i).turns)'
    BY <1>1, <1>2, <2>2, QueueGrows
  <2>4. HindsightTypes'
    <3>1. writer' # "busy" <=> job = HI!Stop
      BY <1>8 DEF HI!EnsureWriter, HindsightInv, HindsightTypes
    <3> QED BY <1>2, <1>3, <1>4, <2>3, <3>1 DEF HindsightInv, HindsightTypes
  <2>5. \A i \in Places' : i \in Places \/ i = n + 1
    BY <2>3
  <2>6. /\ j.document[2] <= l
        /\ j.mode = "append" => j.document[2] = 0
        /\ j.mode = "replace" => j.document[2] >= 1
    BY <1>1, <2>2 DEF Behind
  <2>7. \A i \in Places' : Queued(i)'.document[2] <= l
    BY <1>1, <2>3, <2>5, <2>6 DEF HindsightInv, LivesInv
  <2>8. LivesInv'
    <3>1. j.document[2] \in Nat
      BY <2>2, JobsHaveDocuments DEF Behind
    <3>2. \A i \in Places' : Queued(i)'.document[2] \in Nat
      BY <1>6, <2>3, <2>5, <3>1
    <3>3. \A i \in Places' : Queued(i)'.document[2] <= l + 1
      BY <2>7, <3>2
    <3>4. \A i \in Places' : /\ Queued(i)'.mode = "append" => Queued(i)'.document[2] = 0
                             /\ Queued(i)'.mode = "replace" => Queued(i)'.document[2] >= 1
      BY <2>3, <2>5, <2>6 DEF HindsightInv, LivesInv
    <3>5. \A d \in HI!Documents : d[2] > l => In(documents[d]) = {}
      BY <1>1 DEF HindsightInv, LivesInv
    <3>6. \A d \in HI!Documents : d[2] > l + 1 => In(documents[d]) = {}
      BY <1>6, <3>5
    <3>7. l + 1 >= 1
      OBVIOUS
    <3> QED BY <1>2, <3>3, <3>4, <3>6, <3>7 DEF LivesInv, In
  <2>9. \A i \in Places' : Queued(i)'.document # <<s, l + 1>>
    BY <1>1, <2>7
  <2>10. GrowthInv'
    BY <1>2, <1>3, <1>5, <2>3, <2>9 DEF GrowthInv, Replaces, In
  <2>11. KeptInv'
    <3>1. ASSUME NEW x \in 1 .. Len(owner') PROVE Kept(x)'
      <4>1. Kept(x)
        BY <1>2, <3>1 DEF HindsightInv, KeptInv
      <4>2. CASE x \in In(turns)
        <5>1. n + 1 \in Places' /\ x \in In(Queued(n + 1).turns)'
          BY <2>2, <2>3, <4>2 DEF In
        <5> QED BY <5>1 DEF Kept
      <4>3. CASE \E i \in Places : x \in In(Queued(i).turns)
        BY <2>3, <4>3 DEF Kept, In
      <4>4. CASE (\E d \in HI!Documents : x \in In(documents[d])) \/ x \in lost
        BY <1>2, <1>8, <4>4 DEF Kept, In
      <4> QED BY <4>1, <4>2, <4>3, <4>4 DEF Kept
    <3> QED BY <3>1 DEF KeptInv
  <2> QED BY <2>4, <2>8, <2>10, <2>11 DEF HindsightInv
<1>9. \/ UNCHANGED <<jobs, writer>> /\ In(turns) \subseteq lost' /\ lost \subseteq lost'
      \/ \E a \in {"yes", "no"} :
            jobs' = Append(jobs, HI!RetainJob(a, turns)) /\ HI!EnsureWriter /\ lost' = lost
  <2>1. turns = <<>> => In(turns) = {}
    BY InEmpty
  <2> QED BY <2>1 DEF HI!SwitchSession, In
<1> QED BY <1>7, <1>8, <1>9

(***************************************************************************)
(* The writer takes the job at the head: every place moves one forward,    *)
(* and the place that falls away held the sentinel.                        *)
(***************************************************************************)
LEMMA WriterTakeStep == HindsightInv /\ HI!WriterTake => HindsightInv'
<1> SUFFICES ASSUME HindsightInv, HI!WriterTake PROVE HindsightInv'
  OBVIOUS
<1>1. /\ writer = "idle" /\ jobs # <<>> /\ jobs' = Tail(jobs) /\ job = HI!Stop
      /\ UNCHANGED <<phase, session, life, turns, owner, documents, lost>>
  BY DEF HI!WriterTake, HindsightInv, HindsightTypes
<1>2. jobs \in Seq(Job) /\ job \in Job
  BY DEF HindsightInv, HindsightTypes
<1>3. \/ writer' = "exited" /\ Head(jobs) = HI!Stop /\ job' = job
      \/ writer' = "busy" /\ Head(jobs) # HI!Stop /\ job' = Head(jobs)
  BY DEF HI!WriterTake
<1>4. job' = Head(jobs)
  BY <1>1, <1>3
<1>5. PICK n \in Nat : n = Len(jobs)
  BY <1>2
<1> HIDE DEF Job
<1>6. n >= 1 /\ Head(jobs) = jobs[1] /\ Head(jobs) \in Job
  BY <1>1, <1>2, <1>5
<1>7. jobs' \in Seq(Job) /\ Len(jobs') = n - 1
  BY <1>1, <1>2, <1>5
<1>8. \A i \in 1 .. n - 1 : jobs'[i] = jobs[i + 1]
  BY <1>1, <1>2, <1>5
<1>9. Places = 0 .. n /\ Places' = 0 .. n - 1
  BY <1>5, <1>7 DEF Places
<1>10. \A i \in Places' : i + 1 \in Places /\ Queued(i)' = Queued(i + 1)
  <2> SUFFICES ASSUME NEW i \in Places'
               PROVE  i + 1 \in Places /\ Queued(i)' = Queued(i + 1)
    OBVIOUS
  <2>1. i \in Nat /\ i + 1 \in 0 .. n /\ i + 1 # 0
    BY <1>9
  <2>2. CASE i = 0
    BY <1>4, <1>6, <1>9, <2>1, <2>2 DEF Queued
  <2>3. CASE i # 0
    <3>1. i \in 1 .. n - 1
      BY <1>9, <2>3
    <3> QED BY <1>8, <1>9, <2>1, <2>3, <3>1 DEF Queued
  <2> QED BY <2>2, <2>3
<1>11. \A i \in Places : i = 0 \/ \E k \in Places' : i = k + 1
  <2> SUFFICES ASSUME NEW i \in Places, i # 0 PROVE \E k \in Places' : i = k + 1
    OBVIOUS
  <2>1. i - 1 \in 0 .. n - 1 /\ i = (i - 1) + 1
    BY <1>9
  <2> QED BY <1>9, <2>1
<1>12. HindsightTypes'
  <2>1. job' \in Job
    BY <1>4, <1>6
  <2>2. writer' # "busy" <=> job' = HI!Stop
    BY <1>1, <1>3
  <2> QED BY <1>1, <1>7, <2>1, <2>2 DEF HindsightInv, HindsightTypes
<1>13. LivesInv'
  BY <1>1, <1>10 DEF HindsightInv, LivesInv, In
<1>14. GrowthInv'
  <2>1. \A i, k \in Places' : i < k => i + 1 < k + 1
    BY <1>9
  <2>2. \A i \in Places', d \in HI!Documents : Replaces(i, d)' => Replaces(i + 1, d)
    BY <1>10 DEF Replaces
  <2>3. \A i \in Places', d \in HI!Documents :
           Replaces(i, d)' => In(documents[d])' \subseteq In(Queued(i).turns)'
    BY <1>1, <1>10, <2>2 DEF HindsightInv, GrowthInv, In
  <2>4. \A i, k \in Places', d \in HI!Documents :
           i < k /\ Replaces(i, d)' /\ Replaces(k, d)' =>
               In(Queued(i).turns)' \subseteq In(Queued(k).turns)'
    BY <1>10, <2>1, <2>2 DEF HindsightInv, GrowthInv, In
  <2>5. phase' # "off" =>
           /\ In(documents[<<session, life>>])' \subseteq In(turns)'
           /\ \A i \in Places' : Replaces(i, <<session, life>>)' =>
                                     In(Queued(i).turns)' \subseteq In(turns)'
    BY <1>1, <1>10 DEF HindsightInv, GrowthInv, Replaces, In
  <2> QED BY <2>3, <2>4, <2>5 DEF GrowthInv
<1>15. KeptInv'
  <2>1. In(Queued(0).turns) = {}
    BY <1>1, StopIsJob, InEmpty DEF Queued
  <2>2. ASSUME NEW x, Kept(x) PROVE Kept(x)'
    <3>1. CASE \E i \in Places : x \in In(Queued(i).turns)
      <4>1. PICK i \in Places : x \in In(Queued(i).turns)
        BY <3>1
      <4>2. PICK k \in Places' : i = k + 1
        BY <1>11, <2>1, <4>1
      <4>3. x \in In(Queued(k).turns)'
        BY <1>10, <4>1, <4>2 DEF In
      <4> QED BY <4>3 DEF Kept
    <3>2. CASE ~ \E i \in Places : x \in In(Queued(i).turns)
      BY <1>1, <2>2, <3>2 DEF Kept, In
    <3> QED BY <3>1, <3>2
  <2> QED BY <1>1, <2>2 DEF HindsightInv, KeptInv
<1> QED BY <1>12, <1>13, <1>14, <1>15 DEF HindsightInv

\* A retain ends: the server has its turns, or the writer gave them up.
LEMMA WriterRetainStep == HindsightInv /\ HI!WriterRetain => HindsightInv'
<1> SUFFICES ASSUME HindsightInv, HI!WriterRetain PROVE HindsightInv'
  OBVIOUS
<1>1. /\ writer' = "idle" /\ job' = HI!Stop
      /\ UNCHANGED <<phase, session, life, turns, owner, jobs>>
  BY DEF HI!WriterRetain
<1>2. PICK n \in Nat : n = Len(jobs)
  BY DEF HindsightInv, HindsightTypes
<1>3. /\ Places = 0 .. n /\ Places' = Places /\ Queued(0) = job /\ Queued(0)' = HI!Stop
      /\ \A i \in Places : i # 0 => Queued(i)' = Queued(i)
  BY <1>1, <1>2 DEF Places, Queued
<1>4. /\ Queued(0)'.mode = "stop" /\ Queued(0)'.document[2] = 0
      /\ In(Queued(0).turns)' = {}
  BY <1>3, StopIsJob, InEmpty DEF In
<1>5. /\ job.document \in HI!Documents /\ job.turns \in Seq(Nat)
      /\ job.mode \in {"append", "replace"}
  BY JobsHaveDocuments DEF HI!WriterRetain, HindsightInv, HindsightTypes
<1>6. life \in Nat /\ 0 <= life
  BY HindsightConstants DEF HindsightInv, HindsightTypes
<1>7. \A i \in Places, d \in HI!Documents : Replaces(i, d)' => i # 0 /\ Replaces(i, d)
  BY <1>3, <1>4 DEF Replaces
<1>8. \A i \in Places : Replaces(i, <<session, life>>)' => i # 0 /\ Replaces(i, <<session, life>>)
  BY <1>1, <1>3, <1>4 DEF Replaces
<1>9. HindsightTypes' /\ LivesInv' /\ GrowthInv' /\ KeptInv'
  <2>1. CASE UNCHANGED documents /\ lost' = lost \cup In(job.turns)
    <3>1. HindsightTypes'
      BY <1>1, <2>1, StopIsJob DEF HindsightInv, HindsightTypes
    <3>2. LivesInv'
      BY <1>1, <1>3, <1>4, <1>6, <2>1 DEF HindsightInv, LivesInv, In
    <3>3. GrowthInv'
      <4>1. \A i, k \in Places, d \in HI!Documents :
               i < k /\ Replaces(i, d)' /\ Replaces(k, d)' =>
                   In(Queued(i)'.turns) \subseteq In(Queued(k)'.turns)
        BY <1>3, <1>7 DEF HindsightInv, GrowthInv
      <4>2. \A i \in Places, d \in HI!Documents :
               Replaces(i, d)' => In(documents'[d]) \subseteq In(Queued(i)'.turns)
        BY <1>3, <1>7, <2>1 DEF HindsightInv, GrowthInv
      <4>3. phase # "off" =>
               /\ In(documents'[<<session, life>>]) \subseteq In(turns)
               /\ \A i \in Places : Replaces(i, <<session, life>>)' =>
                                        In(Queued(i)'.turns) \subseteq In(turns)
        BY <1>3, <1>8, <2>1 DEF HindsightInv, GrowthInv
      <4> QED BY <1>1, <1>3, <4>1, <4>2, <4>3 DEF GrowthInv, In, Replaces
    <3>4. KeptInv'
      BY <1>1, <1>3, <2>1 DEF HindsightInv, KeptInv, Kept, In
    <3> QED BY <3>1, <3>2, <3>3, <3>4
  <2>2. CASE /\ documents' = [documents EXCEPT ![job.document] =
                                  HI!Retained(job, documents[job.document])]
             /\ lost' = lost \ In(job.turns)
    <3>1. PICK e, b : e = job.document /\ b = HI!Retained(job, documents[e])
      OBVIOUS
    <3>2. documents[e] \in Seq(Nat) /\ e \in HI!Documents
      BY <1>5, <3>1 DEF HindsightInv, HindsightTypes
    <3>3. b \in Seq(Nat) /\ In(job.turns) \subseteq In(b) /\ In(documents[e]) \subseteq In(b)
      <4>1. CASE job.mode = "append"
        BY <1>5, <3>1, <3>2, <4>1, InConcat DEF HI!Retained
      <4>2. CASE job.mode = "replace"
        <5>1. b = job.turns
          BY <3>1, <4>2 DEF HI!Retained
        <5>2. Replaces(0, e) /\ 0 \in Places
          BY <1>3, <3>1, <4>2 DEF Replaces
        <5> QED BY <1>3, <1>5, <3>2, <5>1, <5>2 DEF HindsightInv, GrowthInv
      <4> QED BY <1>5, <4>1, <4>2
    <3>4. /\ documents' \in [HI!Documents -> Seq(Nat)] /\ documents'[e] = b
          /\ \A d \in HI!Documents : d # e => documents'[d] = documents[d]
      BY <2>2, <3>1, <3>2, <3>3 DEF HindsightInv, HindsightTypes
    <3>5. /\ \A i \in Places : Queued(i).document[2] \in Nat
          /\ \A d \in HI!Documents : d[2] \in Nat
      BY LivesAreNat DEF HindsightInv
    <3>6. HindsightTypes'
      BY <1>1, <3>4, StopIsJob DEF HindsightInv, HindsightTypes
    <3>7. LivesInv'
      <4>1. life \in Nat /\ e[2] <= life
        BY <1>3, <3>1, HindsightConstants DEF HindsightInv, HindsightTypes, LivesInv
      <4>2. \A d \in HI!Documents : d[2] > life => d # e
        BY <3>5, <4>1
      <4>3. \A d \in HI!Documents : d[2] > life => In(documents'[d]) = {}
        BY <3>4, <4>2 DEF HindsightInv, LivesInv
      <4>4. \A i \in Places :
               /\ Queued(i)'.document[2] <= life
               /\ Queued(i)'.mode = "append" => Queued(i)'.document[2] = 0
               /\ Queued(i)'.mode = "replace" => Queued(i)'.document[2] >= 1
        BY <1>3, <1>4, <4>1 DEF HindsightInv, LivesInv
      <4>5. life' = life /\ phase' = phase
        BY <1>1
      <4> QED BY <1>3, <4>3, <4>4, <4>5 DEF HindsightInv, LivesInv, In
    <3>8. GrowthInv'
      <4>1. \A d \in HI!Documents : \/ In(documents'[d]) = In(documents[d])
                                    \/ /\ d = e /\ job.mode = "replace"
                                       /\ In(documents'[d]) = In(job.turns)
                                    \/ d = e /\ d[2] = 0
        <5>1. CASE job.mode = "append"
          BY <1>3, <3>1, <3>4, <5>1 DEF HindsightInv, LivesInv
        <5>2. CASE job.mode = "replace"
          BY <3>1, <3>4, <5>2 DEF HI!Retained
        <5> QED BY <1>5, <5>1, <5>2
      <4>2. \A i \in Places, d \in HI!Documents : Replaces(i, d) => d[2] # 0
        BY <3>5 DEF HindsightInv, LivesInv, Replaces
      <4>3. job.mode = "replace" => Replaces(0, e) /\ 0 \in Places
        BY <1>3, <3>1 DEF Replaces
      <4>4. ASSUME NEW i \in Places, NEW d \in HI!Documents, Replaces(i, d)'
            PROVE  In(documents'[d]) \subseteq In(Queued(i)'.turns)
        <5>1. i # 0 /\ Replaces(i, d) /\ Queued(i)' = Queued(i)
          BY <1>3, <1>7, <4>4
        <5>2. 0 < i
          BY <1>3, <5>1
        <5>3. CASE In(documents'[d]) = In(documents[d])
          BY <5>1, <5>3 DEF HindsightInv, GrowthInv
        <5>4. CASE /\ d = e /\ job.mode = "replace"
                   /\ In(documents'[d]) = In(job.turns)
          BY <1>3, <4>3, <5>1, <5>2, <5>4 DEF HindsightInv, GrowthInv
        <5> QED BY <4>1, <4>2, <5>1, <5>3, <5>4
      <4>5. ASSUME phase # "off" PROVE In(documents'[<<session, life>>]) \subseteq In(turns)
        <5>1. <<session, life>> \in HI!Documents
          BY DEF HindsightInv, HindsightTypes, HI!Documents, HI!NoSession
        <5>2. PICK d \in HI!Documents : d = <<session, life>>
          BY <5>1
        <5>3. d[2] # 0
          BY <4>5, <5>2 DEF HindsightInv, LivesInv
        <5>4. CASE In(documents'[d]) = In(documents[d])
          BY <4>5, <5>2, <5>4 DEF HindsightInv, GrowthInv
        <5>5. CASE /\ d = e /\ job.mode = "replace"
                   /\ In(documents'[d]) = In(job.turns)
          BY <1>3, <4>3, <4>5, <5>2, <5>5 DEF HindsightInv, GrowthInv
        <5> QED BY <4>1, <5>2, <5>3, <5>4, <5>5
      <4>6. \A i, k \in Places, d \in HI!Documents :
               i < k /\ Replaces(i, d)' /\ Replaces(k, d)' =>
                   In(Queued(i)'.turns) \subseteq In(Queued(k)'.turns)
        BY <1>3, <1>7 DEF HindsightInv, GrowthInv
      <4>7. ASSUME phase # "off", NEW i \in Places, Replaces(i, <<session, life>>)'
            PROVE  In(Queued(i)'.turns) \subseteq In(turns)
        BY <1>1, <1>3, <1>4, <4>7 DEF HindsightInv, GrowthInv, Replaces
      <4> QED BY <1>1, <1>3, <4>4, <4>5, <4>6, <4>7 DEF GrowthInv, In, Replaces
    <3>9. KeptInv'
      <4>1. \A d \in HI!Documents : In(documents[d]) \subseteq In(documents'[d])
        BY <3>3, <3>4
      <4>2. In(job.turns) \subseteq In(documents'[e])
        BY <3>3, <3>4
      <4>3. ASSUME NEW x, Kept(x) PROVE Kept(x)'
        <5>1. CASE x \in In(job.turns) \/ \E d \in HI!Documents : x \in In(documents[d])
          <6>1. \E d \in HI!Documents : x \in In(documents'[d])
            BY <3>2, <4>1, <4>2, <5>1
          <6> QED BY <6>1 DEF Kept, In
        <5>2. CASE ~(x \in In(job.turns) \/ \E d \in HI!Documents : x \in In(documents[d]))
          BY <1>1, <1>3, <2>2, <4>3, <5>2 DEF Kept, In
        <5> QED BY <5>1, <5>2
      <4> QED BY <1>1, <4>3 DEF HindsightInv, KeptInv
    <3> QED BY <3>6, <3>7, <3>8, <3>9
  <2> QED BY <2>1, <2>2 DEF HI!WriterRetain, In
<1> QED BY <1>9 DEF HindsightInv

\* Kept, in the words of the module.
LEMMA KeptSomewhere ==
    ASSUME HindsightInv, NEW x, Kept(x)
    PROVE  x \in HI!Saved \cup HI!Unsaved \cup lost
<1>1. jobs \in Seq(Job)
  BY DEF HindsightInv, HindsightTypes
<1> HIDE DEF Job
<1>2. DOMAIN jobs = 1 .. Len(jobs)
  BY <1>1
<1>3. CASE \E i \in Places : x \in In(Queued(i).turns)
  <2>1. PICK i \in Places : x \in In(Queued(i).turns)
    BY <1>3
  <2>2. CASE i = 0
    BY <2>1, <2>2 DEF HI!Unsaved, Queued, In
  <2>3. CASE i # 0
    <3>1. i \in DOMAIN jobs
      BY <1>1, <1>2, <2>3 DEF Places
    <3> QED BY <2>1, <2>3, <3>1 DEF HI!Unsaved, Queued, In
  <2> QED BY <2>2, <2>3
<1>4. CASE ~ \E i \in Places : x \in In(Queued(i).turns)
  BY <1>4 DEF Kept, HI!Saved, HI!Unsaved, In
<1> QED BY <1>3, <1>4

\* The process ends: what was neither saved nor given up is given up.
LEMMA ProcessExitStep == HindsightInv /\ HI!ProcessExit => HindsightInv'
<1> SUFFICES ASSUME HindsightInv, HI!ProcessExit PROVE HindsightInv'
  OBVIOUS
<1>1. /\ phase' = "off" /\ session' = "none" /\ turns' = <<>> /\ jobs' = <<>>
      /\ writer' = "none" /\ job' = HI!Stop
      /\ lost' = lost \cup (HI!Unsaved \ HI!Saved)
      /\ UNCHANGED <<life, owner, documents>>
  BY DEF HI!ProcessExit, HI!NoSession
<1>2. Places' = {0} /\ Queued(0)' = HI!Stop
  BY <1>1 DEF Places, Queued
<1>3. <<>> \in Seq(Nat) /\ <<>> \in Seq(Job)
  OBVIOUS
<1>4. HindsightTypes'
  BY <1>1, <1>3, StopIsJob DEF HindsightInv, HindsightTypes
<1>5. LivesInv'
  BY <1>1, <1>2, StopIsJob DEF HindsightInv, HindsightTypes, LivesInv, In
<1>6. GrowthInv'
  BY <1>1, <1>2, StopIsJob DEF GrowthInv, Replaces
<1>7. KeptInv'
  <2>1. ASSUME NEW x, Kept(x) PROVE Kept(x)'
    <3>1. CASE \E d \in HI!Documents : x \in In(documents[d])
      BY <1>1, <3>1 DEF Kept, In
    <3>2. CASE x \notin HI!Saved
      <4>1. x \in HI!Unsaved \/ x \in lost
        BY <2>1, <3>2, KeptSomewhere
      <4> QED BY <1>1, <3>2, <4>1 DEF Kept
    <3> QED BY <3>1, <3>2 DEF HI!Saved, In
  <2> QED BY <1>1, <2>1 DEF HindsightInv, KeptInv
<1> QED BY <1>4, <1>5, <1>6, <1>7 DEF HindsightInv

LEMMA HindsightStep == HindsightInv /\ HI!Next => HindsightInv'
<1> SUFFICES ASSUME HindsightInv, HI!Next PROVE HindsightInv'
  OBVIOUS
<1>1. CASE HI!WriterIdle \/ HI!QueuePrefetch \/ HI!Prefetch \/ HI!ShutdownEnd
           \/ \E i \in DOMAIN recalls : HI!RecallDone(i)
  <2>1. /\ UNCHANGED <<session, life, turns, owner, jobs, job, documents, lost>>
        /\ phase' \in {"off", "up", "closing", "down"} /\ (phase' = "off" <=> phase = "off")
        /\ writer' # "busy" <=> job = HI!Stop
    BY <1>1 DEF HI!WriterIdle, HI!QueuePrefetch, HI!Prefetch, HI!ShutdownEnd, HI!RecallDone,
                HindsightInv, HindsightTypes
  <2> QED BY <2>1, HindsightQuiet
<1>2. CASE \E s \in Sessions : HI!Initialize(s) \/ HI!SwitchSession(s)
  BY <1>2, InitializeStep, SwitchStep
<1> QED BY <1>1, <1>2, SyncTurnStep, WriterTakeStep, WriterRetainStep, ShutdownBeginStep,
           ProcessExitStep DEF HI!Next

(***************************************************************************)
(* Every turn that was ever finished is buffered, queued, at the server or *)
(* given up by a path the code names, for every number of sessions, turns  *)
(* and documents and every retain interval: a session switch loses none    *)
(* (on_session_switch, _writer_loop, shutdown).                            *)
(***************************************************************************)
THEOREM TurnsAreAccounted == Spec => []HindsightTurnsAccounted
<1>1. Init => HindsightInv
  BY HindsightInit DEF Init
<1>2. HindsightInv /\ [Next]_vars => HindsightInv'
  <2> SUFFICES ASSUME HindsightInv, [Next]_vars PROVE HindsightInv'
    OBVIOUS
  <2>1. HI!Next \/ UNCHANGED hindsightVars
    BY DEF Next, Load, vars, hindsightVars, loaderVars
  <2>2. CASE UNCHANGED hindsightVars
    BY <2>2 DEF hindsightVars, HindsightInv, HindsightTypes, LivesInv, GrowthInv, KeptInv,
                Kept, Places, Queued, Replaces
  <2> QED BY <2>1, <2>2, HindsightStep
<1>3. HindsightInv => HindsightTurnsAccounted
  <2> SUFFICES ASSUME HindsightInv, NEW x \in HI!Turns
               PROVE  x \in HI!Saved \cup HI!Unsaved \cup lost
    BY DEF HindsightTurnsAccounted, HI!TurnsAccounted
  <2>1. x \in 1 .. Len(owner)
    BY DEF HI!Turns, HindsightInv, HindsightTypes
  <2> QED BY <2>1, KeptSomewhere DEF HindsightInv, KeptInv
<1> QED BY <1>1, <1>2, <1>3, PTL DEF Spec

-----------------------------------------------------------------------------
(* Honcho, the delivery of messages.                                       *)

\* Where a thread may stand, and the batch it holds.
Tasks == [pc : {"idle", "adding", "collect", "send", "mark"}, gen : HD!Generations,
          batch : SUBSET Nat, ok : BOOLEAN, tries : {0, 1, 2}]

DeliveryTypes ==
    /\ newest \in HD!Generations /\ current \in HD!Generations
    /\ log \in [HD!Generations -> SUBSET Nat]
    /\ stored \in [HD!Generations -> Seq(SUBSET Nat)]
    /\ queue \in Seq(HD!Generations) /\ todo \in Seq(HD!Generations)
    /\ task \in [HD!Threads -> Tasks]

\* Messages are numbered as they are made, and each is in one session.
NumberInv ==
    /\ \E n \in Nat : HD!Made = 1 .. n
    /\ \A g, h \in HD!Generations : g # h => log[g] \cap log[h] = {}
    /\ \A g \in HD!Generations : HD!StoredOf(g) \subseteq log[g]

\* A message marked synced is with the server, in the session it was made in.
SyncInv ==
    /\ synced \subseteq HD!Made
    /\ \A g \in HD!Generations : log[g] \cap synced \subseteq HD!StoredOf(g)

(***************************************************************************)
(* A batch on its way is of its session, and leaves out no earlier message *)
(* that the server has not got; one that was answered is with the server.  *)
(***************************************************************************)
BatchInv ==
    \A t \in HD!Threads : task[t].pc \in {"send", "mark"} =>
        /\ task[t].batch \subseteq log[task[t].gen]
        /\ \A b \in task[t].batch, m \in log[task[t].gen] :
              m < b => m \in task[t].batch \/ m \in HD!StoredOf(task[t].gen)
        /\ task[t].pc = "mark" /\ task[t].ok => task[t].batch \subseteq HD!StoredOf(task[t].gen)

DeliveryInv == DeliveryTypes /\ NumberInv /\ SyncInv /\ BatchInv /\ HD!StoredInOrder

\* The batches of a session, and one more.
LEMMA OneMoreBatch ==
    ASSUME NEW s \in Seq(SUBSET Nat), NEW b \in SUBSET Nat
    PROVE  /\ Append(s, b) \in Seq(SUBSET Nat)
           /\ UNION {Append(s, b)[i] : i \in DOMAIN Append(s, b)}
                  = (UNION {s[i] : i \in DOMAIN s}) \cup b
           /\ DOMAIN Append(s, b) = DOMAIN s \cup {Len(s) + 1}
           /\ \A i \in DOMAIN s : i <= Len(s) /\ i \in Nat /\ Append(s, b)[i] = s[i]
           /\ Append(s, b)[Len(s) + 1] = b
<1>1. /\ Append(s, b) \in Seq(SUBSET Nat)
      /\ DOMAIN Append(s, b) = DOMAIN s \cup {Len(s) + 1}
      /\ \A i \in DOMAIN s : i <= Len(s) /\ i \in Nat /\ Append(s, b)[i] = s[i]
      /\ Append(s, b)[Len(s) + 1] = b
  OBVIOUS
<1>2. UNION {Append(s, b)[i] : i \in DOMAIN Append(s, b)}
         = (UNION {s[i] : i \in DOMAIN s}) \cup b
  <2> DEFINE a == Append(s, b)
             n == Len(s) + 1
  <2>1. /\ DOMAIN a = DOMAIN s \cup {n} /\ a[n] = b
        /\ \A i \in DOMAIN s : a[i] = s[i]
    BY <1>1
  <2> HIDE DEF a, n
  <2>2. ASSUME NEW x
        PROVE  (\E i \in DOMAIN a : x \in a[i]) <=> (\E i \in DOMAIN s : x \in s[i]) \/ x \in b
    BY <2>1
  <2> DEFINE l == UNION {a[i] : i \in DOMAIN a}
             r == (UNION {s[i] : i \in DOMAIN s}) \cup b
  <2>3. ASSUME NEW x PROVE x \in l <=> x \in r
    <3>1. ASSUME x \in l PROVE \E i \in DOMAIN a : x \in a[i]
      BY <3>1
    <3>2. ASSUME NEW i \in DOMAIN a, x \in a[i] PROVE x \in l
      BY <3>2
    <3>3. ASSUME x \in r PROVE (\E i \in DOMAIN s : x \in s[i]) \/ x \in b
      BY <3>3
    <3>4. ASSUME NEW i \in DOMAIN s, x \in s[i] PROVE x \in r
      BY <3>4
    <3>5. x \in b => x \in r
      OBVIOUS
    <3> HIDE DEF l, r
    <3> QED BY <2>2, <3>1, <3>2, <3>3, <3>4, <3>5
  <2> HIDE DEF l, r
  <2>4. l = r
    BY <2>3
  <2> QED BY <2>4 DEF a, l, r
<1> QED BY <1>1, <1>2

LEMMA DeliveryInit == HD!Init => DeliveryInv
<1> SUFFICES ASSUME HD!Init PROVE DeliveryInv
  OBVIOUS
<1>1. <<>> \in Seq(HD!Generations) /\ <<>> \in Seq(SUBSET Nat) /\ DOMAIN <<>> = {}
  OBVIOUS
<1>2. DeliveryTypes
  <2>1. 0 \in HD!Generations
    BY DeliveryConstants DEF HD!Generations
  <2>2. HD!Idle \in Tasks
    BY <2>1 DEF HD!Idle, Tasks
  <2> QED BY <1>1, <2>1, <2>2 DEF HD!Init, DeliveryTypes
<1>3. HD!Made = {} /\ \A g \in HD!Generations : HD!StoredOf(g) = {}
  BY DEF HD!Init, HD!Made, HD!StoredOf
<1>4. NumberInv
  <2>1. 0 \in Nat /\ 1 .. 0 = {}
    OBVIOUS
  <2> QED BY <1>3, <2>1 DEF HD!Init, NumberInv
<1>5. SyncInv /\ BatchInv /\ HD!StoredInOrder
  BY <1>3 DEF HD!Init, HD!Idle, SyncInv, BatchInv, HD!StoredInOrder
<1> QED BY <1>2, <1>4, <1>5 DEF DeliveryInv

(***************************************************************************)
(* A step that neither makes, stores nor marks a message, and in which no  *)
(* thread gets a batch.                                                    *)
(***************************************************************************)
LEMMA DeliveryQuiet ==
    ASSUME DeliveryInv, DeliveryTypes', UNCHANGED <<log, synced, stored>>,
           \A t \in HD!Threads : task'[t] = task[t] \/ task'[t].pc \notin {"send", "mark"}
    PROVE  DeliveryInv'
<1>1. HD!Made' = HD!Made /\ \A g \in HD!Generations : HD!StoredOf(g)' = HD!StoredOf(g)
  BY DEF HD!Made, HD!StoredOf, HD!Generations
<1>2. NumberInv' /\ SyncInv' /\ HD!StoredInOrder'
  BY <1>1 DEF DeliveryInv, NumberInv, SyncInv, HD!StoredInOrder, HD!Generations
<1>3. BatchInv'
  BY <1>1 DEF DeliveryInv, DeliveryTypes, Tasks, BatchInv, HD!Threads
<1> QED BY <1>2, <1>3 DEF DeliveryInv

\* A thread turns to flushing a session.
LEMMA FlushingIsTask ==
    ASSUME NEW g \in HD!Generations, NEW n \in {1, 2}
    PROVE  HD!Flushing(g, n) \in Tasks /\ HD!Flushing(g, n).pc = "collect"
BY DeliveryConstants DEF HD!Flushing, HD!Idle, Tasks, HD!Generations

LEMMA TaskMoves ==
    ASSUME DeliveryTypes, NEW t \in HD!Threads, NEW row \in Tasks,
           task' = [task EXCEPT ![t] = row]
    PROVE  /\ task' \in [HD!Threads -> Tasks] /\ task'[t] = row
           /\ \A u \in HD!Threads : u # t => task'[u] = task[u]
<1> HIDE DEF Tasks
<1> QED BY DEF DeliveryTypes

LEMMA NamedThreads == "writer" \in HD!Threads /\ "host" \in HD!Threads
                      /\ SyncThreads \subseteq HD!Threads
BY DEF HD!Threads

LEMMA SyncTurnTypes ==
    ASSUME DeliveryInv, NEW t \in SyncThreads, HD!SyncTurn(t) PROVE DeliveryInv'
<1> DEFINE row == [HD!Idle EXCEPT !.pc = "adding", !.gen = current]
<1>1. row \in Tasks /\ row.pc = "adding"
  BY DEF DeliveryInv, DeliveryTypes, HD!Idle, Tasks
<1>2. task' = [task EXCEPT ![t] = row] /\ t \in HD!Threads
      /\ UNCHANGED <<newest, current, log, synced, stored, queue, todo>>
  BY NamedThreads DEF HD!SyncTurn
<1> HIDE DEF row
<1>3. DeliveryTypes'
  BY <1>1, <1>2, TaskMoves DEF DeliveryInv, DeliveryTypes, HD!Generations
<1>4. \A u \in HD!Threads : task'[u] = task[u] \/ task'[u].pc \notin {"send", "mark"}
  BY <1>1, <1>2, TaskMoves DEF DeliveryInv
<1> QED BY <1>2, <1>3, <1>4, DeliveryQuiet

\* A new message comes after every other, and neither the server nor a batch has it.
LEMMA AddMessageStep ==
    ASSUME DeliveryInv, NEW t \in SyncThreads, HD!AddMessage(t) PROVE DeliveryInv'
<1>1. PICK g \in HD!Generations, n \in Nat :
           /\ g = task[t].gen /\ n + 1 \in 1 .. MaxMessage /\ HD!Made = 1 .. n
           /\ log' = [log EXCEPT ![task[t].gen] = @ \cup {n + 1}]
  <2>1. PICK k \in 1 .. MaxMessage :
             HD!Made = 1 .. k - 1 /\ log' = [log EXCEPT ![task[t].gen] = @ \cup {k}]
    BY DEF HD!AddMessage
  <2>2. PICK m \in Nat : m = k - 1 /\ m + 1 = k
    <3>1. k - 1 \in Nat /\ (k - 1) + 1 = k
      BY DeliveryConstants
    <3> QED BY <3>1
  <2>3. /\ m + 1 \in 1 .. MaxMessage /\ HD!Made = 1 .. m
        /\ log' = [log EXCEPT ![task[t].gen] = @ \cup {m + 1}]
    BY <2>1, <2>2
  <2>4. task[t].gen \in HD!Generations
    BY NamedThreads DEF DeliveryInv, DeliveryTypes, Tasks
  <2> QED BY <2>3, <2>4
<1>2. /\ task[t].pc = "adding" /\ t \in HD!Threads
      /\ log' = [log EXCEPT ![g] = @ \cup {n + 1}]
      /\ UNCHANGED <<newest, current, synced, stored, queue, todo>>
  <2>1. task[t].pc = "adding" /\ t \in HD!Threads
        /\ UNCHANGED <<newest, current, synced, stored, queue, todo>>
    BY NamedThreads DEF HD!AddMessage
  <2> QED BY <1>1, <2>1
<1>3. task[t] \in Tasks /\ g \in HD!Generations /\ n \in Nat /\ HD!Made = 1 .. n
  BY <1>1, <1>2 DEF DeliveryInv, DeliveryTypes, Tasks
<1>4. PICK row \in Tasks : task' = [task EXCEPT ![t] = row] /\ row.pc \in {"adding", "collect"}
  <2>1. task' = [task EXCEPT ![t] = task[t]] \/ task' = [task EXCEPT ![t] = HD!Flushing(g, 1)]
    BY <1>1 DEF HD!AddMessage
  <2>2. HD!Flushing(g, 1) \in Tasks /\ HD!Flushing(g, 1).pc = "collect"
    BY <1>3, FlushingIsTask
  <2> QED BY <1>2, <1>3, <2>1, <2>2
<1>5. /\ task' \in [HD!Threads -> Tasks] /\ task'[t] = row
      /\ \A u \in HD!Threads : u # t => task'[u] = task[u]
  BY <1>2, <1>4, TaskMoves DEF DeliveryInv
<1>6. /\ log' \in [HD!Generations -> SUBSET Nat] /\ log'[g] = log[g] \cup {n + 1}
      /\ \A h \in HD!Generations : h # g => log'[h] = log[h]
  BY <1>2, <1>3 DEF DeliveryInv, DeliveryTypes
<1>7. DeliveryTypes'
  BY <1>2, <1>5, <1>6 DEF DeliveryInv, DeliveryTypes, HD!Generations
<1>8. HD!Made' = 1 .. n + 1 /\ n + 1 \in Nat /\ n + 1 \notin HD!Made
  <2>1. HD!Made' = HD!Made \cup {n + 1}
    BY <1>3, <1>6 DEF HD!Made, HD!Generations
  <2>2. (1 .. n) \cup {n + 1} = 1 .. n + 1 /\ n + 1 \notin 1 .. n
    BY <1>3
  <2> QED BY <1>3, <2>1, <2>2
<1>9. \A h \in HD!Generations : log[h] \subseteq HD!Made /\ HD!StoredOf(h)' = HD!StoredOf(h)
  BY <1>2 DEF HD!Made, HD!StoredOf
<1>10. \A x \in HD!Made : x < n + 1 /\ ~ n + 1 < x
  BY <1>3
<1>11. NumberInv'
  <2>1. \A h, k \in HD!Generations : h # k => log'[h] \cap log'[k] = {}
    BY <1>6, <1>8, <1>9 DEF DeliveryInv, NumberInv
  <2>2. \A h \in HD!Generations : HD!StoredOf(h)' \subseteq log'[h]
    BY <1>6, <1>9 DEF DeliveryInv, NumberInv
  <2> QED BY <1>3, <1>8, <2>1, <2>2 DEF NumberInv, HD!Generations
<1>12. SyncInv'
  <2>1. n + 1 \notin synced
    BY <1>8 DEF DeliveryInv, SyncInv
  <2>2. synced \subseteq HD!Made'
    BY <1>3, <1>8 DEF DeliveryInv, SyncInv
  <2> QED BY <1>2, <1>6, <1>9, <2>1, <2>2 DEF DeliveryInv, SyncInv, HD!Generations
<1>13. BatchInv'
  <2> SUFFICES ASSUME NEW u \in HD!Threads, task'[u].pc \in {"send", "mark"}
               PROVE  /\ task'[u].batch \subseteq log'[task'[u].gen]
                      /\ \A b \in task'[u].batch, m \in log'[task'[u].gen] :
                            m < b => m \in task'[u].batch \/ m \in HD!StoredOf(task'[u].gen)
                      /\ task'[u].pc = "mark" /\ task'[u].ok =>
                            task'[u].batch \subseteq HD!StoredOf(task'[u].gen)
    BY <1>2 DEF BatchInv, HD!Threads, HD!StoredOf
  <2>1. task'[u] = task[u] /\ task[u].gen \in HD!Generations
    <3>1. task'[u] = task[u]
      BY <1>4, <1>5
    <3> QED BY <1>5, <3>1 DEF Tasks
  <2>2. /\ task[u].batch \subseteq log[task[u].gen]
        /\ \A b \in task[u].batch, m \in log[task[u].gen] :
              m < b => m \in task[u].batch \/ m \in HD!StoredOf(task[u].gen)
        /\ task[u].pc = "mark" /\ task[u].ok => task[u].batch \subseteq HD!StoredOf(task[u].gen)
    BY <2>1 DEF DeliveryInv, BatchInv
  <2>3. log[task[u].gen] \subseteq log'[task[u].gen]
        /\ log'[task[u].gen] \subseteq log[task[u].gen] \cup {n + 1}
    BY <1>6, <2>1
  <2>4. \A b \in task[u].batch : ~ n + 1 < b
    BY <1>9, <1>10, <2>1, <2>2
  <2>5. \A b \in task[u].batch, m \in log'[task[u].gen] :
           m < b => m \in task[u].batch \/ m \in HD!StoredOf(task[u].gen)
    BY <2>2, <2>3, <2>4
  <2> QED BY <2>1, <2>2, <2>3, <2>5
<1>14. HD!StoredInOrder'
  <2> SUFFICES ASSUME NEW h \in HD!Generations, NEW i \in DOMAIN stored[h],
                      NEW x \in stored[h][i], NEW m \in log'[h], m < x
               PROVE  \E j \in 1 .. i : m \in stored[h][j]
    BY <1>2 DEF HD!StoredInOrder, HD!Generations
  <2>1. x \in HD!StoredOf(h)
    BY DEF HD!StoredOf
  <2>2. x \in HD!Made
    BY <1>9, <2>1 DEF DeliveryInv, NumberInv
  <2>3. m \in log[h]
    BY <1>6, <1>10, <2>2
  <2> QED BY <2>3 DEF DeliveryInv, HD!StoredInOrder
<1> QED BY <1>7, <1>11, <1>12, <1>13, <1>14 DEF DeliveryInv

\* What is collected leaves out only what is marked, and so is with the server.
LEMMA CollectStep ==
    ASSUME DeliveryInv, NEW t \in HD!Threads, HD!Collect(t) PROVE DeliveryInv'
<1>1. PICK g, new : g = task[t].gen /\ new = HD!Unsynced(g)
  OBVIOUS
<1>2. task[t].pc = "collect" /\ UNCHANGED <<newest, current, log, synced, stored, queue, todo>>
  BY DEF HD!Collect
<1>3. task[t] \in Tasks /\ g \in HD!Generations /\ new \subseteq log[g] /\ new \subseteq Nat
      /\ log[g] \subseteq new \cup synced
  BY <1>1 DEF DeliveryInv, DeliveryTypes, Tasks, HD!Unsynced
<1>4. CASE new = {}
  <2>1. task' = [task EXCEPT ![t] = HD!Idle]
    BY <1>1, <1>4 DEF HD!Collect
  <2>2. HD!Idle \in Tasks /\ HD!Idle.pc = "idle"
    BY DeliveryConstants DEF HD!Idle, Tasks, HD!Generations
  <2>3. DeliveryTypes'
    BY <1>2, <2>1, <2>2, TaskMoves DEF DeliveryInv, DeliveryTypes, HD!Generations
  <2>4. \A u \in HD!Threads : task'[u] = task[u] \/ task'[u].pc \notin {"send", "mark"}
    BY <2>1, <2>2, TaskMoves DEF DeliveryInv
  <2> QED BY <1>2, <2>3, <2>4, DeliveryQuiet
<1>5. CASE new # {}
  <2> DEFINE row == [task[t] EXCEPT !.pc = "send", !.batch = new]
  <2>1. task' = [task EXCEPT ![t] = row]
    BY <1>1, <1>5 DEF HD!Collect
  <2>2. row \in Tasks /\ row.pc = "send" /\ row.batch = new /\ row.gen = g
    BY <1>1, <1>3 DEF Tasks
  <2> HIDE DEF row
  <2>3. /\ task' \in [HD!Threads -> Tasks] /\ task'[t] = row
        /\ \A u \in HD!Threads : u # t => task'[u] = task[u]
    BY <2>1, <2>2, TaskMoves DEF DeliveryInv
  <2>4. DeliveryTypes'
    BY <1>2, <2>3 DEF DeliveryInv, DeliveryTypes, HD!Generations
  <2>5. HD!Made' = HD!Made /\ \A h \in HD!Generations : HD!StoredOf(h)' = HD!StoredOf(h)
    BY <1>2 DEF HD!Made, HD!StoredOf, HD!Generations
  <2>6. NumberInv' /\ SyncInv' /\ HD!StoredInOrder'
    BY <1>2, <2>5 DEF DeliveryInv, NumberInv, SyncInv, HD!StoredInOrder, HD!Generations
  <2>7. log[g] \subseteq new \cup HD!StoredOf(g)
    BY <1>3 DEF DeliveryInv, SyncInv
  <2>8. BatchInv'
    <3> SUFFICES ASSUME NEW u \in HD!Threads, task'[u].pc \in {"send", "mark"}
                 PROVE  /\ task'[u].batch \subseteq log[task'[u].gen]
                        /\ \A b \in task'[u].batch, m \in log[task'[u].gen] :
                              m < b => m \in task'[u].batch \/ m \in HD!StoredOf(task'[u].gen)
                        /\ task'[u].pc = "mark" /\ task'[u].ok =>
                              task'[u].batch \subseteq HD!StoredOf(task'[u].gen)
      BY <1>2, <2>5 DEF BatchInv, HD!Threads, HD!StoredOf
    <3>1. CASE u = t
      BY <1>3, <2>2, <2>3, <2>7, <3>1
    <3>2. CASE u # t
      BY <2>3, <3>2 DEF DeliveryInv, BatchInv
    <3> QED BY <3>1, <3>2
  <2> QED BY <2>4, <2>6, <2>8 DEF DeliveryInv
<1> QED BY <1>4, <1>5

(***************************************************************************)
(* The server takes a batch after every earlier message of its session, so *)
(* what it holds stays in order.                                           *)
(***************************************************************************)
LEMMA SendStep ==
    ASSUME DeliveryInv, NEW t \in HD!Threads, HD!Send(t) PROVE DeliveryInv'
<1>1. PICK g, new : g = task[t].gen /\ new = task[t].batch
  OBVIOUS
<1>2. PICK took \in BOOLEAN, answered \in BOOLEAN :
         /\ answered => took
         /\ stored' = IF took THEN [stored EXCEPT ![g] = Append(@, new)] ELSE stored
         /\ task' = [task EXCEPT ![t] = [@ EXCEPT !.pc = "mark", !.ok = answered]]
  BY <1>1 DEF HD!Send
<1>3. task[t].pc = "send" /\ UNCHANGED <<newest, current, log, synced, queue, todo>>
  BY DEF HD!Send
<1> DEFINE row == [task[t] EXCEPT !.pc = "mark", !.ok = answered]
<1>4. /\ row \in Tasks /\ row.pc = "mark" /\ row.batch = new /\ row.gen = g /\ row.ok = answered
      /\ g \in HD!Generations /\ new \in SUBSET Nat
  BY <1>1 DEF DeliveryInv, DeliveryTypes, Tasks
<1>5. task' = [task EXCEPT ![t] = row]
  BY <1>2
<1> HIDE DEF row
<1>6. /\ task' \in [HD!Threads -> Tasks] /\ task'[t] = row
      /\ \A u \in HD!Threads : u # t => task'[u] = task[u]
  BY <1>4, <1>5, TaskMoves DEF DeliveryInv
<1>7. stored[g] \in Seq(SUBSET Nat)
  BY <1>4 DEF DeliveryInv, DeliveryTypes
<1>8. /\ new \subseteq log[g]
      /\ \A b \in new, m \in log[g] : m < b => m \in new \/ m \in HD!StoredOf(g)
  BY <1>1, <1>3 DEF DeliveryInv, BatchInv
<1>9. \/ stored' = stored /\ ~ answered
      \/ /\ stored'[g] = Append(stored[g], new)
         /\ \A h \in HD!Generations : h # g => stored'[h] = stored[h]
         /\ stored' \in [HD!Generations -> Seq(SUBSET Nat)]
  BY <1>2, <1>4, <1>7, OneMoreBatch DEF DeliveryInv, DeliveryTypes
<1>10. stored' \in [HD!Generations -> Seq(SUBSET Nat)]
  BY <1>9 DEF DeliveryInv, DeliveryTypes
<1>11. /\ \A h \in HD!Generations : h # g => HD!StoredOf(h)' = HD!StoredOf(h)
       /\ HD!StoredOf(g) \subseteq HD!StoredOf(g)'
       /\ HD!StoredOf(g)' \subseteq HD!StoredOf(g) \cup new
       /\ answered => new \subseteq HD!StoredOf(g)'
  <2>1. CASE stored' = stored /\ ~ answered
    BY <2>1 DEF HD!StoredOf
  <2>2. CASE /\ stored'[g] = Append(stored[g], new)
             /\ \A h \in HD!Generations : h # g => stored'[h] = stored[h]
    <3>1. HD!StoredOf(g)' = HD!StoredOf(g) \cup new
      BY <1>4, <1>7, <2>2, OneMoreBatch DEF HD!StoredOf
    <3>2. \A h \in HD!Generations : h # g => HD!StoredOf(h)' = HD!StoredOf(h)
      BY <2>2 DEF HD!StoredOf
    <3> QED BY <3>1, <3>2
  <2> QED BY <1>9, <2>1, <2>2
<1>12. DeliveryTypes'
  BY <1>3, <1>6, <1>10 DEF DeliveryInv, DeliveryTypes, HD!Generations
<1>13. \A h \in HD!Generations : HD!StoredOf(h) \subseteq HD!StoredOf(h)'
  BY <1>11
<1>14. HD!Made' = HD!Made
  BY <1>3 DEF HD!Made
<1>15. NumberInv'
  <2>1. \A h \in HD!Generations : HD!StoredOf(h)' \subseteq log[h]
    BY <1>8, <1>11 DEF DeliveryInv, NumberInv
  <2> QED BY <1>3, <1>14, <2>1 DEF DeliveryInv, NumberInv, HD!Generations
<1>16. SyncInv'
  BY <1>3, <1>13, <1>14 DEF DeliveryInv, SyncInv, HD!Generations
<1>17. BatchInv'
  <2>1. ASSUME NEW u \in HD!Threads, task'[u].pc \in {"send", "mark"},
               NEW h, h = task'[u].gen
        PROVE  /\ h \in HD!Generations /\ task'[u].batch \subseteq log[h]
               /\ \A b \in task'[u].batch, m \in log[h] :
                     m < b => m \in task'[u].batch \/ m \in HD!StoredOf(h)'
               /\ task'[u].pc = "mark" /\ task'[u].ok => task'[u].batch \subseteq HD!StoredOf(h)'
    <3>1. h \in HD!Generations
      BY <1>6, <2>1 DEF Tasks
    <3>2. CASE u = t
      <4>1. h = g /\ task'[u].batch = new /\ task'[u].ok = answered
        BY <1>4, <1>6, <2>1, <3>2
      <4> QED BY <1>8, <1>11, <1>13, <3>1, <4>1
    <3>3. CASE u # t
      <4>1. task'[u] = task[u] /\ h = task[u].gen
        BY <1>6, <2>1, <3>3
      <4> QED BY <1>13, <2>1, <3>1, <4>1 DEF DeliveryInv, BatchInv
    <3> QED BY <3>2, <3>3
  <2> QED BY <1>3, <2>1 DEF BatchInv, HD!Threads, HD!StoredOf
<1>18. HD!StoredInOrder'
  <2> SUFFICES ASSUME NEW h \in HD!Generations, NEW i \in DOMAIN stored'[h],
                      NEW x \in stored'[h][i], NEW m \in log[h], m < x
               PROVE  \E j \in 1 .. i : m \in stored'[h][j]
    BY <1>3 DEF HD!StoredInOrder, HD!Generations
  <2>1. CASE stored'[h] = stored[h]
    BY <2>1 DEF DeliveryInv, HD!StoredInOrder
  <2>2. CASE h = g /\ stored'[g] = Append(stored[g], new)
    <3> DEFINE s == stored[g]
               a == stored'[g]
    <3>1. /\ s \in Seq(SUBSET Nat)
          /\ DOMAIN a = DOMAIN s \cup {Len(s) + 1}
          /\ \A k \in DOMAIN s : k <= Len(s) /\ k \in Nat /\ a[k] = s[k]
          /\ a[Len(s) + 1] = new
      BY <1>4, <1>7, <2>2, OneMoreBatch
    <3>2. DOMAIN s = 1 .. Len(s) /\ Len(s) \in Nat
      BY <1>7
    <3>3. \A y \in HD!StoredOf(g) : \E k \in DOMAIN s : y \in s[k]
      BY DEF HD!StoredOf
    <3>4. i \in DOMAIN a /\ x \in a[i] /\ m \in log[g]
      BY <2>2
    <3>5. \A k \in DOMAIN s : \A y \in s[k], l \in log[g] : l < y => \E j \in 1 .. k : l \in s[j]
      BY <1>4 DEF DeliveryInv, HD!StoredInOrder
    <3> HIDE DEF s, a
    <3>6. CASE i \in DOMAIN s
      <4>1. PICK j \in 1 .. i : m \in s[j]
        BY <3>1, <3>4, <3>5, <3>6
      <4>2. j \in DOMAIN s
        BY <3>2, <3>6, <4>1
      <4>3. m \in a[j]
        BY <3>1, <4>1, <4>2
      <4> QED BY <2>2, <4>3 DEF a
    <3>7. CASE i = Len(s) + 1
      <4>1. m \in new \/ m \in HD!StoredOf(g)
        BY <1>8, <3>1, <3>4, <3>7
      <4>2. CASE m \in new
        <5>1. m \in a[i] /\ i \in 1 .. i
          BY <3>1, <3>2, <3>7, <4>2
        <5> QED BY <2>2, <5>1 DEF a
      <4>3. CASE m \in HD!StoredOf(g)
        <5>1. PICK j \in DOMAIN s : m \in s[j]
          BY <3>3, <4>3
        <5>2. j \in 1 .. i /\ m \in a[j]
          BY <3>1, <3>2, <3>7, <5>1
        <5> QED BY <2>2, <5>2 DEF a
      <4> QED BY <4>1, <4>2, <4>3
    <3> QED BY <3>1, <3>4, <3>6, <3>7
  <2> QED BY <1>9, <2>1, <2>2
<1> QED BY <1>12, <1>15, <1>16, <1>17, <1>18 DEF DeliveryInv

\* A flush that was answered marks what the server has; another takes marks away.
LEMMA MarkStep ==
    ASSUME DeliveryInv, NEW t \in HD!Threads, HD!Mark(t) PROVE DeliveryInv'
<1>1. PICK g, new : g = task[t].gen /\ new = task[t].batch
  OBVIOUS
<1>2. /\ task[t].pc = "mark" /\ synced' = HD!Marked(task[t].ok, new)
      /\ current' \in {0, current} /\ UNCHANGED <<newest, log, stored, queue, todo>>
  BY <1>1 DEF HD!Mark
<1>3. task[t] \in Tasks /\ g \in HD!Generations /\ new \subseteq log[g]
  BY <1>1, <1>2 DEF DeliveryInv, DeliveryTypes, Tasks, BatchInv
<1>4. PICK row \in Tasks : task' = [task EXCEPT ![t] = row] /\ row.pc \in {"idle", "collect"}
  <2>1. task' = [task EXCEPT ![t] = HD!Idle] \/ task' = [task EXCEPT ![t] = HD!Flushing(g, 2)]
    BY <1>1 DEF HD!Mark
  <2>2. HD!Flushing(g, 2) \in Tasks /\ HD!Flushing(g, 2).pc = "collect"
    BY <1>3, FlushingIsTask
  <2>3. HD!Idle \in Tasks /\ HD!Idle.pc = "idle"
    BY DeliveryConstants DEF HD!Idle, Tasks, HD!Generations
  <2> QED BY <2>1, <2>2, <2>3
<1>5. /\ task' \in [HD!Threads -> Tasks] /\ task'[t] = row
      /\ \A u \in HD!Threads : u # t => task'[u] = task[u]
  BY <1>4, TaskMoves DEF DeliveryInv
<1>6. DeliveryTypes'
  <2>1. 0 \in HD!Generations
    BY DeliveryConstants DEF HD!Generations
  <2> QED BY <1>2, <1>5, <2>1 DEF DeliveryInv, DeliveryTypes, HD!Generations
<1>7. HD!Made' = HD!Made /\ \A h \in HD!Generations : HD!StoredOf(h)' = HD!StoredOf(h)
  BY <1>2 DEF HD!Made, HD!StoredOf, HD!Generations
<1>8. NumberInv' /\ HD!StoredInOrder'
  BY <1>2, <1>7 DEF DeliveryInv, NumberInv, HD!StoredInOrder, HD!Generations
<1>9. SyncInv'
  <2>1. CASE synced' = synced \ new
    BY <1>2, <1>7, <2>1 DEF DeliveryInv, SyncInv, HD!Generations
  <2>2. CASE task[t].ok /\ synced' = synced \cup new
    <3>1. new \subseteq HD!StoredOf(g)
      BY <1>1, <1>2, <2>2 DEF DeliveryInv, BatchInv
    <3>2. \A h \in HD!Generations : h # g => log[h] \cap new = {}
      BY <1>3 DEF DeliveryInv, NumberInv
    <3>3. new \subseteq HD!Made
      BY <1>3 DEF HD!Made
    <3>4. \A h \in HD!Generations : log[h] \cap synced' \subseteq HD!StoredOf(h)
      BY <2>2, <3>1, <3>2 DEF DeliveryInv, SyncInv
    <3> QED BY <1>2, <1>7, <2>2, <3>3, <3>4 DEF DeliveryInv, SyncInv, HD!Generations
  <2> QED BY <1>2, <2>1, <2>2 DEF HD!Marked
<1>10. BatchInv'
  <2>1. \A u \in HD!Threads : task'[u] = task[u] \/ task'[u].pc \notin {"send", "mark"}
    BY <1>4, <1>5
  <2> QED BY <1>2, <1>7, <2>1 DEF DeliveryInv, DeliveryTypes, Tasks, BatchInv, HD!Threads
<1> QED BY <1>6, <1>8, <1>9, <1>10 DEF DeliveryInv

\* A queue or a list of sessions gives up its first.
LEMMA HeadOfSessions ==
    ASSUME NEW q \in Seq(HD!Generations), q # <<>>
    PROVE  Head(q) \in HD!Generations /\ Tail(q) \in Seq(HD!Generations)
<1> HIDE DEF HD!Generations
<1> QED OBVIOUS

\* The host and the writer pass sessions on.
LEMMA HostStep ==
    ASSUME DeliveryInv,
           \/ HD!Initialize \/ HD!WriterTake \/ HD!Save \/ HD!FlushAll \/ HD!HostNext
           \/ HD!NewSession
    PROVE  DeliveryInv'
<1>1. UNCHANGED <<log, synced, stored>>
  BY DEF HD!Initialize, HD!WriterTake, HD!Save, HD!FlushAll, HD!HostNext, HD!NewSession
<1>2. newest \in Nat /\ newest \in HD!Generations /\ current \in HD!Generations
      /\ queue \in Seq(HD!Generations) /\ todo \in Seq(HD!Generations)
  BY DEF DeliveryInv, DeliveryTypes, HD!Generations
<1>3. newest' \in HD!Generations /\ current' \in HD!Generations
  <2>1. newest < MaxNew => newest + 1 \in HD!Generations
    BY <1>2, DeliveryConstants DEF HD!Generations
  <2> QED BY <1>2, <2>1
          DEF HD!Initialize, HD!WriterTake, HD!Save, HD!FlushAll, HD!HostNext, HD!NewSession
<1>4. queue' \in Seq(HD!Generations)
  <2>1. Append(queue, current) \in Seq(HD!Generations)
    BY <1>2
  <2>2. \/ queue' = queue \/ queue' = Append(queue, current)
        \/ (queue # <<>> /\ queue' = Tail(queue))
    BY DEF HD!Initialize, HD!WriterTake, HD!Save, HD!FlushAll, HD!HostNext, HD!NewSession
  <2> QED BY <1>2, <2>1, <2>2, HeadOfSessions
<1>5. todo' \in Seq(HD!Generations)
  <2> DEFINE all == [i \in 1 .. newest + 1 |-> IF i <= newest THEN i ELSE current]
  <2>1. all \in Seq(HD!Generations)
    <3>1. \A i \in 1 .. newest + 1 : i <= newest => i \in HD!Generations
      <4>1. newest \in Nat /\ newest <= MaxNew
        BY <1>2, DeliveryConstants DEF HD!Generations
      <4> QED BY <4>1, DeliveryConstants DEF HD!Generations
    <3>2. newest + 1 \in Nat /\ all \in [1 .. newest + 1 -> HD!Generations]
      BY <1>2, <3>1
    <3> HIDE DEF HD!Generations, all
    <3> QED BY <3>2
  <2>2. todo' = todo \/ todo' = all \/ (todo # <<>> /\ todo' = Tail(todo))
    BY DEF HD!Initialize, HD!WriterTake, HD!Save, HD!FlushAll, HD!HostNext, HD!NewSession
  <2> QED BY <1>2, <2>1, <2>2, HeadOfSessions
<1>6. \/ task' = task
      \/ \E t \in HD!Threads, g \in HD!Generations : task' = [task EXCEPT ![t] = HD!Flushing(g, 1)]
  BY <1>2, NamedThreads, HeadOfSessions
  DEF HD!Initialize, HD!WriterTake, HD!Save, HD!FlushAll, HD!HostNext, HD!NewSession
<1>7. CASE task' = task
  <2>1. DeliveryTypes'
    BY <1>1, <1>3, <1>4, <1>5, <1>7 DEF DeliveryInv, DeliveryTypes, HD!Generations, HD!Threads
  <2> QED BY <1>1, <1>7, <2>1, DeliveryQuiet
<1>8. ASSUME NEW t \in HD!Threads, NEW g \in HD!Generations,
             task' = [task EXCEPT ![t] = HD!Flushing(g, 1)]
      PROVE  DeliveryInv'
  <2>1. HD!Flushing(g, 1) \in Tasks /\ HD!Flushing(g, 1).pc = "collect"
    BY FlushingIsTask
  <2>2. /\ task' \in [HD!Threads -> Tasks] /\ task'[t] = HD!Flushing(g, 1)
        /\ \A u \in HD!Threads : u # t => task'[u] = task[u]
    BY <1>8, <2>1, TaskMoves DEF DeliveryInv
  <2>3. DeliveryTypes'
    BY <1>1, <1>3, <1>4, <1>5, <2>2 DEF DeliveryInv, DeliveryTypes, HD!Generations, HD!Threads
  <2>4. \A u \in HD!Threads : task'[u] = task[u] \/ task'[u].pc \notin {"send", "mark"}
    BY <2>1, <2>2
  <2> QED BY <1>1, <2>3, <2>4, DeliveryQuiet
<1> QED BY <1>6, <1>7, <1>8

(***************************************************************************)
(* A message marked synced is with the server, and what the server holds   *)
(* of a session is, repetitions aside, in the order it was said, although  *)
(* threads flush one session with no lock, retry, and fail with the batch  *)
(* taken or not (_flush_session, _async_writer_loop, flush_all).           *)
(***************************************************************************)
THEOREM SyncedInOrder == Spec => []HonchoSyncedInOrder
<1>1. Init => DeliveryInv
  BY DeliveryInit DEF Init
<1>2. DeliveryInv /\ [Next]_vars => DeliveryInv'
  <2> SUFFICES ASSUME DeliveryInv, [Next]_vars PROVE DeliveryInv'
    OBVIOUS
  <2>1. HD!Next \/ UNCHANGED deliveryVars
    BY DEF Next, Load, vars, deliveryVars, loaderVars
  <2>2. CASE UNCHANGED deliveryVars
    <3>1. DeliveryTypes'
      BY <2>2 DEF deliveryVars, DeliveryInv, DeliveryTypes, HD!Generations, HD!Threads
    <3> QED BY <2>2, <3>1, DeliveryQuiet DEF deliveryVars
  <2>3. CASE \E t \in SyncThreads : HD!SyncTurn(t) \/ HD!AddMessage(t)
    BY <2>3, SyncTurnTypes, AddMessageStep
  <2>4. CASE \E t \in HD!Threads : HD!Collect(t) \/ HD!Send(t) \/ HD!Mark(t)
    BY <2>4, CollectStep, SendStep, MarkStep
  <2> QED BY <2>1, <2>2, <2>3, <2>4, HostStep DEF HD!Next
<1>3. DeliveryInv => HonchoSyncedInOrder
  <2> SUFFICES ASSUME DeliveryInv PROVE HD!SyncedIsStored /\ HD!StoredInOrder
    BY DEF HonchoSyncedInOrder
  <2>1. ASSUME NEW m \in synced PROVE \E g \in HD!Generations : m \in HD!StoredOf(g)
    <3>1. PICK g \in HD!Generations : m \in log[g]
      BY DEF DeliveryInv, SyncInv, HD!Made
    <3> QED BY <3>1 DEF DeliveryInv, SyncInv
  <2> QED BY <2>1 DEF HD!SyncedIsStored, DeliveryInv
<1> QED BY <1>1, <1>2, <1>3, PTL DEF Spec

-----------------------------------------------------------------------------
(* Holographic.                                                            *)

Commits == [do : {"link", "unlink", "vector", "bank", "rebuilt"}, id : Nat,
            category : Categories \cup {"all"}]

\* What is known of one row of facts.
FactShape(f) ==
    /\ f = [content |-> f.content, category |-> f.category, trusted |-> f.trusted,
            vector |-> f.vector]
    /\ f.category \in Categories

FactTypes ==
    /\ lastId \in Nat
    /\ facts = [i \in HF!Ids |-> facts[i]]
    /\ \A i \in HF!Ids : i \in 1 .. lastId /\ FactShape(facts[i])
    /\ banks = [k \in Categories |-> banks[k]]
    /\ work \in Seq(Commits)
    /\ dim \in Dimensions \cup {0} /\ (dim = 0 => work = <<>>)

Rebuilding == \E n \in DOMAIN work : work[n].do = "rebuilt"

ToDo(what, i) == \E n \in DOMAIN work : work[n].do = what /\ work[n].id = i
BankToDo(k) == \E n \in DOMAIN work : work[n].do = "bank" /\ work[n].category = k

(***************************************************************************)
(* What a rebuild has still to do is every vector, then every bank, then   *)
(* nothing; what it does not have to do any more is done.                  *)
(***************************************************************************)
PlanInv ==
    /\ \A n \in DOMAIN work :
          /\ work[n].do \in {"vector", "bank", "rebuilt"}
          /\ work[n].do = "vector" => \A m \in 1 .. n : work[m].do = "vector"
          /\ work[n].do = "rebuilt" => n = Len(work)
    /\ \A i \in HF!Ids : ToDo("vector", i) \/ facts[i].vector = HF!VectorOf(i)
    /\ \A i \in HF!Ids :
          \/ BankToDo(facts[i].category)
          \/ /\ \A n \in DOMAIN work : work[n].do # "vector"
             /\ banks[facts[i].category] = HF!Vectors(facts[i].category)

RebuildInv == FactTypes /\ (Rebuilding => PlanInv)

LEMMA SameCardinality == \A S : HF!Cardinality(S) = Cardinality(S)
BY DEF HF!Cardinality, Cardinality

\* A finite set as a sequence: every element is somewhere in it.
LEMMA SetAsSequence ==
    ASSUME NEW S, IsFiniteSet(S)
    PROVE  /\ HF!SetToSeq(S) \in Seq(S)
           /\ \A x \in S : \E i \in DOMAIN HF!SetToSeq(S) : HF!SetToSeq(S)[i] = x
<1> DEFINE n == Cardinality(S)
           f == HF!SetToSeq(S)
<1>1. n \in Nat /\ ExistsBijection(1 .. n, S)
  BY FS_CardinalityType
<1>2. PICK g \in [1 .. n -> S] : HF!IsInjective(g)
  BY <1>1 DEF HF!IsInjective, ExistsBijection, Bijection, Injection, Surjection, IsInjective
<1>3. f \in [1 .. n -> S] /\ HF!IsInjective(f)
  BY SameCardinality, <1>2 DEF HF!SetToSeq
<1>4. f \in Injection(1 .. n, S)
  BY <1>3 DEF HF!IsInjective, Injection, IsInjective
<1>5. IsFiniteSet(1 .. n) /\ Cardinality(1 .. n) = n
  <2>1. n \in Int /\ 1 \in Int /\ (1 > n => n = 0)
    BY <1>1
  <2>2. IsFiniteSet(1 .. n) /\ Cardinality(1 .. n) = IF 1 > n THEN 0 ELSE n - 1 + 1
    BY <2>1, FS_Interval
  <2> QED BY <1>1, <2>1, <2>2
<1>6. f \in Surjection(1 .. n, S)
  BY <1>4, <1>5, FS_Injection
<1> HIDE DEF f, n
<1>7. f \in Seq(S) /\ DOMAIN f = 1 .. n
  BY <1>1, <1>3
<1>8. \A x \in S : \E i \in 1 .. n : f[i] = x
  BY <1>6 DEF Surjection
<1> QED BY <1>7, <1>8 DEF f

LEMMA FactsAreFinite ==
    ASSUME FactTypes
    PROVE  IsFiniteSet(HF!Ids) /\ IsFiniteSet({facts[i].category : i \in HF!Ids})
<1>1. IsFiniteSet(1 .. lastId)
  <2>1. lastId \in Int /\ 1 \in Int
    BY DEF FactTypes
  <2> QED BY <2>1, FS_Interval
<1>2. IsFiniteSet(HF!Ids)
  BY <1>1, FS_Subset DEF FactTypes
<1> DEFINE kinds == {facts[i].category : i \in HF!Ids}
           f == [i \in HF!Ids |-> facts[i].category]
<1>3. f \in Surjection(HF!Ids, kinds)
  BY DEF Surjection
<1>4. IsFiniteSet(kinds)
  BY <1>2, <1>3, FS_Surjection
<1> QED BY <1>2, <1>4

\* Two lists, one after the other.
LEMMA Joined ==
    ASSUME NEW S, NEW s \in Seq(S), NEW t \in Seq(S)
    PROVE  /\ s \o t \in Seq(S) /\ Len(s \o t) = Len(s) + Len(t)
           /\ \A n \in 1 .. Len(s) : (s \o t)[n] = s[n]
           /\ \A n \in 1 .. Len(t) : (s \o t)[Len(s) + n] = t[n]
OBVIOUS

\* The steps of a rebuild, one after the other.
LEMMA StepsOfRebuild ==
    ASSUME NEW ids \in Seq(Nat), NEW kinds \in Seq(Categories)
    PROVE  LET s == HF!RebuildSteps(ids, kinds) IN
           /\ s \in Seq(Commits) /\ Len(s) = Len(ids) + Len(kinds) + 1
           /\ \A n \in 1 .. Len(ids) : s[n] = HF!Do("vector", ids[n], "all")
           /\ \A n \in 1 .. Len(kinds) : s[Len(ids) + n] = HF!Do("bank", 0, kinds[n])
           /\ s[Len(ids) + Len(kinds) + 1] = HF!Do("rebuilt", 0, "all")
<1> DEFINE a == [n \in 1 .. Len(ids) |-> HF!Do("vector", ids[n], "all")]
           b == [n \in 1 .. Len(kinds) |-> HF!Do("bank", 0, kinds[n])]
           c == <<HF!Do("rebuilt", 0, "all")>>
           s == HF!RebuildSteps(ids, kinds)
<1>1. /\ \A n \in 1 .. Len(ids) : HF!Do("vector", ids[n], "all") \in Commits
      /\ \A n \in 1 .. Len(kinds) : HF!Do("bank", 0, kinds[n]) \in Commits
      /\ HF!Do("rebuilt", 0, "all") \in Commits
  BY DEF HF!Do, Commits
<1>2. Len(ids) \in Nat /\ Len(kinds) \in Nat
  OBVIOUS
<1>3. a \in Seq(Commits) /\ Len(a) = Len(ids)
      /\ \A n \in 1 .. Len(ids) : a[n] = HF!Do("vector", ids[n], "all")
  BY <1>1, <1>2
<1>4. b \in Seq(Commits) /\ Len(b) = Len(kinds)
      /\ \A n \in 1 .. Len(kinds) : b[n] = HF!Do("bank", 0, kinds[n])
  BY <1>1, <1>2
<1>5. c \in Seq(Commits) /\ Len(c) = 1 /\ c[1] = HF!Do("rebuilt", 0, "all")
  BY <1>1
<1>6. s = a \o b \o c
  BY DEF HF!RebuildSteps
<1> HIDE DEF a, b, c, s
<1>7. a \o b \in Seq(Commits) /\ Len(a \o b) = Len(ids) + Len(kinds)
      /\ (\A n \in 1 .. Len(ids) : (a \o b)[n] = a[n])
      /\ \A n \in 1 .. Len(kinds) : (a \o b)[Len(ids) + n] = b[n]
  <2>1. a \in Seq(Commits) /\ b \in Seq(Commits)
    BY <1>3, <1>4
  <2>2. /\ a \o b \in Seq(Commits) /\ Len(a \o b) = Len(a) + Len(b)
        /\ \A n \in 1 .. Len(a) : (a \o b)[n] = a[n]
        /\ \A n \in 1 .. Len(b) : (a \o b)[Len(a) + n] = b[n]
    BY <2>1, Joined
  <2> QED BY <1>3, <1>4, <2>2
<1>8. s \in Seq(Commits) /\ Len(s) = Len(ids) + Len(kinds) + 1
      /\ (\A n \in 1 .. Len(ids) + Len(kinds) : s[n] = (a \o b)[n])
      /\ s[Len(ids) + Len(kinds) + 1] = c[1]
  <2>1. /\ s \in Seq(Commits) /\ Len(s) = Len(a \o b) + Len(c)
        /\ \A n \in 1 .. Len(a \o b) : s[n] = (a \o b)[n]
        /\ \A n \in 1 .. Len(c) : s[Len(a \o b) + n] = c[n]
    <3>1. a \o b \in Seq(Commits) /\ c \in Seq(Commits)
      BY <1>5, <1>7
    <3>2. /\ (a \o b) \o c \in Seq(Commits) /\ Len((a \o b) \o c) = Len(a \o b) + Len(c)
          /\ \A n \in 1 .. Len(a \o b) : ((a \o b) \o c)[n] = (a \o b)[n]
          /\ \A n \in 1 .. Len(c) : ((a \o b) \o c)[Len(a \o b) + n] = c[n]
      BY <3>1, Joined
    <3> QED BY <1>6, <3>2
  <2>2. 1 \in 1 .. Len(c)
    BY <1>5
  <2> QED BY <1>5, <1>7, <2>1, <2>2
<1>9. \A n \in 1 .. Len(ids) : s[n] = HF!Do("vector", ids[n], "all")
  BY <1>2, <1>3, <1>7, <1>8
<1>10. \A n \in 1 .. Len(kinds) : s[Len(ids) + n] = HF!Do("bank", 0, kinds[n])
  BY <1>2, <1>4, <1>7, <1>8
<1> QED BY <1>5, <1>8, <1>9, <1>10 DEF s

\* What is left after the first.
LEMMA RestOfWork ==
    ASSUME NEW s \in Seq(Commits), s # <<>>
    PROVE  /\ Head(s) = s[1] /\ s[1] \in Commits /\ 1 \in DOMAIN s
           /\ Tail(s) \in Seq(Commits) /\ Len(Tail(s)) = Len(s) - 1 /\ Len(s) \in Nat
           /\ \A n \in DOMAIN Tail(s) : n \in Nat /\ n + 1 \in DOMAIN s /\ Tail(s)[n] = s[n + 1]
           /\ \A n \in DOMAIN s : n \in 1 .. Len(s)
           /\ \A n \in DOMAIN s : n # 1 => n - 1 \in DOMAIN Tail(s) /\ Tail(s)[n - 1] = s[n]
OBVIOUS

(***************************************************************************)
(* A step of a rebuild that leaves the first of its plan done.             *)
(***************************************************************************)
LEMMA PlanShrinks ==
    ASSUME FactTypes, Rebuilding => PlanInv, work # <<>>, work' = Tail(work), Rebuilding'
    PROVE  /\ PlanInv
           /\ \A n \in DOMAIN work' :
                 /\ work'[n].do \in {"vector", "bank", "rebuilt"}
                 /\ work'[n].do = "vector" => \A m \in 1 .. n : work'[m].do = "vector"
                 /\ work'[n].do = "rebuilt" => n = Len(work')
           /\ \A what, i : ToDo(what, i) =>
                 (work[1].do = what /\ work[1].id = i)
                     \/ \E n \in DOMAIN work' : work'[n].do = what /\ work'[n].id = i
           /\ \A k : BankToDo(k) =>
                 (work[1].do = "bank" /\ work[1].category = k)
                     \/ \E n \in DOMAIN work' : work'[n].do = "bank" /\ work'[n].category = k
           /\ (\A n \in DOMAIN work : work[n].do # "vector") =>
                 \A n \in DOMAIN work' : work'[n].do # "vector"
           /\ work[1].do # "vector" => \A n \in DOMAIN work : work[n].do # "vector"
<1>1. /\ work[1] \in Commits /\ 1 \in DOMAIN work
      /\ Len(work') = Len(work) - 1 /\ Len(work) \in Nat
      /\ \A n \in DOMAIN work' : n \in Nat /\ n + 1 \in DOMAIN work /\ work'[n] = work[n + 1]
      /\ \A n \in DOMAIN work : n \in 1 .. Len(work)
      /\ \A n \in DOMAIN work : n # 1 => n - 1 \in DOMAIN work' /\ work'[n - 1] = work[n]
  BY RestOfWork DEF FactTypes
<1>3. work' \in Seq(Commits) /\ DOMAIN work' = 1 .. Len(work')
  BY RestOfWork DEF FactTypes
<1>4. PlanInv
  BY <1>1 DEF Rebuilding
<1>5. ASSUME NEW n \in DOMAIN work'
      PROVE  /\ work'[n].do \in {"vector", "bank", "rebuilt"}
             /\ work'[n].do = "vector" => \A m \in 1 .. n : work'[m].do = "vector"
             /\ work'[n].do = "rebuilt" => n = Len(work')
  <2>1. n \in Nat /\ n + 1 \in DOMAIN work /\ work'[n] = work[n + 1]
    BY <1>1
  <2>2. /\ work[n + 1].do \in {"vector", "bank", "rebuilt"}
        /\ work[n + 1].do = "vector" => \A m \in 1 .. n + 1 : work[m].do = "vector"
        /\ work[n + 1].do = "rebuilt" => n + 1 = Len(work)
    BY <1>4, <2>1 DEF PlanInv
  <2>3. \A m \in 1 .. n : m \in DOMAIN work' /\ m + 1 \in 1 .. n + 1
    BY <1>3, <2>1
  <2>4. work'[n].do = "vector" => \A m \in 1 .. n : work'[m].do = "vector"
    BY <1>1, <2>1, <2>2, <2>3
  <2> QED BY <1>1, <2>1, <2>2, <2>4
<1>6. \A what, i : ToDo(what, i) =>
         (work[1].do = what /\ work[1].id = i)
             \/ \E n \in DOMAIN work' : work'[n].do = what /\ work'[n].id = i
  BY <1>1 DEF ToDo
<1>7. \A k : BankToDo(k) =>
         (work[1].do = "bank" /\ work[1].category = k)
             \/ \E n \in DOMAIN work' : work'[n].do = "bank" /\ work'[n].category = k
  BY <1>1 DEF BankToDo
<1>8. (\A n \in DOMAIN work : work[n].do # "vector") => \A n \in DOMAIN work' : work'[n].do # "vector"
  BY <1>1
<1>9. work[1].do # "vector" => \A n \in DOMAIN work : work[n].do # "vector"
  <2> SUFFICES ASSUME NEW n \in DOMAIN work, work[n].do = "vector" PROVE work[1].do = "vector"
    OBVIOUS
  <2>1. 1 \in 1 .. n
    BY <1>1
  <2> QED BY <1>4, <2>1 DEF PlanInv
<1> QED BY <1>4, <1>5, <1>6, <1>7, <1>8, <1>9

\* Rewriting one row keeps the others.
LEMMA RowWritten ==
    ASSUME FactTypes, NEW i, NEW v, facts' = [facts EXCEPT ![i].vector = v]
    PROVE  /\ DOMAIN facts' = DOMAIN facts /\ facts' = [j \in DOMAIN facts' |-> facts'[j]]
           /\ \A j \in DOMAIN facts : j # i => facts'[j] = facts[j]
           /\ i \in DOMAIN facts => facts'[i].vector = v
           /\ \A j \in DOMAIN facts :
                 /\ facts'[j].content = facts[j].content /\ facts'[j].category = facts[j].category
                 /\ FactShape(facts'[j])
<1>1. /\ facts = [j \in DOMAIN facts |-> facts[j]]
      /\ \A j \in DOMAIN facts : FactShape(facts[j])
  BY DEF FactTypes, HF!Ids
<1>2. /\ DOMAIN facts' = DOMAIN facts /\ facts' = [j \in DOMAIN facts' |-> facts'[j]]
      /\ \A j \in DOMAIN facts : j # i => facts'[j] = facts[j]
      /\ i \in DOMAIN facts => facts'[i] = [facts[i] EXCEPT !.vector = v]
  BY <1>1
<1>3. ASSUME i \in DOMAIN facts
      PROVE  /\ facts'[i].vector = v /\ facts'[i].content = facts[i].content
             /\ facts'[i].category = facts[i].category /\ FactShape(facts'[i])
  <2>1. facts'[i] = [content |-> facts[i].content, category |-> facts[i].category,
                     trusted |-> facts[i].trusted, vector |-> v]
    BY <1>1, <1>2, <1>3 DEF FactShape
  <2> QED BY <1>1, <1>3, <2>1 DEF FactShape
<1> QED BY <1>1, <1>2, <1>3

LEMMA ComputeStep ==
    ASSUME RebuildInv, HF!ComputeVector PROVE RebuildInv'
<1>1. PICK w \in Commits : w = Head(work) /\ w = work[1] /\ work # <<>>
  BY RestOfWork DEF HF!ComputeVector, RebuildInv, FactTypes
<1>2. /\ w.do = "vector" /\ facts' = [facts EXCEPT ![w.id].vector = HF!VectorOf(w.id)]
      /\ work' = Tail(work) /\ UNCHANGED <<lastId, links, banks, dim>>
  BY <1>1 DEF HF!ComputeVector
<1>3. /\ DOMAIN facts' = DOMAIN facts /\ facts' = [j \in DOMAIN facts' |-> facts'[j]]
      /\ \A j \in DOMAIN facts : j # w.id => facts'[j] = facts[j]
      /\ w.id \in DOMAIN facts => facts'[w.id].vector = HF!VectorOf(w.id)
      /\ \A j \in DOMAIN facts :
            /\ facts'[j].content = facts[j].content /\ facts'[j].category = facts[j].category
            /\ FactShape(facts'[j])
  BY <1>2, RowWritten DEF RebuildInv
<1>4. work' \in Seq(Commits) /\ dim # 0
  BY <1>1, <1>2, RestOfWork DEF RebuildInv, FactTypes
<1>5. FactTypes'
  BY <1>2, <1>3, <1>4 DEF RebuildInv, FactTypes, HF!Ids
<1>6. ASSUME Rebuilding' PROVE PlanInv'
  <2>1. /\ PlanInv
        /\ \A n \in DOMAIN work' :
              /\ work'[n].do \in {"vector", "bank", "rebuilt"}
              /\ work'[n].do = "vector" => \A m \in 1 .. n : work'[m].do = "vector"
              /\ work'[n].do = "rebuilt" => n = Len(work')
        /\ \A what, i : ToDo(what, i) =>
              (work[1].do = what /\ work[1].id = i)
                  \/ \E n \in DOMAIN work' : work'[n].do = what /\ work'[n].id = i
        /\ \A k : BankToDo(k) =>
              (work[1].do = "bank" /\ work[1].category = k)
                  \/ \E n \in DOMAIN work' : work'[n].do = "bank" /\ work'[n].category = k
    BY <1>1, <1>2, <1>6, PlanShrinks DEF RebuildInv
  <2>2. \A i \in DOMAIN facts : HF!VectorOf(i)' = HF!VectorOf(i)
    BY <1>2, <1>3 DEF HF!VectorOf
  <2>3. ASSUME NEW i \in DOMAIN facts
        PROVE  (\E n \in DOMAIN work' : work'[n].do = "vector" /\ work'[n].id = i)
                   \/ facts'[i].vector = HF!VectorOf(i)'
    <3>1. CASE i = w.id
      BY <1>3, <2>2, <3>1
    <3>2. CASE i # w.id
      <4>1. ToDo("vector", i) \/ facts[i].vector = HF!VectorOf(i)
        BY <2>1 DEF PlanInv, HF!Ids
      <4> QED BY <1>1, <1>3, <2>1, <2>2, <3>2, <4>1
    <3> QED BY <3>1, <3>2
  <2>4. \A i \in DOMAIN facts : \E n \in DOMAIN work' :
            work'[n].do = "bank" /\ work'[n].category = facts'[i].category
    <3> SUFFICES ASSUME NEW i \in DOMAIN facts
                 PROVE  \E n \in DOMAIN work' :
                           work'[n].do = "bank" /\ work'[n].category = facts'[i].category
      OBVIOUS
    <3>1. BankToDo(facts[i].category)
      <4>1. 1 \in DOMAIN work /\ work[1].do = "vector"
        BY <1>1, <1>2, RestOfWork DEF RebuildInv, FactTypes
      <4> QED BY <2>1, <4>1 DEF PlanInv, HF!Ids
    <3> QED BY <1>1, <1>2, <1>3, <2>1, <3>1
  <2> QED BY <1>3, <2>1, <2>3, <2>4 DEF PlanInv, ToDo, BankToDo, HF!Ids
<1> QED BY <1>5, <1>6 DEF RebuildInv

LEMMA BankStep ==
    ASSUME RebuildInv, HF!RebuildBank PROVE RebuildInv'
<1>1. PICK w \in Commits : w = Head(work) /\ w = work[1] /\ work # <<>>
  BY RestOfWork DEF HF!RebuildBank, RebuildInv, FactTypes
<1>2. w.do = "bank" /\ UNCHANGED <<facts, lastId, links, dim>>
  BY <1>1 DEF HF!RebuildBank
<1>3. \/ banks' = [banks EXCEPT ![w.category] = HF!Vectors(w.category)] /\ work' = Tail(work)
      \/ banks' = banks /\ work' = <<>>
  BY <1>1 DEF HF!RebuildBank
<1>4. dim # 0 /\ Tail(work) \in Seq(Commits) /\ <<>> \in Seq(Commits)
  BY <1>1, RestOfWork DEF RebuildInv, FactTypes
<1>5. CASE banks' = banks /\ work' = <<>>
  <2>1. FactTypes' /\ ~Rebuilding'
    BY <1>2, <1>4, <1>5 DEF RebuildInv, FactTypes, FactShape, HF!Ids, Rebuilding
  <2> QED BY <2>1 DEF RebuildInv
<1>6. CASE banks' = [banks EXCEPT ![w.category] = HF!Vectors(w.category)] /\ work' = Tail(work)
  <2>1. /\ DOMAIN banks = Categories /\ DOMAIN banks' = Categories
        /\ banks' = [k \in Categories |-> banks'[k]]
        /\ \A k \in Categories : banks'[k] = IF k = w.category THEN HF!Vectors(k) ELSE banks[k]
    BY <1>6 DEF RebuildInv, FactTypes
  <2>2. FactTypes'
    BY <1>2, <1>4, <1>6, <2>1 DEF RebuildInv, FactTypes, FactShape, HF!Ids
  <2>3. ASSUME Rebuilding' PROVE PlanInv'
    <3>1. /\ PlanInv
          /\ \A n \in DOMAIN work' :
                /\ work'[n].do \in {"vector", "bank", "rebuilt"}
                /\ work'[n].do = "vector" => \A m \in 1 .. n : work'[m].do = "vector"
                /\ work'[n].do = "rebuilt" => n = Len(work')
          /\ \A what, i : ToDo(what, i) =>
                (work[1].do = what /\ work[1].id = i)
                    \/ \E n \in DOMAIN work' : work'[n].do = what /\ work'[n].id = i
          /\ \A k : BankToDo(k) =>
                (work[1].do = "bank" /\ work[1].category = k)
                    \/ \E n \in DOMAIN work' : work'[n].do = "bank" /\ work'[n].category = k
          /\ (\A n \in DOMAIN work : work[n].do # "vector") =>
                \A n \in DOMAIN work' : work'[n].do # "vector"
          /\ work[1].do # "vector" => \A n \in DOMAIN work : work[n].do # "vector"
      BY <1>1, <1>6, <2>3, PlanShrinks DEF RebuildInv
    <3>2. /\ \A i \in DOMAIN facts : HF!VectorOf(i)' = HF!VectorOf(i)
          /\ \A k \in Categories : HF!Vectors(k)' = HF!Vectors(k)
      BY <1>2 DEF HF!VectorOf, HF!Vectors, HF!Ids
    <3>3. \A n \in DOMAIN work' : work'[n].do # "vector"
      BY <1>1, <1>2, <3>1
    <3>4. \A i \in DOMAIN facts : facts[i].vector = HF!VectorOf(i)
      BY <1>1, <1>2, <3>1 DEF PlanInv, HF!Ids, ToDo
    <3>5. ASSUME NEW i \in DOMAIN facts
          PROVE  \/ \E n \in DOMAIN work' :
                       work'[n].do = "bank" /\ work'[n].category = facts[i].category
                 \/ banks'[facts[i].category] = HF!Vectors(facts[i].category)
      <4>1. facts[i].category \in Categories
        BY DEF RebuildInv, FactTypes, FactShape, HF!Ids
      <4>2. \/ BankToDo(facts[i].category)
            \/ banks[facts[i].category] = HF!Vectors(facts[i].category)
        BY <3>1 DEF PlanInv, HF!Ids
      <4> QED BY <1>1, <2>1, <3>1, <4>1, <4>2
    <3>6. \A i \in DOMAIN facts : facts[i].category \in Categories
      BY DEF RebuildInv, FactTypes, FactShape, HF!Ids
    <3> QED BY <1>2, <3>1, <3>2, <3>3, <3>4, <3>5, <3>6 DEF PlanInv, ToDo, BankToDo, HF!Ids
  <2> QED BY <2>2, <2>3 DEF RebuildInv
<1> QED BY <1>3, <1>5, <1>6

LEMMA LinkStep ==
    ASSUME RebuildInv, HF!LinkEntity PROVE RebuildInv'
<1>1. PICK w \in Commits : w = Head(work) /\ w = work[1] /\ work # <<>> /\ 1 \in DOMAIN work
  BY RestOfWork DEF HF!LinkEntity, RebuildInv, FactTypes
<1>2. /\ w.do \in {"unlink", "link"} /\ UNCHANGED <<facts, lastId, banks, dim>>
      /\ work' = work \/ work' = Tail(work)
  BY <1>1 DEF HF!LinkEntity
<1>3. ~Rebuilding
  BY <1>1, <1>2 DEF RebuildInv, PlanInv
<1>4. /\ Tail(work) \in Seq(Commits)
      /\ \A n \in DOMAIN Tail(work) : n + 1 \in DOMAIN work /\ Tail(work)[n] = work[n + 1]
  BY <1>1, RestOfWork DEF RebuildInv, FactTypes
<1>5. ~Rebuilding'
  BY <1>2, <1>3, <1>4 DEF Rebuilding
<1>6. FactTypes'
  BY <1>1, <1>2, <1>4 DEF RebuildInv, FactTypes, FactShape, HF!Ids
<1> QED BY <1>5, <1>6 DEF RebuildInv

\* Opening the store, its death, and the operations on one fact plan no rebuild.
LEMMA FactSteps ==
    ASSUME RebuildInv,
           \/ \E d \in Dimensions : HF!Open(d)
           \/ \E c \in Contents, k \in Categories : HF!AddFact(c, k)
           \/ \E i \in HF!Ids, c \in Contents \cup {"none"}, k \in Categories :
                 HF!UpdateFact(i, c, k)
           \/ \E i \in HF!Ids :
                 HF!RemoveFact(i) \/ \E h \in BOOLEAN : HF!RecordFeedback(i, h)
           \/ HF!Crash \/ HF!Rebuilt
    PROVE  RebuildInv'
<1> USE DEF RebuildInv, FactTypes, HF!Ids
<1>1. ASSUME NEW d \in Dimensions, HF!Open(d) PROVE RebuildInv'
  <2>1. work' = <<>> /\ dim' \in Dimensions /\ UNCHANGED <<facts, lastId, banks>>
    BY <1>1 DEF HF!Open
  <2> QED BY <2>1, HolographicConstants DEF FactShape, Rebuilding
<1>2. ASSUME NEW c \in Contents, NEW k \in Categories, HF!AddFact(c, k) PROVE RebuildInv'
  <2>1. /\ lastId' = lastId + 1 /\ work' = HF!Encode(lastId + 1, k)
        /\ UNCHANGED <<links, banks, dim>> /\ dim # 0
        /\ facts' = [i \in DOMAIN facts \cup {lastId + 1} |->
              IF i \in DOMAIN facts THEN facts[i]
              ELSE [content |-> c, category |-> k, trusted |-> TRUE, vector |-> HF!NoVector]]
    BY <1>2 DEF HF!AddFact, HF!Idle
  <2>2. /\ DOMAIN facts' = DOMAIN facts \cup {lastId + 1}
        /\ facts' = [i \in DOMAIN facts' |-> facts'[i]]
        /\ \A i \in DOMAIN facts' : i \in 1 .. lastId + 1
    BY <2>1
  <2>3. \A i \in DOMAIN facts' : FactShape(facts'[i])
    BY <2>1 DEF FactShape
  <2>4. work' \in Seq(Commits) /\ ~Rebuilding'
    BY <2>1 DEF HF!Encode, HF!Do, Commits, Rebuilding
  <2>5. lastId + 1 \in Nat /\ lastId \in Nat
    OBVIOUS
  <2>6. \A i \in DOMAIN facts' : i \in 1 .. lastId'
    BY <2>1, <2>2
  <2>7. banks' = [l \in Categories |-> banks'[l]] /\ dim' \in Dimensions \cup {0} /\ dim' # 0
    BY <2>1
  <2>8. FactTypes'
    BY <2>1, <2>2, <2>3, <2>4, <2>5, <2>6, <2>7
  <2> QED BY <2>4, <2>8
<1>3. ASSUME NEW i \in HF!Ids, NEW c \in Contents \cup {"none"}, NEW k \in Categories,
             HF!UpdateFact(i, c, k)
      PROVE  RebuildInv'
  <2>1. PICK e : facts' = [facts EXCEPT ![i].content = e, ![i].category = k]
    BY <1>3 DEF HF!UpdateFact
  <2>2. /\ DOMAIN facts' = DOMAIN facts /\ facts' = [j \in DOMAIN facts' |-> facts'[j]]
        /\ \A j \in DOMAIN facts : j # i => facts'[j] = facts[j]
        /\ facts'[i] = [facts[i] EXCEPT !.content = e, !.category = k]
    BY <2>1
  <2>3. facts'[i] = [content |-> e, category |-> k, trusted |-> facts[i].trusted,
                     vector |-> facts[i].vector]
    BY <2>2 DEF FactShape
  <2>4. \A j \in DOMAIN facts' : FactShape(facts'[j])
    <3>1. FactShape(facts'[i])
      <4>1. k \in Categories
        BY DEF FactShape
      <4> QED BY <2>3, <4>1 DEF FactShape
    <3>2. \A j \in DOMAIN facts' : j # i => FactShape(facts'[j])
      BY <2>2
    <3> QED BY <3>1, <3>2
  <2>5. i \in Nat /\ dim # 0 /\ UNCHANGED <<lastId, banks, dim>>
    <3>1. HF!Idle /\ UNCHANGED <<lastId, banks, dim>>
      BY <1>3 DEF HF!UpdateFact
    <3> QED BY <3>1 DEF HF!Idle
  <2>6. \/ work' = <<HF!Do("bank", i, k)>>
        \/ work' = <<HF!Do("unlink", i, k)>> \o HF!Encode(i, k)
    BY <1>3 DEF HF!UpdateFact
  <2>7. work' \in Seq(Commits) /\ ~Rebuilding'
    <3>1. CASE work' = <<HF!Do("bank", i, k)>>
      BY <2>5, <3>1 DEF HF!Do, Commits, Rebuilding
    <3>2. CASE work' = <<HF!Do("unlink", i, k)>> \o HF!Encode(i, k)
      <4> DEFINE a == <<HF!Do("unlink", i, k)>>
                 b == HF!Encode(i, k)
      <4>1. /\ a \in Seq(Commits) /\ DOMAIN a = {1} /\ Len(a) = 1 /\ a[1].do # "rebuilt"
            /\ b \in Seq(Commits) /\ Len(b) = 3 /\ DOMAIN b = 1 .. 3
            /\ \A n \in 1 .. 3 : b[n].do # "rebuilt"
        BY <2>5 DEF HF!Encode, HF!Do, Commits
      <4> HIDE DEF a, b
      <4>2. /\ a \o b \in Seq(Commits) /\ Len(a \o b) = 4
            /\ \A n \in 1 .. Len(a) : (a \o b)[n] = a[n]
            /\ \A n \in 1 .. Len(b) : (a \o b)[Len(a) + n] = b[n]
        <5>1. a \in Seq(Commits) /\ b \in Seq(Commits)
          BY <4>1
        <5>2. /\ a \o b \in Seq(Commits) /\ Len(a \o b) = Len(a) + Len(b)
              /\ \A n \in 1 .. Len(a) : (a \o b)[n] = a[n]
              /\ \A n \in 1 .. Len(b) : (a \o b)[Len(a) + n] = b[n]
          BY <5>1, Joined
        <5> QED BY <4>1, <5>2
      <4>3. (a \o b)[1] = a[1] /\ (a \o b)[2] = b[1] /\ (a \o b)[3] = b[2] /\ (a \o b)[4] = b[3]
        BY <4>1, <4>2
      <4>4. DOMAIN (a \o b) = {1, 2, 3, 4}
        BY <4>2
      <4> QED BY <3>2, <4>1, <4>2, <4>3, <4>4 DEF a, b, Rebuilding
    <3> QED BY <2>6, <3>1, <3>2
  <2> QED BY <2>2, <2>4, <2>5, <2>7
<1>4. ASSUME NEW i \in HF!Ids, HF!RemoveFact(i) PROVE RebuildInv'
  <2>1. /\ facts' = [j \in DOMAIN facts \ {i} |-> facts[j]]
        /\ work' = <<HF!Do("bank", i, facts[i].category)>>
        /\ UNCHANGED <<lastId, banks, dim>> /\ dim # 0
    BY <1>4 DEF HF!RemoveFact, HF!Idle
  <2>2. \A j \in DOMAIN facts' : j \in 1 .. lastId /\ FactShape(facts'[j])
    BY <2>1
  <2>3. work' \in Seq(Commits) /\ ~Rebuilding'
    <3>1. i \in Nat /\ facts[i].category \in Categories
      BY DEF FactShape
    <3> QED BY <2>1, <3>1 DEF HF!Do, Commits, Rebuilding
  <2> QED BY <2>1, <2>2, <2>3
<1>5. ASSUME NEW i \in HF!Ids, NEW h \in BOOLEAN, HF!RecordFeedback(i, h) PROVE RebuildInv'
  <2>1. PICK t : facts' = [facts EXCEPT ![i].trusted = t]
    BY <1>5 DEF HF!RecordFeedback
  <2>2. /\ DOMAIN facts' = DOMAIN facts /\ facts' = [j \in DOMAIN facts' |-> facts'[j]]
        /\ \A j \in DOMAIN facts : j # i => facts'[j] = facts[j]
        /\ facts'[i] = [facts[i] EXCEPT !.trusted = t]
    BY <2>1
  <2>3. facts'[i] = [content |-> facts[i].content, category |-> facts[i].category,
                     trusted |-> t, vector |-> facts[i].vector]
    BY <2>2 DEF FactShape
  <2>4. \A j \in DOMAIN facts' : FactShape(facts'[j])
    <3>1. FactShape(facts'[i])
      <4>1. facts[i].category \in Categories
        BY DEF FactShape
      <4> QED BY <2>3, <4>1 DEF FactShape
    <3>2. \A j \in DOMAIN facts' : j # i => FactShape(facts'[j])
      BY <2>2
    <3> QED BY <3>1, <3>2
  <2>5. work' = <<>> /\ UNCHANGED <<lastId, banks, dim>>
    BY <1>5 DEF HF!RecordFeedback, HF!Idle
  <2> QED BY <2>2, <2>4, <2>5 DEF Rebuilding
<1>6. CASE HF!Crash \/ HF!Rebuilt
  <2>1. work' = <<>> /\ dim' \in Dimensions \cup {0} /\ UNCHANGED <<facts, lastId, banks>>
    BY <1>6 DEF HF!Crash, HF!Rebuilt
  <2> QED BY <2>1 DEF FactShape, Rebuilding
<1> QED BY <1>1, <1>2, <1>3, <1>4, <1>5, <1>6

\* A rebuild plans every vector, then the bank of every category that has a fact.
LEMMA RebuildAllStep ==
    ASSUME RebuildInv, NEW d \in Dimensions, HF!RebuildAll(d) PROVE RebuildInv'
<1> DEFINE ids == HF!SetToSeq(HF!Ids)
           kinds == HF!SetToSeq({facts[i].category : i \in HF!Ids})
<1>1. /\ dim' = d /\ d # 0 /\ work' = HF!RebuildSteps(ids, kinds)
      /\ UNCHANGED <<facts, lastId, links, banks>>
  BY HolographicConstants DEF HF!RebuildAll
<1>2. /\ ids \in Seq(HF!Ids) /\ \A i \in HF!Ids : \E n \in DOMAIN ids : ids[n] = i
      /\ kinds \in Seq({facts[i].category : i \in HF!Ids})
      /\ \A k \in {facts[i].category : i \in HF!Ids} : \E n \in DOMAIN kinds : kinds[n] = k
  BY FactsAreFinite, SetAsSequence DEF RebuildInv
<1>3. HF!Ids \subseteq Nat /\ {facts[i].category : i \in HF!Ids} \subseteq Categories
  BY DEF RebuildInv, FactTypes, FactShape
<1> HIDE DEF ids, kinds
<1>4. ids \in Seq(Nat) /\ kinds \in Seq(Categories)
  BY <1>2, <1>3
<1> DEFINE v == Len(ids)
           b == Len(kinds)
<1>5. /\ v \in Nat /\ b \in Nat /\ DOMAIN ids = 1 .. v /\ DOMAIN kinds = 1 .. b
      /\ work' \in Seq(Commits) /\ Len(work') = v + b + 1 /\ DOMAIN work' = 1 .. v + b + 1
  BY <1>1, <1>4, StepsOfRebuild
<1>6. /\ \A n \in 1 .. v : work'[n].do = "vector" /\ work'[n].id = ids[n]
      /\ \A n \in 1 .. b : work'[v + n].do = "bank" /\ work'[v + n].category = kinds[n]
      /\ work'[v + b + 1].do = "rebuilt"
  <2>1. /\ \A n \in 1 .. v : work'[n] = HF!Do("vector", ids[n], "all")
        /\ \A n \in 1 .. b : work'[v + n] = HF!Do("bank", 0, kinds[n])
        /\ work'[v + b + 1] = HF!Do("rebuilt", 0, "all")
    BY <1>1, <1>4, StepsOfRebuild
  <2>2. \A step, id, k : /\ HF!Do(step, id, k).do = step /\ HF!Do(step, id, k).id = id
                         /\ HF!Do(step, id, k).category = k
    BY DEF HF!Do
  <2> HIDE DEF v, b
  <2> QED BY <2>1, <2>2
<1> HIDE DEF v, b
<1>7. \A n \in 1 .. v + b + 1 :
          \/ n \in 1 .. v
          \/ \E m \in 1 .. b : n = v + m /\ n > v
          \/ n = v + b + 1
  <2> SUFFICES ASSUME NEW n \in 1 .. v + b + 1, n \notin 1 .. v, n # v + b + 1
               PROVE  \E m \in 1 .. b : n = v + m /\ n > v
    OBVIOUS
  <2>1. n - v \in 1 .. b /\ n = v + (n - v) /\ n > v
    BY <1>5
  <2> QED BY <2>1
<1>8. ASSUME NEW n \in DOMAIN work'
      PROVE  /\ work'[n].do \in {"vector", "bank", "rebuilt"}
             /\ work'[n].do = "vector" => \A m \in 1 .. n : work'[m].do = "vector"
             /\ work'[n].do = "rebuilt" => n = Len(work')
  <2>1. CASE n \in 1 .. v
    <3>1. \A m \in 1 .. n : m \in 1 .. v
      BY <1>5, <2>1
    <3> QED BY <1>6, <2>1, <3>1
  <2>2. ASSUME NEW m \in 1 .. b, n = v + m PROVE work'[n].do = "bank"
    BY <1>6, <2>2
  <2>3. CASE n = v + b + 1
    BY <1>5, <1>6, <2>3
  <2> QED BY <1>5, <1>7, <2>1, <2>2, <2>3
<1>9. ASSUME NEW i \in HF!Ids
      PROVE  \E n \in DOMAIN work' : work'[n].do = "vector" /\ work'[n].id = i
  <2>1. PICK n \in 1 .. v : ids[n] = i
    BY <1>2, <1>5
  <2>2. n \in DOMAIN work'
    BY <1>5
  <2> QED BY <1>6, <2>1, <2>2
<1>10. ASSUME NEW i \in HF!Ids
       PROVE  \E n \in DOMAIN work' : work'[n].do = "bank" /\ work'[n].category = facts[i].category
  <2>1. PICK n \in 1 .. b : kinds[n] = facts[i].category
    BY <1>2, <1>5
  <2>2. v + n \in DOMAIN work'
    BY <1>5
  <2> QED BY <1>6, <2>1, <2>2
<1>11. PlanInv'
  BY <1>1, <1>8, <1>9, <1>10 DEF PlanInv, ToDo, BankToDo, HF!Ids
<1>12. FactTypes'
  BY <1>1, <1>5 DEF RebuildInv, FactTypes, FactShape, HF!Ids
<1> QED BY <1>11, <1>12 DEF RebuildInv

(***************************************************************************)
(* When the plan is down to its last step every vector is of its own text  *)
(* and of the store's dimension, so no query raises or misses a fact.      *)
(***************************************************************************)
LEMMA RebuiltRepairs ==
    ASSUME RebuildInv, HF!Rebuilt, NEW i \in HF!Ids
    PROVE  LET k == facts[i].category IN
           /\ facts[i].vector = HF!VectorOf(i)
           /\ banks[k] = HF!Vectors(k)
           /\ i \in HF!Probe(k) \cap HF!Related(k)
           /\ HF!Sharing(i, k) # {} => i \in HF!Contradict(k)
<1> DEFINE k == facts[i].category
<1>1. work # <<>> /\ work[1].do = "rebuilt" /\ 1 \in DOMAIN work /\ DOMAIN work = 1 .. Len(work)
      /\ dim # 0
  BY RestOfWork DEF HF!Rebuilt, RebuildInv, FactTypes
<1>2. PlanInv /\ Len(work) = 1
  BY <1>1 DEF RebuildInv, Rebuilding, PlanInv
<1>3. \A n \in DOMAIN work : work[n].do = "rebuilt"
  BY <1>1, <1>2
<1>4. \A j \in HF!Ids : facts[j].vector = HF!VectorOf(j)
  BY <1>2, <1>3 DEF PlanInv, ToDo
<1>5. banks[k] = HF!Vectors(k)
  BY <1>2, <1>3 DEF PlanInv, BankToDo
<1>6. \A j \in HF!Ids : facts[j].vector.dim = dim /\ facts[j].vector # HF!NoVector
  <2>1. \A j \in HF!Ids : HF!VectorOf(j).dim = dim
    BY DEF HF!VectorOf
  <2>2. HF!NoVector.dim = 0
    BY DEF HF!NoVector
  <2> QED BY <1>1, <1>4, <2>1, <2>2
<1>7. \A x \in HF!Vectors(k) : x.dim = dim
  BY <1>6 DEF HF!Vectors
<1>8. i \in HF!Encoded(k) /\ HF!SameLength(HF!Vectors(k), dim)
      /\ HF!SameLength(HF!Vectors(k) \cup banks[k], dim)
  BY <1>5, <1>6, <1>7 DEF HF!Encoded, HF!SameLength
<1>9. i \in HF!Probe(k) \cap HF!Related(k)
  BY <1>8 DEF HF!Probe, HF!Related
<1>10. ASSUME HF!Sharing(i, k) # {} PROVE i \in HF!Contradict(k)
  <2>1. \A j \in HF!Encoded(k) : j \in HF!Ids /\ HF!Sharing(j, k) \subseteq HF!Ids
    BY DEF HF!Encoded, HF!Sharing
  <2>2. \A j \in HF!Encoded(k) :
            HF!SameLength({facts[l].vector : l \in HF!Sharing(j, k)}, facts[j].vector.dim)
    BY <1>6, <2>1 DEF HF!SameLength
  <2> QED BY <1>8, <1>10, <2>2 DEF HF!Contradict
<1> QED BY <1>4, <1>5, <1>9, <1>10

(***************************************************************************)
(* Whatever crash, changed dimension or move between categories came       *)
(* before it, a rebuild that completes leaves every fact with the vector   *)
(* of its own text, every category with the bank of its facts, and every   *)
(* query able to find the fact (rebuild_all_vectors, _rebuild_bank, probe, *)
(* related, contradict).                                                   *)
(***************************************************************************)
THEOREM RebuildsRepair == Spec => HolographicRebuildRepairs
<1>1. Init => RebuildInv
  <2> SUFFICES ASSUME HF!Init PROVE RebuildInv
    BY DEF Init
  <2>1. work = <<>> /\ facts = <<>> /\ DOMAIN facts = {} /\ lastId = 0 /\ dim = 0
        /\ banks = [k \in Categories |-> {}]
    BY DEF HF!Init
  <2>2. facts = [i \in DOMAIN facts |-> facts[i]]
    BY <2>1
  <2> QED BY <2>1, <2>2 DEF RebuildInv, FactTypes, HF!Ids, Rebuilding
<1>2. RebuildInv /\ [Next]_vars => RebuildInv'
  <2> SUFFICES ASSUME RebuildInv, [Next]_vars PROVE RebuildInv'
    OBVIOUS
  <2>1. HF!Next \/ UNCHANGED holographicVars
    BY DEF Next, Load, vars, holographicVars, loaderVars
  <2>2. CASE UNCHANGED holographicVars
    BY <2>2 DEF holographicVars, RebuildInv, FactTypes, FactShape, Rebuilding, PlanInv, ToDo,
       BankToDo, HF!Ids, HF!VectorOf, HF!Vectors
  <2>3. CASE HF!Next
    BY <2>3, ComputeStep, BankStep, LinkStep, FactSteps, RebuildAllStep DEF HF!Next
  <2> QED BY <2>1, <2>2, <2>3
<1>3. RebuildInv /\ HF!Rebuilt =>
         \A i \in HF!Ids : LET k == facts[i].category IN
            /\ facts[i].vector = HF!VectorOf(i)
            /\ banks[k] = HF!Vectors(k)
            /\ i \in HF!Probe(k) \cap HF!Related(k)
            /\ HF!Sharing(i, k) # {} => i \in HF!Contradict(k)
  BY RebuiltRepairs
<1> QED BY <1>1, <1>2, <1>3, PTL DEF Spec, HolographicRebuildRepairs, HF!RebuildRepairs
==============================================================================
