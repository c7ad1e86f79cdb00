-------------------------- MODULE Installation_proofs --------------------------
(***************************************************************************)
(* Proofs about Installation for any constants its assumptions allow: the  *)
(* local API, the migration, the documents, the release build, readiness   *)
(* and the first run.  Each part has an inductive invariant of its own     *)
(* over its own variables; the other parts leave those alone.              *)
(***************************************************************************)
EXTENDS Installation, TLAPS

-----------------------------------------------------------------------------
(* Local API *)

RequestPoints == {"unsent", "arrived", "authenticated", "accepted", "runtime.execute",
                  "model.egress", "running", "done"}

RequestTable ==
    [Requests -> [pc : RequestPoints, supplied : Nat, valid : SUBSET Nat, status : Nat]]

\* The shape of the state the requests and the token commands work on.
ApiTypeOK ==
    /\ stored \in Nat \cup {Torn} /\ issued \in Nat /\ writer \in Nat
    /\ server \in [state : {"down", "up", "stopping"}, rules : Policies \cup {<<>>},
                   egress : BOOLEAN]
    /\ policy \in Policies \cup {Invalid}
    /\ req \in RequestTable

\* A request that has not been authenticated yet may present what is stored now;
\* one that has been presented a token that was stored while it waited.
TokenInv ==
    \A r \in Requests :
        /\ req[r].pc = "arrived" /\ stored \notin {Torn, 0} => stored \in req[r].valid
        /\ req[r].pc \in {"authenticated", "accepted", "runtime.execute", "model.egress",
                          "running"} => req[r].supplied \in req[r].valid

\* No request waits for a server that is down, and what a request has passed was
\* allowed by the rules of the server it runs in and is in the audit log.
AuthorizedInv ==
    \A r \in Requests :
        /\ req[r].pc \notin {"unsent", "done"} => server.state # "down"
        /\ req[r].pc \in {"model.egress", "running"} =>
              /\ LA!Authorize(server.rules, "runtime.execute") = "allow"
              /\ <<r, "runtime.execute", "allow">> \in log
        /\ req[r].pc = "running" /\ server.egress =>
              /\ LA!Authorize(server.rules, "model.egress") = "allow"
              /\ <<r, "model.egress", "allow">> \in log

ApiInv == ApiTypeOK /\ TokenInv /\ AuthorizedInv

\* The server is down, nothing was sent and at most one token is stored.
LEMMA ApiInit == LA!Init => ApiInv
BY DEF LA!Init, LA!Down, LA!Unsent, ApiInv, ApiTypeOK, TokenInv, AuthorizedInv, RequestPoints,
    RequestTable

\* Request r goes to q and nothing that the invariants read of the requests changes
\* otherwise.
Moved(r, q) ==
    /\ req' \in RequestTable /\ req'[r].pc = q
    /\ req'[r].supplied = req[r].supplied /\ req'[r].valid = req[r].valid
    /\ \A x \in Requests \ {r} : req'[x] = req[x]

\* That is what Go and Reply do.
LEMMA GoMoves ==
    ASSUME req \in RequestTable, NEW r \in Requests, NEW q \in RequestPoints, LA!Go(r, q)
    PROVE  Moved(r, q)
<1> DEFINE row == [req[r] EXCEPT !.pc = q]
<1>1. row \in [pc : RequestPoints, supplied : Nat, valid : SUBSET Nat, status : Nat]
      /\ row.pc = q /\ row.supplied = req[r].supplied /\ row.valid = req[r].valid
  BY DEF RequestTable
<1>2. req' = [req EXCEPT ![r] = row]
  BY DEF LA!Go
<1> QED
  BY <1>1, <1>2 DEF Moved, RequestTable

LEMMA ReplyMoves ==
    ASSUME req \in RequestTable, NEW r \in Requests, NEW status \in Nat, LA!Reply(r, status)
    PROVE  Moved(r, "done")
<1> DEFINE row == [[req[r] EXCEPT !.pc = "done"] EXCEPT !.status = status]
<1>1. row \in [pc : RequestPoints, supplied : Nat, valid : SUBSET Nat, status : Nat]
      /\ row.pc = "done" /\ row.supplied = req[r].supplied /\ row.valid = req[r].valid
  BY DEF RequestTable, RequestPoints
<1>2. req' = [req EXCEPT ![r] = row]
  BY DEF LA!Reply, RequestTable
<1> QED
  BY <1>1, <1>2 DEF Moved, RequestTable

\* Rotations, edits of the policy, the server and every step of a request
\* preserve the invariant.
LEMMA ApiStep == ApiInv /\ [LA!Next]_apiVars => ApiInv'
<1> USE DEF ApiInv, ApiTypeOK, TokenInv, AuthorizedInv, RequestPoints, LA!tokenVars, LA!At,
    RequestTable
<1>1. ASSUME ApiInv, LA!RotateBegin PROVE ApiInv'
  BY <1>1 DEF LA!RotateBegin
<1>2. ASSUME ApiInv, LA!RotateFinish PROVE ApiInv'
  BY <1>2 DEF LA!RotateFinish
<1>3. ASSUME ApiInv, LA!RotateDies PROVE ApiInv'
  BY <1>3 DEF LA!RotateDies
<1>4. ASSUME ApiInv, LA!ServerStart PROVE ApiInv'
  BY <1>4 DEF LA!ServerStart
<1>5. ASSUME ApiInv, LA!ServerStop PROVE ApiInv'
  BY <1>5 DEF LA!ServerStop
<1>6. ASSUME ApiInv, LA!ServerExit PROVE ApiInv'
  <2>1. req' \in RequestTable
    BY <1>6 DEF LA!ServerExit, LA!Waiting
  <2>2. \A r \in Requests : req'[r].pc \in {"unsent", "done"}
    BY <1>6 DEF LA!ServerExit, LA!Waiting
  <2>3. ApiTypeOK'
    BY <1>6, <2>1 DEF LA!ServerExit, LA!Down
  <2> QED
    BY <2>2, <2>3
<1>7. ASSUME ApiInv, NEW p \in Policies \cup {Invalid}, LA!EditPolicy(p) PROVE ApiInv'
  BY <1>7 DEF LA!EditPolicy
<1>8. ASSUME ApiInv, NEW r \in Requests, NEW token \in 0..issued, LA!Arrive(r, token)
      PROVE ApiInv'
  BY <1>8 DEF LA!Arrive
<1>9. ASSUME ApiInv, NEW r \in Requests, LA!RejectPath(r) PROVE ApiInv'
  <2>0. Moved(r, "done")
    BY <1>9, GoMoves, ReplyMoves DEF LA!RejectPath
  <2>1. ApiTypeOK'
    BY <1>9, <2>0 DEF LA!RejectPath, Moved
  <2>2. TokenInv'
    BY <1>9, <2>0 DEF LA!RejectPath, Moved
  <2>3. AuthorizedInv'
    BY <1>9, <2>0 DEF LA!RejectPath, Moved
  <2> QED
    BY <2>1, <2>2, <2>3
<1>10. ASSUME ApiInv, NEW r \in Requests, LA!Authenticate(r) PROVE ApiInv'
  <2>0. Moved(r, "done") \/ Moved(r, "authenticated")
    BY <1>10, GoMoves, ReplyMoves DEF LA!Authenticate
  <2>1. ApiTypeOK'
    BY <1>10, <2>0 DEF LA!Authenticate, Moved
  <2>2. TokenInv'
    <3>1. stored' = stored
      BY <1>10 DEF LA!Authenticate
    <3>2. CASE req[r].supplied # 0 /\ stored # Torn /\ req[r].supplied = stored
      <4>1. req[r].supplied \in req[r].valid
        BY <1>10, <3>2 DEF LA!Authenticate
      <4> QED
        BY <1>10, <2>0, <3>1, <4>1 DEF Moved
    <3>3. CASE ~(req[r].supplied # 0 /\ stored # Torn /\ req[r].supplied = stored)
      <4>1. Moved(r, "done")
        BY <1>10, <3>3, ReplyMoves DEF LA!Authenticate
      <4> QED
        BY <1>10, <3>1, <4>1 DEF Moved
    <3> QED
      BY <3>2, <3>3
  <2>3. AuthorizedInv'
    BY <1>10, <2>0 DEF LA!Authenticate, Moved
  <2> QED
    BY <2>1, <2>2, <2>3
<1>11. ASSUME ApiInv, NEW r \in Requests, LA!Route(r) PROVE ApiInv'
  <2>0. Moved(r, "done") \/ Moved(r, "accepted")
    BY <1>11, GoMoves, ReplyMoves DEF LA!Route
  <2>1. ApiTypeOK'
    BY <1>11, <2>0 DEF LA!Route, Moved
  <2>2. TokenInv'
    BY <1>11, <2>0 DEF LA!Route, Moved
  <2>3. AuthorizedInv'
    BY <1>11, <2>0 DEF LA!Route, Moved
  <2> QED
    BY <2>1, <2>2, <2>3
<1>12. ASSUME ApiInv, NEW r \in Requests, LA!AgentRun(r) PROVE ApiInv'
  <2>0. Moved(r, "done") \/ Moved(r, "runtime.execute")
    BY <1>12, GoMoves, ReplyMoves DEF LA!AgentRun
  <2>1. ApiTypeOK'
    BY <1>12, <2>0 DEF LA!AgentRun, Moved
  <2>2. TokenInv'
    BY <1>12, <2>0 DEF LA!AgentRun, Moved
  <2>3. AuthorizedInv'
    BY <1>12, <2>0 DEF LA!AgentRun, Moved
  <2> QED
    BY <2>1, <2>2, <2>3
<1>13. ASSUME ApiInv, NEW r \in Requests, LA!RuntimeReturns(r) PROVE ApiInv'
  <2>0. Moved(r, "done")
    BY <1>13, GoMoves, ReplyMoves DEF LA!RuntimeReturns
  <2>1. ApiTypeOK'
    BY <1>13, <2>0 DEF LA!RuntimeReturns, Moved
  <2>2. TokenInv'
    BY <1>13, <2>0 DEF LA!RuntimeReturns, Moved
  <2>3. AuthorizedInv'
    <3>1. server' = server /\ log' = log
      BY <1>13 DEF LA!RuntimeReturns
    <3> QED
      BY <1>13, <2>0, <3>1 DEF Moved
  <2> QED
    BY <2>1, <2>2, <2>3
<1>14. ASSUME ApiInv, NEW r \in Requests, NEW capability \in {"runtime.execute", "model.egress"},
              LA!GovernedStep(r, capability)
       PROVE ApiInv'
  <2>0. Moved(r, "done") \/ Moved(r, "model.egress") \/ Moved(r, "running")
    BY <1>14, GoMoves, ReplyMoves DEF LA!GovernedStep
  <2>1. ApiTypeOK'
    BY <1>14, <2>0 DEF LA!GovernedStep, Moved
  <2>2. TokenInv'
    BY <1>14, <2>0 DEF LA!GovernedStep, Moved
  <2>3. AuthorizedInv'
    <3> DEFINE decision == LA!Authorize(server.rules, capability)
    <3>1. server' = server /\ log \subseteq log' /\ req[r].pc = capability
      BY <1>14 DEF LA!GovernedStep
    <3>2. CASE Moved(r, "done")
      BY <1>14, <3>1, <3>2 DEF Moved
    <3>3. CASE ~Moved(r, "done")
      <4>1. decision = "allow" /\ log' = log \cup {<<r, capability, decision>>}
        BY <1>14, <3>3, ReplyMoves DEF LA!GovernedStep
      <4>2. \/ Moved(r, "running") /\ (capability = "model.egress" \/ ~server.egress)
            \/ Moved(r, "model.egress") /\ capability = "runtime.execute"
        BY <1>14, <3>3, GoMoves, ReplyMoves DEF LA!GovernedStep
      <4>3. <<r, capability, "allow">> \in log'
        BY <4>1
      <4>4. ASSUME NEW x \in Requests, x # r
            PROVE  req'[x] = req[x]
        BY <2>0, <4>4 DEF Moved
      <4>5. CASE capability = "runtime.execute"
        BY <1>14, <3>1, <4>1, <4>2, <4>3, <4>4, <4>5 DEF Moved
      <4>6. CASE capability = "model.egress"
        BY <1>14, <3>1, <4>1, <4>2, <4>3, <4>4, <4>6 DEF Moved
      <4> QED
        BY <4>5, <4>6
    <3> QED
      BY <3>2, <3>3
  <2> QED
    BY <2>1, <2>2, <2>3
<1>15. ASSUME ApiInv, UNCHANGED apiVars PROVE ApiInv'
  BY <1>15 DEF apiVars
<1> QED
  BY <1>1, <1>2, <1>3, <1>4, <1>5, <1>6, <1>7, <1>8, <1>9, <1>10, <1>11, <1>12, <1>13,
     <1>14, <1>15 DEF LA!Next

\* Whatever part of the installation is followed.
THEOREM ApiInductive == Spec => []ApiInv
<1>1. Init => ApiInv
  BY ApiInit DEF Init
<1>2. [Next]_vars => [LA!Next]_apiVars
  BY DEF Next, vars, apiVars
<1> QED
  BY <1>1, <1>2, ApiStep, PTL DEF Spec

(***************************************************************************)
(* A request that passed authentication presented a token the secret store *)
(* held whole while the request waited, for any number of requests and     *)
(* rotations (BearerTokenAuthenticator.authenticate).                      *)
(***************************************************************************)
THEOREM RotatedTokenRefused == Spec => []RotationTakesEffect
<1>1. ApiInv => RotationTakesEffect
  BY DEF ApiInv, TokenInv, RotationTakesEffect, LA!RotationTakesEffect
<1> QED
  BY <1>1, ApiInductive, PTL

(***************************************************************************)
(* Hermes runs a request only after the rules the server loaded allowed it *)
(* and, with a remote model, allowed sending it there, and after both      *)
(* decisions were recorded (GovernedAgentRuntime.run).                     *)
(***************************************************************************)
THEOREM RunsAreAuthorized == Spec => []RuntimeIsAuthorized
<1>1. ApiInv => RuntimeIsAuthorized
  BY DEF ApiInv, AuthorizedInv, ApiTypeOK, RuntimeIsAuthorized, LA!RuntimeIsAuthorized, LA!At
<1> QED
  BY <1>1, ApiInductive, PTL

-----------------------------------------------------------------------------
(* Migration *)

EntryTable == [Keys -> {None, "legacy", "own"}]

ReportType == [done : SUBSET Keys, skipped : SUBSET Keys, touched : BOOLEAN]

MigrationTypeOK ==
    /\ entries \in EntryTable /\ embeddings \in SUBSET Keys
    /\ report \in ReportType \cup {None}
    /\ migration \in [pc : {"ended", "backup", "begin", "rows", "report"}, overwrite : BOOLEAN,
                      todo : SUBSET Keys, done : SUBSET Keys, skipped : SUBSET Keys,
                      entries : EntryTable \cup {None}, embeddings : SUBSET Keys,
                      touched : BOOLEAN]

\* The rows e with the vectors v are what a report of these keys says.
Holds(done, skipped, e, v) ==
    /\ \A k \in done : e[k] = "legacy" /\ (Vector[k] => k \in v)
    /\ \A k \in skipped : e[k] # None

\* What a running transaction sees agrees with what it did, and with an older
\* report that nobody overtook; once committed, it is what the destination holds.
MigrationInv ==
    /\ LM!Writing => migration.entries \in EntryTable
    /\ ~LM!At("ended") /\ ~LM!At("report") =>
          migration.todo \cup migration.done \cup migration.skipped = Keys
    /\ LM!At("backup") \/ LM!At("begin") => migration.done = {} /\ migration.skipped = {}
    /\ LM!At("rows") =>
          /\ migration.todo \cap (migration.done \cup migration.skipped) = {}
          /\ Holds(migration.done, migration.skipped, LM!Seen, LM!SeenEmbeddings)
    /\ LM!At("report") =>
          /\ migration.done \cup migration.skipped = Keys
          /\ ~migration.touched => Holds(migration.done, migration.skipped, entries, embeddings)

ReportInv ==
    report # None /\ ~report.touched =>
        /\ report.done \cup report.skipped = Keys
        /\ Holds(report.done, report.skipped, entries, embeddings)
        /\ LM!At("rows") => Holds(report.done, report.skipped, LM!Seen, LM!SeenEmbeddings)

RegistryInv == MigrationTypeOK /\ MigrationInv /\ ReportInv

\* No migration ran yet.
LEMMA RegistryInit == LM!Init => RegistryInv
BY DEF LM!Init, LM!Ended, LM!At, LM!Writing, RegistryInv, MigrationTypeOK, MigrationInv,
    ReportInv, EntryTable

\* Every step of migrate, a kill and the writes of others preserve the invariant.
LEMMA RegistryStep == RegistryInv /\ [LM!Next]_migrationVars => RegistryInv'
<1> USE DEF RegistryInv, MigrationTypeOK, MigrationInv, ReportInv, LM!At, LM!Writing,
    LM!committed, LM!countVars
<1>1. ASSUME RegistryInv, NEW overwrite \in BOOLEAN, LM!Start(overwrite) PROVE RegistryInv'
  BY <1>1 DEF LM!Start, LM!Ended, Holds
<1>2. ASSUME RegistryInv, LM!BackupDatabase PROVE RegistryInv'
  <2>1. entries' = entries /\ embeddings' = embeddings /\ report' = report
    BY <1>2 DEF LM!BackupDatabase
  <2>2. CASE migration' = LM!Ended
    BY <1>2, <2>1, <2>2 DEF LM!Ended, Holds
  <2>3. CASE migration' = [migration EXCEPT !.pc = "begin"] /\ migration.pc = "backup"
    <3>1. /\ migration'.pc = "begin" /\ migration'.todo = migration.todo
          /\ migration'.done = {} /\ migration'.skipped = {}
      BY <1>2, <2>3
    <3>2. MigrationTypeOK'
      BY <1>2, <2>1, <2>3
    <3>3. MigrationInv' /\ ReportInv'
      BY <1>2, <2>1, <2>3, <3>1 DEF Holds
    <3> QED
      BY <3>2, <3>3
  <2> QED
    BY <1>2, <2>2, <2>3 DEF LM!BackupDatabase
<1>3. ASSUME RegistryInv, LM!Begin PROVE RegistryInv'
  BY <1>3 DEF LM!Begin, LM!Seen, LM!SeenEmbeddings, Holds
<1>4. ASSUME RegistryInv, LM!Commit PROVE RegistryInv'
  <2>1. CASE /\ entries' = LM!Seen /\ embeddings' = LM!SeenEmbeddings
             /\ migration' = [migration EXCEPT !.pc = "report", !.touched = FALSE]
    <3>1. /\ migration'.pc = "report" /\ migration'.done = migration.done
          /\ migration'.skipped = migration.skipped /\ report' = report
      BY <1>4, <2>1 DEF LM!Commit
    <3>2. LM!Seen \in EntryTable /\ LM!SeenEmbeddings \in SUBSET Keys
      BY <1>4 DEF LM!Seen, LM!SeenEmbeddings, LM!Commit
    <3>3. MigrationTypeOK'
      BY <1>4, <2>1, <3>2 DEF LM!Commit
    <3>4. MigrationInv'
      BY <1>4, <2>1, <3>1 DEF LM!Commit, Holds
    <3>5. ReportInv'
      BY <1>4, <2>1, <3>1 DEF LM!Commit, Holds
    <3> QED
      BY <3>3, <3>4, <3>5
  <2>2. CASE migration' = LM!Ended /\ UNCHANGED LM!committed
    BY <1>4, <2>2 DEF LM!Commit, LM!Ended, Holds
  <2> QED
    BY <1>4, <2>1, <2>2 DEF LM!Commit
<1>5. ASSUME RegistryInv, LM!WriteReport PROVE RegistryInv'
  BY <1>5 DEF LM!WriteReport, LM!Report, LM!Ended, ReportType, Holds
<1>6. ASSUME RegistryInv, LM!Crash PROVE RegistryInv'
  BY <1>6 DEF LM!Crash, LM!Ended, Holds
<1>7. ASSUME RegistryInv, NEW k \in Keys, LM!InsertRegistryRow(k) PROVE RegistryInv'
  <2>1. /\ migration.pc = "rows" /\ k \in migration.todo /\ report' = report
        /\ entries' = entries /\ embeddings' = embeddings
    BY <1>7 DEF LM!InsertRegistryRow
  <2>2. LM!Seen \in EntryTable /\ LM!SeenEmbeddings \in SUBSET Keys
    BY <1>7 DEF LM!Seen, LM!SeenEmbeddings
  <2>3. MigrationTypeOK
    BY <1>7
  <2>4. CASE LM!Seen[k] # None /\ ~migration.overwrite
    <3>1. migration' = [migration EXCEPT !.todo = @ \ {k}, !.skipped = @ \cup {k}]
      BY <1>7, <2>4 DEF LM!InsertRegistryRow
    <3>2. /\ migration'.pc = "rows" /\ migration'.todo = migration.todo \ {k}
          /\ migration'.done = migration.done
          /\ migration'.skipped = migration.skipped \cup {k}
          /\ migration'.entries = migration.entries
          /\ migration'.embeddings = migration.embeddings
      BY <2>1, <2>3, <3>1
    <3>3. LM!Seen' = LM!Seen /\ LM!SeenEmbeddings' = LM!SeenEmbeddings
      BY <2>1, <3>2 DEF LM!Seen, LM!SeenEmbeddings
    <3>4. MigrationTypeOK'
      BY <1>7, <2>1, <3>1
    <3>5. MigrationInv'
      BY <1>7, <2>1, <2>4, <3>2, <3>3 DEF Holds
    <3>6. ReportInv'
      BY <1>7, <2>1, <3>3 DEF Holds
    <3> QED
      BY <3>4, <3>5, <3>6
  <2>5. CASE ~(LM!Seen[k] # None /\ ~migration.overwrite)
    <3> DEFINE rows == [LM!Seen EXCEPT ![k] = "legacy"]
               vectors == IF Vector[k] THEN LM!SeenEmbeddings \cup {k} ELSE LM!SeenEmbeddings
    <3>1. migration' = [migration EXCEPT !.todo = @ \ {k}, !.done = @ \cup {k},
                                         !.entries = rows, !.embeddings = vectors]
      BY <1>7, <2>5 DEF LM!InsertRegistryRow
    <3>2. /\ rows \in EntryTable /\ rows[k] = "legacy"
          /\ \A x \in Keys \ {k} : rows[x] = LM!Seen[x]
      BY <2>2 DEF EntryTable
    <3>3. /\ vectors \in SUBSET Keys /\ LM!SeenEmbeddings \subseteq vectors
          /\ Vector[k] => k \in vectors
      BY <2>2
    <3> HIDE DEF rows, vectors
    <3>4. /\ migration'.pc = "rows" /\ migration'.todo = migration.todo \ {k}
          /\ migration'.done = migration.done \cup {k}
          /\ migration'.skipped = migration.skipped
          /\ migration'.entries = rows /\ migration'.embeddings = vectors
      BY <1>7, <2>1, <3>1
    <3>5. LM!Seen' = rows /\ LM!SeenEmbeddings' = vectors
      BY <3>4 DEF LM!Seen, LM!SeenEmbeddings
    <3>6. MigrationTypeOK'
      BY <1>7, <2>1, <3>1, <3>2, <3>3
    <3>7. ASSUME NEW done \in SUBSET Keys, NEW skipped \in SUBSET Keys,
                 Holds(done, skipped, LM!Seen, LM!SeenEmbeddings)
          PROVE  Holds(done \cup {k}, skipped, rows, vectors)
      BY <3>2, <3>3, <3>7, NoneIsNoEntry DEF Holds
    <3>8. MigrationInv'
      <4>1. Holds(migration.done \cup {k}, migration.skipped, rows, vectors)
        BY <1>7, <2>1, <3>7
      <4> QED
        BY <1>7, <2>1, <3>2, <3>4, <3>5, <4>1
    <3>9. ReportInv'
      <4>1. CASE report # None /\ ~report.touched
        <5>1. Holds(report.done \cup {k}, report.skipped, rows, vectors)
          BY <1>7, <2>1, <3>7, <4>1 DEF ReportType
        <5> QED
          BY <1>7, <2>1, <3>5, <4>1, <5>1 DEF Holds
      <4>2. CASE ~(report # None /\ ~report.touched)
        BY <2>1, <4>2
      <4> QED
        BY <4>1, <4>2
    <3> QED
      BY <3>6, <3>8, <3>9
  <2> QED
    BY <2>4, <2>5
<1>8. ASSUME RegistryInv, NEW k \in Keys, LM!OwnWrite(k) PROVE RegistryInv'
  BY <1>8 DEF LM!OwnWrite, LM!Locked, LM!Seen, LM!SeenEmbeddings, Holds, EntryTable, ReportType
<1>9. ASSUME RegistryInv, UNCHANGED migrationVars PROVE RegistryInv'
  BY <1>9 DEF migrationVars, LM!Seen, LM!SeenEmbeddings, Holds
<1> QED
  BY <1>1, <1>2, <1>3, <1>4, <1>5, <1>6, <1>7, <1>8, <1>9 DEF LM!Next

\* Whatever part of the installation is followed.
THEOREM RegistryInductive == Spec => []RegistryInv
<1>1. Init => RegistryInv
  BY RegistryInit DEF Init
<1>2. [Next]_vars => [LM!Next]_migrationVars
  BY DEF Next, vars, migrationVars
<1> QED
  BY <1>1, <1>2, RegistryStep, PTL DEF Spec

(***************************************************************************)
(* A migration report that nobody overtook is true of the destination, for *)
(* any legacy keys, however often migrate was run, failed or was killed    *)
(* since (migrate writes the report after the commit).                     *)
(***************************************************************************)
THEOREM ReportsAreTrue == Spec => []ReportIsTrue
<1>1. RegistryInv => ReportIsTrue
  BY DEF RegistryInv, ReportInv, Holds, ReportIsTrue, LM!ReportIsTrue
<1> QED
  BY <1>1, RegistryInductive, PTL

-----------------------------------------------------------------------------
(* Documents *)

JobPoints == {"idle", "authorize", "inspect", "extract", "create", "convert", "writing",
              "converting", "move", "reported"}

JobRows ==
    [pc : JobPoints, op : {"none", "inspect", "extract", "create", "convert"},
     source : Sources \cup {None}, output : Stems \cup {None}, since : Nat,
     alone : BOOLEAN, produced : BOOLEAN]

DocumentTypeOK ==
    /\ edition \in [Sources -> Nat]
    /\ files \in [Stems -> {None, Torn} \cup [of : Sources \cup {DO!TextOnly}, edition : Nat]]
    /\ job \in [Jobs -> JobRows]

\* The file f is source's, made when it had been edited so often or more.
MadeSince(f, source, since) ==
    /\ files[f] \in [of : Sources \cup {DO!TextOnly}, edition : Nat]
    /\ files[f].of = source /\ files[f].edition >= since

\* While a command that is alone is at work the others have ended; a conversion knows
\* its source and its output; and one that is alone owns what LibreOffice produced.
ConversionInv ==
    \A j \in Jobs :
        /\ ~DO!At(j, "idle") /\ job[j].alone => \A k \in Jobs \ {j} : DO!Ended(k)
        /\ ~DO!At(j, "idle") => job[j].op # "none"
        /\ job[j].op \notin {"none", "create"} => job[j].source \in Sources
        /\ job[j].pc \in {"convert", "converting", "move"} => job[j].op = "convert"
        /\ job[j].op = "convert" =>
              /\ job[j].source \in Sources /\ job[j].output \in Stems
              /\ job[j].since <= edition[job[j].source]
        /\ job[j].produced /\ job[j].alone /\ job[j].op = "convert" =>
              /\ DO!At(j, "move") => MadeSince(DO!Generated(j), job[j].source, job[j].since)
              /\ DO!At(j, "reported") => MadeSince(job[j].output, job[j].source, job[j].since)
        /\ job[j].produced => job[j].pc \in {"move", "reported"}

DocumentInv == DocumentTypeOK /\ ConversionInv

\* No command runs and nothing was made.
LEMMA DocumentInit == DO!Init => DocumentInv
BY DEF DO!Init, DO!Idle, DO!At, DO!Ended, DocumentInv, DocumentTypeOK, ConversionInv, JobRows,
    JobPoints

\* Job j goes to q with its other fields unchanged, and the other jobs stay.
JobMoved(j, q) ==
    /\ job' \in [Jobs -> JobRows] /\ job'[j].pc = q
    /\ job'[j].op = job[j].op /\ job'[j].source = job[j].source
    /\ job'[j].output = job[j].output /\ job'[j].since = job[j].since
    /\ job'[j].alone = job[j].alone /\ job'[j].produced = job[j].produced
    /\ \A k \in Jobs \ {j} : job'[k] = job[k]

JobFailed(j) ==
    /\ job' \in [Jobs -> JobRows] /\ job'[j] = DO!Idle
    /\ \A k \in Jobs \ {j} : job'[k] = job[k]

LEMMA JobGoes ==
    ASSUME job \in [Jobs -> JobRows], NEW j \in Jobs, NEW q \in JobPoints, DO!Go(j, q)
    PROVE  JobMoved(j, q)
<1> DEFINE row == [job[j] EXCEPT !.pc = q]
<1>1. /\ row \in JobRows /\ row.pc = q /\ row.op = job[j].op /\ row.source = job[j].source
      /\ row.output = job[j].output /\ row.since = job[j].since
      /\ row.alone = job[j].alone /\ row.produced = job[j].produced
  BY DEF JobRows
<1>2. job' = [job EXCEPT ![j] = row]
  BY DEF DO!Go
<1> QED
  BY <1>1, <1>2 DEF JobMoved

LEMMA JobFails ==
    ASSUME job \in [Jobs -> JobRows], NEW j \in Jobs, DO!Fail(j)
    PROVE  JobFailed(j)
BY DEF DO!Fail, DO!Idle, JobFailed, JobRows, JobPoints

\* Every step of every command, and edits of the sources, preserve the invariant.
LEMMA DocumentStep == DocumentInv /\ [DO!Next]_documentVars => DocumentInv'
<1> USE DEF DocumentInv, DO!At, DO!Ended, DO!fileVars
<1>1. ASSUME DocumentInv, NEW j \in Jobs, NEW op \in {"inspect", "extract", "create", "convert"},
             NEW source \in Sources \cup {None}, NEW output \in Stems \cup {None},
             DO!Begin(j, op, source, output)
      PROVE  DocumentInv'
  <2> DEFINE lone == \A k \in Jobs \ {j} : DO!Ended(k)
             begun == [pc |-> "authorize", op |-> op, source |-> source, output |-> output,
                       since |-> IF source = None THEN 0 ELSE edition[source],
                       alone |-> lone, produced |-> FALSE]
  <2>1. job' = [k \in Jobs |-> IF k = j THEN begun ELSE [job[k] EXCEPT !.alone = FALSE]]
        /\ edition' = edition /\ files' = files
    BY <1>1 DEF DO!Begin
  <2>2. begun \in JobRows
    BY <1>1 DEF DocumentTypeOK, JobRows, JobPoints
  <2>3. ASSUME NEW k \in Jobs \ {j}
        PROVE  [job[k] EXCEPT !.alone = FALSE] \in JobRows
    BY <1>1 DEF DocumentTypeOK, JobRows
  <2>4. (op # "create" => source \in Sources) /\ (op = "convert" => output \in Stems)
    BY <1>1 DEF DO!Begin, DO!Resolves
  <2>5. DocumentTypeOK'
    BY <1>1, <2>1, <2>2, <2>3 DEF DocumentTypeOK
  <2>6. job'[j] = begun /\ \A k \in Jobs \ {j} : job'[k] = [job[k] EXCEPT !.alone = FALSE]
    BY <2>1
  <2>7. ConversionInv'
    BY <1>1, <2>1, <2>4, <2>5, <2>6 DEF DocumentTypeOK, ConversionInv, JobRows, MadeSince, DO!Generated
  <2> QED
    BY <2>5, <2>7
<1>2. ASSUME DocumentInv, NEW j \in Jobs, DO!AuthorizeAction(j) PROVE DocumentInv'
  <2>1. /\ (job[j].op \in JobPoints /\ JobMoved(j, job[j].op)) \/ JobFailed(j)
        /\ edition' = edition /\ files' = files /\ job[j].pc = "authorize"
    BY <1>2, JobGoes, JobFails DEF DO!AuthorizeAction, DocumentTypeOK, ConversionInv, JobRows,
       JobPoints
  <2> QED
    BY <1>2, <2>1 DEF DocumentTypeOK, ConversionInv, JobMoved, JobFailed, JobRows, MadeSince,
       DO!Generated, DO!Idle
<1>3. ASSUME DocumentInv, NEW j \in Jobs, DO!Inspect(j) PROVE DocumentInv'
  <2>1. /\ JobMoved(j, "reported") /\ job[j].pc \in {"inspect", "extract"}
        /\ edition' = edition /\ files' = files
    BY <1>3, JobGoes DEF DO!Inspect, DocumentTypeOK, JobPoints
  <2> QED
    BY <1>3, <2>1 DEF DocumentTypeOK, ConversionInv, JobMoved, JobFailed, JobRows, MadeSince,
       DO!Generated, DO!Idle
<1>4. ASSUME DocumentInv, NEW j \in Jobs, DO!WriteOutput(j) PROVE DocumentInv'
  <2>1. /\ job[j].pc \in {"extract", "create"} /\ edition' = edition
        /\ job[j].output # None
        /\ \/ JobMoved(j, "writing") /\ files' = [files EXCEPT ![job[j].output] = Torn]
           \/ JobFailed(j) /\ files' = files
    BY <1>4, JobGoes, JobFails DEF DO!WriteOutput, DocumentTypeOK, JobPoints
  <2>2. DocumentTypeOK'
    BY <1>4, <2>1 DEF DocumentTypeOK, JobMoved, JobFailed
  <2>3. \A k \in Jobs \ {j} : job[k].pc = "idle" \/ ~job[k].alone
    BY <1>4, <2>1 DEF ConversionInv
  <2>4. ConversionInv'
    BY <1>4, <2>1, <2>3 DEF DocumentTypeOK, ConversionInv, JobMoved, JobFailed, JobRows, MadeSince,
       DO!Generated, DO!Idle
  <2> QED
    BY <2>2, <2>4
<1>5. ASSUME DocumentInv, NEW j \in Jobs, DO!WriteFinish(j) PROVE DocumentInv'
  <2> DEFINE made == IF job[j].op = "create" THEN DO!Made(DO!TextOnly, 0)
                     ELSE DO!Made(job[j].source, edition[job[j].source])
  <2>1. /\ JobMoved(j, "reported") /\ job[j].pc = "writing" /\ edition' = edition
        /\ files' = [files EXCEPT ![job[j].output] = made]
    BY <1>5, JobGoes DEF DO!WriteFinish, DocumentTypeOK, JobPoints
  <2>2. made \in [of : Sources \cup {DO!TextOnly}, edition : Nat]
    BY <1>5, <2>1 DEF DocumentTypeOK, ConversionInv, DO!Made, DO!TextOnly
  <2> HIDE DEF made
  <2>3. DocumentTypeOK'
    BY <1>5, <2>1, <2>2 DEF DocumentTypeOK, JobMoved
  <2>4. \A k \in Jobs \ {j} : job[k].pc = "idle" \/ ~job[k].alone
    BY <1>5, <2>1 DEF ConversionInv
  <2>5. ConversionInv'
    BY <1>5, <2>1, <2>4 DEF DocumentTypeOK, ConversionInv, JobMoved, JobFailed, JobRows, MadeSince,
       DO!Generated, DO!Idle
  <2> QED
    BY <2>3, <2>5
<1>6. ASSUME DocumentInv, NEW j \in Jobs, DO!Soffice(j) PROVE DocumentInv'
  <2>1. /\ job[j].pc = "convert" /\ edition' = edition
        /\ \/ JobFailed(j) /\ files' = files
           \/ JobMoved(j, "move") /\ files' = files
           \/ JobMoved(j, "converting") /\ files' = [files EXCEPT ![DO!Generated(j)] = Torn]
    BY <1>6, JobGoes, JobFails DEF DO!Soffice, DocumentTypeOK, JobPoints
  <2> QED
    BY <1>6, <2>1, DocumentConstants DEF DocumentTypeOK, ConversionInv, JobMoved, JobFailed, JobRows, MadeSince,
       DO!Generated, DO!Idle
<1>7. ASSUME DocumentInv, NEW j \in Jobs, DO!SofficeFinish(j) PROVE DocumentInv'
  <2>1. job[j].pc = "converting" /\ edition' = edition
    BY <1>7 DEF DO!SofficeFinish
  <2>2. CASE DO!Fail(j) /\ files' = files
    BY <1>7, <2>1, <2>2, JobFails DEF DocumentTypeOK, ConversionInv, JobMoved, JobFailed, JobRows, MadeSince,
       DO!Generated, DO!Idle
  <2>3. CASE /\ files' = [files EXCEPT ![DO!Generated(j)] =
                            DO!Made(job[j].source, edition[job[j].source])]
             /\ job' = [job EXCEPT ![j].pc = "move", ![j].produced = TRUE]
    BY <1>7, <2>1, <2>3, DocumentConstants DEF DocumentTypeOK, ConversionInv, JobMoved, JobFailed, JobRows, MadeSince,
       DO!Generated, DO!Idle, DO!Made, JobPoints
  <2> QED
    BY <1>7, <2>2, <2>3 DEF DO!SofficeFinish
<1>8. ASSUME DocumentInv, NEW j \in Jobs, DO!Move(j) PROVE DocumentInv'
  <2> DEFINE output == job[j].output
             own == DO!Generated(j)
  <2>1. job[j].pc = "move" /\ edition' = edition /\ job[j].op = "convert"
    BY <1>8 DEF DO!Move, ConversionInv
  <2>2. own \in Stems /\ output \in Stems /\ job[j].source \in Sources
    BY <1>8, <2>1, DocumentConstants DEF ConversionInv, DO!Generated
  <2>3. /\ files' = IF own # output /\ files[own] # None
                    THEN [files EXCEPT ![output] = files[own], ![own] = None] ELSE files
        /\ IF files'[output] = None THEN DO!Fail(j) ELSE DO!Go(j, "reported")
    BY <1>8 DEF DO!Move
  <2> HIDE DEF own, output
  <2>4. files' \in [Stems -> {None, Torn} \cup [of : Sources \cup {DO!TextOnly}, edition : Nat]]
    BY <1>8, <2>2, <2>3 DEF DocumentTypeOK
  <2>5. files[own] # None => files'[output] = files[own]
    BY <1>8, <2>2, <2>3 DEF DocumentTypeOK
  <2>6. \A k \in Jobs \ {j} : job[k].pc = "idle" \/ ~job[k].alone
    BY <1>8, <2>1 DEF ConversionInv
  <2>7. CASE files'[output] = None
    <3>1. JobFailed(j)
      BY <1>8, <2>3, <2>7, JobFails DEF DocumentTypeOK
    <3>2. DocumentTypeOK'
      BY <1>8, <2>1, <2>4, <3>1 DEF DocumentTypeOK, JobFailed
    <3>3. ConversionInv'
      BY <1>8, <2>1, <2>6, <3>1 DEF DocumentTypeOK, ConversionInv, JobMoved, JobFailed, JobRows, MadeSince,
       DO!Generated, DO!Idle
    <3> QED
      BY <3>2, <3>3
  <2>8. CASE files'[output] # None
    <3>1. JobMoved(j, "reported")
      BY <1>8, <2>3, <2>8, JobGoes DEF DocumentTypeOK, JobPoints
    <3>2. DocumentTypeOK'
      BY <1>8, <2>1, <2>4, <3>1 DEF DocumentTypeOK, JobMoved
    <3>3. ASSUME job[j].produced, job[j].alone
          PROVE  /\ files'[output] \in [of : Sources \cup {DO!TextOnly}, edition : Nat]
                 /\ files'[output].of = job[j].source /\ files'[output].edition >= job[j].since
      <4>1. MadeSince(own, job[j].source, job[j].since)
        BY <1>8, <2>1, <3>3 DEF ConversionInv, own
      <4>2. files[own] # None
        BY <4>1, DocumentConstants DEF MadeSince
      <4> QED
        BY <2>5, <4>1, <4>2 DEF MadeSince
    <3>4. ConversionInv'
      BY <1>8, <2>1, <2>2, <2>6, <3>1, <3>3 DEF DocumentTypeOK, ConversionInv, JobMoved, JobFailed, JobRows, MadeSince,
       DO!Generated, DO!Idle, output
    <3> QED
      BY <3>2, <3>4
  <2> QED
    BY <2>7, <2>8
<1>9. ASSUME DocumentInv, NEW j \in Jobs, DO!End(j) PROVE DocumentInv'
  <2>1. JobFailed(j) /\ edition' = edition /\ files' = files
    BY <1>9, JobFails DEF DO!End, DocumentTypeOK
  <2> QED
    BY <1>9, <2>1 DEF DocumentTypeOK, ConversionInv, JobMoved, JobFailed, JobRows, MadeSince,
       DO!Generated, DO!Idle
<1>10. ASSUME DocumentInv, NEW s \in Sources, DO!EditSource(s) PROVE DocumentInv'
  BY <1>10 DEF DO!EditSource, DocumentTypeOK, ConversionInv, JobRows, MadeSince, DO!Generated
<1>11. ASSUME DocumentInv, UNCHANGED documentVars PROVE DocumentInv'
  BY <1>11 DEF documentVars, DocumentTypeOK, ConversionInv, MadeSince, DO!Generated
<1> QED
  BY <1>1, <1>2, <1>3, <1>4, <1>5, <1>6, <1>7, <1>8, <1>9, <1>10, <1>11 DEF DO!Next

\* Whatever part of the installation is followed.
THEOREM DocumentInductive == Spec => []DocumentInv
<1>1. Init => DocumentInv
  BY DocumentInit DEF Init
<1>2. [Next]_vars => [DO!Next]_documentVars
  BY DEF Next, vars, documentVars
<1> QED
  BY <1>1, <1>2, DocumentStep, PTL DEF Spec

(***************************************************************************)
(* A conversion that ran by itself and got a result from LibreOffice       *)
(* reports success only with its own source, as new as when it began, at   *)
(* its output, for any jobs, sources and names (convert_document).         *)
(***************************************************************************)
THEOREM ConversionsReportTheirOwn == Spec => []ConvertedIsOwn
<1>1. DocumentInv => ConvertedIsOwn
  BY DocumentConstants DEF DocumentInv, ConversionInv, DocumentTypeOK, JobRows, MadeSince,
     ConvertedIsOwn, DO!ConvertedIsOwn, DO!At
<1> QED
  BY <1>1, DocumentInductive, PTL

-----------------------------------------------------------------------------
(* Release *)

\* The steps of a build, one by one.
LEMMA StepNames ==
    /\ Len(RB!Steps) = IF args.compiler = "supplied" THEN 16 ELSE 12
    /\ RB!Steps[1] = "wheel" /\ RB!Steps[2] = "payload" /\ RB!Steps[3] = "bundle"
    /\ RB!Steps[4] = "innoManifest" /\ RB!Steps[5] = "standard" /\ RB!Steps[6] = "enterprise"
    /\ RB!Steps[7] = "sbom" /\ RB!Steps[8] = "provenance" /\ RB!Steps[9] = "release"
    /\ RB!Steps[10] = "update" /\ RB!Steps[11] = "rollback"
    /\ args.compiler = "supplied" => /\ RB!Steps[12] = "exeStandard" /\ RB!Steps[13] = "sign"
                        /\ RB!Steps[14] = "exeEnterprise" /\ RB!Steps[15] = "sign"
                        /\ RB!Steps[16] = "compileManifest"
    /\ args.compiler # "supplied" => RB!Steps[12] = "compileManifest"
  BY DEF RB!Steps

\* What each file of the release directory holds.
LEMMA FileContents ==
    /\ RB!ContentsOf("wheel") = RB!WheelFile
    /\ RB!ContentsOf("provenance") = RB!WheelFile
    /\ RB!ContentsOf("payload") = RB!PayloadFile
    /\ RB!ContentsOf("bundle") = RB!BundleFile
    /\ RB!ContentsOf("innoManifest") = RB!InnoManifestFile
    /\ RB!ContentsOf("standard") = RB!ScriptFile
    /\ RB!ContentsOf("enterprise") = RB!ScriptFile
    /\ RB!ContentsOf("exeStandard") = RB!InstallerFile
    /\ RB!ContentsOf("exeEnterprise") = RB!InstallerFile
    /\ RB!ContentsOf("sbom") = [build : Nat, components : SUBSET RB!ArtifactFile]
    /\ RB!ContentsOf("release") =
         [build : Nat, artifacts : [RB!Artifacts -> RB!ArtifactFile], bundle : RB!BundleFile]
    /\ RB!ContentsOf("update") = [build : Nat, artifact : RB!BundleFile]
    /\ RB!ContentsOf("rollback") = [build : Nat, artifact : RB!WheelFile]
  BY DEF RB!ContentsOf, RB!Installers

\* A file that is neither absent nor broken has contents, and contents are no mark.
LEMMA WholeIsContents ==
    ASSUME NEW f \in RB!Files, dir[f] \in RB!ContentsOf(f) \cup {None, Torn, Altered}
    PROVE  RB!Whole(dir[f]) <=> dir[f] \in RB!ContentsOf(f)
  BY ReleaseConstants DEF RB!Whole

-----------------------------------------------------------------------------
Written(f) == dir[f] \in RB!ContentsOf(f)

\* The build in hand, or the undamaged result of the newest one, is past step i.
Past(i) == step > i \/ (step = 0 /\ outcome = "ok" /\ ~damaged)

ReleaseTypes ==
    /\ args \in RB!Args /\ step \in 0..Len(RB!Steps) /\ build \in Nat
    /\ outcome \in {"none", "ok", "error"} /\ (step > 0 => outcome = "none")
    /\ dir = [f \in RB!Files |-> dir[f]]
    /\ \A f \in RB!Files : dir[f] \in RB!ContentsOf(f) \cup {None, Torn, Altered}

\* While a build runs its directory has no broken file, and what it has
\* written, the installer it is about to sign included, is there.
ReleaseProgress ==
    /\ Past(0) => \A f \in RB!Files : Written(f) \/ dir[f] = None
    /\ \A i \in 1..11 : Past(i) => Written(RB!Steps[i])
    /\ step \in {13, 15} => Written(RB!Steps[step - 1])

\* Every file is the newest build's.
ReleaseOfBuild == \A f \in RB!Files : Written(f) => dir[f].build = build

\* What a build without a compiler has written agrees.
ReleaseUncompiled ==
    args.compiler = "absent" =>
        /\ Past(0) => dir["exeStandard"] = None /\ dir["exeEnterprise"] = None
        /\ Past(2) => \E q \in {"ready", "blocked"} : dir["payload"] = RB!Payload(args, q)
        /\ Past(3) => dir["bundle"].payload = dir["payload"]
        /\ Past(4) => dir["innoManifest"] = RB!InnoManifest
        /\ Past(9) => dir["release"].artifacts = RB!ArtifactDigests
        /\ Past(10) => dir["update"].artifact = dir["bundle"]
        /\ Past(11) => dir["rollback"].artifact = dir["wheel"]

ReleaseVerdict ==
    verdict = "accepted" => \E host \in {"win32", "linux"} : RB!Accepts(dir, host)

ReleaseInv ==
    ReleaseTypes /\ ReleaseProgress /\ ReleaseOfBuild /\ ReleaseUncompiled /\ ReleaseVerdict

LEMMA ReleaseInit ==
    ASSUME RB!Init
    PROVE  ReleaseInv
<1> USE DEF RB!Init
<1>1. ~Past(0) /\ \A i \in 1..11 : ~Past(i)
  BY DEF Past
<1>2. ReleaseTypes
  <2>1. step \in 0..Len(RB!Steps)
    BY StepNames
  <2> QED
    BY <2>1, ReleaseConstants DEF ReleaseTypes
<1>3. ReleaseProgress
  BY <1>1 DEF ReleaseProgress
<1>4. ReleaseOfBuild
  BY ReleaseConstants DEF ReleaseOfBuild, Written
<1>5. ReleaseUncompiled
  BY <1>1 DEF ReleaseUncompiled, Past
<1>6. ReleaseVerdict
  BY DEF ReleaseVerdict
<1> QED
  BY <1>2, <1>3, <1>4, <1>5, <1>6 DEF ReleaseInv

\* A step of the build follows the one before it.
LEMMA AdvancePast ==
    ASSUME ReleaseInv, step > 0, RB!Advance
    PROVE  /\ RB!Steps' = RB!Steps /\ step \in 1..16 /\ args.compiler \in {"absent", "unavailable", "supplied"}
           /\ step' \in 0..Len(RB!Steps) /\ outcome' \in {"none", "ok"}
           /\ step' > 0 => outcome' = "none" /\ step' = step + 1
           /\ \A i \in 0..11 : Past(i)' => Past(i) \/ i = step
<1> DEFINE n == Len(RB!Steps)
<1>0. n \in {12, 16} /\ step \in 0..n /\ outcome = "none"
  BY StepNames DEF ReleaseInv, ReleaseTypes
<1> HIDE DEF n
<1>1. n \in Nat /\ n >= 12 /\ n <= 16 /\ step \in 1..n /\ outcome = "none"
  BY <1>0
<1>2. args.compiler \in {"absent", "unavailable", "supplied"}
  BY DEF ReleaseInv, ReleaseTypes, RB!Args
<1>3. RB!Steps' = RB!Steps
  BY DEF RB!Steps, RB!Advance
<1>4. step \in 1..16
  BY <1>1
<1>5. \/ step < n /\ step' = step + 1 /\ outcome' = "none"
      \/ step = n /\ step' = 0 /\ outcome' = "ok"
  <2>1. /\ step' = IF step = n THEN 0 ELSE step + 1
        /\ outcome' = IF step = n THEN "ok" ELSE outcome
    BY DEF RB!Advance, n
  <2> QED
    BY <1>1, <2>1
<1>6. step' \in 0..n
  BY <1>1, <1>5
<1>7. ASSUME NEW i \in 0..11, Past(i)' PROVE Past(i) \/ i = step
  BY <1>1, <1>5, <1>7 DEF Past
<1> QED
  BY <1>2, <1>3, <1>4, <1>5, <1>6, <1>7 DEF n

\* A file written with the build's contents leaves the other files as they were.
LEMMA FileWritten ==
    ASSUME ReleaseInv, NEW f \in RB!Files, NEW c \in RB!ContentsOf(f), c.build = build,
           dir' = [dir EXCEPT ![f] = c], build' = build
    PROVE  /\ dir' = [g \in RB!Files |-> dir'[g]] /\ dir'[f] = c
           /\ \A g \in RB!Files \ {f} : dir'[g] = dir[g]
           /\ \A g \in RB!Files : dir'[g] \in RB!ContentsOf(g) \cup {None, Torn, Altered}
           /\ \A g \in RB!Files : Written(g) => Written(g)'
           /\ Past(0) => \A g \in RB!Files : Written(g)' \/ dir'[g] = None
           /\ ReleaseOfBuild'
<1>1. /\ dir' = [g \in RB!Files |-> dir'[g]] /\ dir'[f] = c
      /\ \A g \in RB!Files \ {f} : dir'[g] = dir[g]
  BY DEF ReleaseInv, ReleaseTypes
<1>2. \A g \in RB!Files : dir[g] \in RB!ContentsOf(g) \cup {None, Torn, Altered}
  BY DEF ReleaseInv, ReleaseTypes
<1>3. Past(0) => \A g \in RB!Files : Written(g) \/ dir[g] = None
  BY DEF ReleaseInv, ReleaseProgress
<1>4. \A g \in RB!Files : Written(g) => dir[g].build = build
  BY DEF ReleaseInv, ReleaseOfBuild
<1> QED
  BY <1>1, <1>2, <1>3, <1>4 DEF Written, ReleaseOfBuild

\* What follows from any step of the build that writes its file.
LEMMA StepWritten ==
    ASSUME ReleaseInv, step > 0, RB!Advance, NEW f \in RB!Files, NEW c \in RB!ContentsOf(f),
           c.build = build, dir' = [dir EXCEPT ![f] = c],
           step \in 1..11 => f = RB!Steps[step],
           RB!Steps[step] \notin RB!Installers
    PROVE  ReleaseTypes' /\ ReleaseProgress' /\ ReleaseOfBuild' /\ ReleaseVerdict'
<1>1. build' = build /\ args' = args /\ verdict' = "none"
  BY DEF RB!Advance
<1>2. /\ dir' = [g \in RB!Files |-> dir'[g]]
      /\ \A g \in RB!Files : dir'[g] \in RB!ContentsOf(g) \cup {None, Torn, Altered}
      /\ \A g \in RB!Files : Written(g) => Written(g)'
      /\ Past(0) => \A g \in RB!Files : Written(g)' \/ dir'[g] = None
      /\ ReleaseOfBuild' /\ Written(f)'
  BY <1>1, FileWritten DEF Written
<1>3. ReleaseTypes'
  BY <1>1, <1>2, AdvancePast DEF ReleaseInv, ReleaseTypes
<1>4. ReleaseProgress'
  <2>1. Past(0)
    BY DEF Past
  <2>2. ASSUME NEW i \in 1..11, Past(i)' PROVE Written(RB!Steps[i])'
    <3>1. RB!Steps[i] \in RB!Files /\ RB!Steps'[i] = RB!Steps[i]
      BY StepNames, AdvancePast DEF RB!Files, RB!Artifacts, RB!Manifests
    <3>2. Past(i) => Written(RB!Steps[i])
      BY DEF ReleaseInv, ReleaseProgress
    <3> QED
      BY <2>2, <3>1, <3>2, <1>2, AdvancePast DEF Written
  <2>3. step' \notin {13, 15}
    BY StepNames, AdvancePast DEF RB!Installers, ReleaseInv, ReleaseTypes
  <2> QED
    BY <1>2, <2>1, <2>2, <2>3 DEF ReleaseProgress
<1>5. ReleaseVerdict'
  BY <1>1 DEF ReleaseVerdict
<1> QED
  BY <1>2, <1>3, <1>4, <1>5

\* What a build without a compiler found in agreement still agrees when a step
\* leaves the files concerned alone.
LEMMA UncompiledKept ==
    ASSUME ReleaseInv, step > 0, RB!Advance, NEW f \in RB!Files, NEW c,
           dir' = [dir EXCEPT ![f] = c], args.compiler = "absent", f \notin RB!Installers
    PROVE  /\ step \in 1..12 /\ build' = build /\ args' = args
           /\ dir'[f] = c /\ \A g \in RB!Files \ {f} : dir'[g] = dir[g]
           /\ dir'["exeStandard"] = None /\ dir'["exeEnterprise"] = None
           /\ \A i \in 1..11 : step > i => Written(RB!Steps[i])
           /\ step > 2 => \E q \in {"ready", "blocked"} : dir["payload"] = RB!Payload(args, q)
           /\ step > 3 => dir["bundle"].payload = dir["payload"]
           /\ step > 4 => dir["innoManifest"] = RB!InnoManifest
           /\ step > 9 => dir["release"].artifacts = RB!ArtifactDigests
           /\ step > 10 => dir["update"].artifact = dir["bundle"]
           /\ step > 11 => dir["rollback"].artifact = dir["wheel"]
<1>1. /\ dir'[f] = c /\ \A g \in RB!Files \ {f} : dir'[g] = dir[g]
  BY DEF ReleaseInv, ReleaseTypes
<1>2. dir["exeStandard"] = None /\ dir["exeEnterprise"] = None
  BY DEF ReleaseInv, ReleaseUncompiled, Past
<1>3. "exeStandard" \in RB!Files \ {f} /\ "exeEnterprise" \in RB!Files \ {f}
  BY DEF RB!Files, RB!Installers
<1>4. step \in 1..12
  BY StepNames DEF ReleaseInv, ReleaseTypes
<1>5. build' = build /\ args' = args
  BY DEF RB!Advance
<1>6. \A i \in 1..11 : step > i => Past(i)
  BY DEF Past
<1>7. \A i \in 1..11 : step > i => Written(RB!Steps[i])
  BY <1>6 DEF ReleaseInv, ReleaseProgress
<1>8. ReleaseUncompiled
  BY DEF ReleaseInv
<1> QED
  BY <1>1, <1>2, <1>3, <1>4, <1>5, <1>6, <1>7, <1>8 DEF ReleaseUncompiled

\* The payload is the same function of the command line and the build.
LEMMA PayloadIsFile ==
    ASSUME ReleaseTypes, NEW q \in {"ready", "blocked"}
    PROVE  /\ RB!Payload(args, q) \in RB!PayloadFile
           /\ RB!Payload(args, q).build = build
<1>1. args \in RB!Args /\ build \in Nat
  BY DEF ReleaseTypes
<1>2. \A s \in Slots : RB!RemoveCaches(RB!StageService(args, s)) \in
         [included : BOOLEAN, recorded : RB!Trees, tree : RB!Trees, tests : BOOLEAN]
  BY <1>1 DEF RB!RemoveCaches, RB!StageService, RB!Trees
<1>3. [s \in Slots |-> RB!RemoveCaches(RB!StageService(args, s))] \in
         [Slots -> [included : BOOLEAN, recorded : RB!Trees, tree : RB!Trees, tests : BOOLEAN]]
  BY <1>2
<1>4. RB!QualificationMode(args) \in {"production", "local_smoke_blocked"}
  BY DEF RB!QualificationMode
<1>5. /\ RB!StagePython(args) \in {"local_smoke_external_fallback", "included"}
      /\ RB!StageHermes(args) \in {"missing_blocked", "wheelhouse_artifact_included"}
      /\ RB!StageWheelhouse(args) \in {"missing_blocked", "included"}
      /\ RB!Materialized(args) \in {"conflict", "materialized"}
      /\ RB!StageIcon(args) \in {"not_configured", "included"}
      /\ RB!StageSkills(args) \in [included : BOOLEAN, tests : BOOLEAN]
  BY DEF RB!StagePython, RB!StageHermes, RB!StageWheelhouse, RB!Materialized, RB!StageIcon,
         RB!StageSkills
<1>6. RB!ComponentReadiness(args) \in RB!ReadinessEntries
  BY <1>5 DEF RB!ComponentReadiness, RB!ReadinessEntries
<1> QED
  BY <1>1, <1>3, <1>4, <1>5, <1>6 DEF RB!Payload, RB!PayloadFile

LEMMA WriteWheelKeeps ==
    ASSUME ReleaseInv, RB!WriteWheel
    PROVE  ReleaseInv'
<1>1. step > 0 /\ RB!Advance /\ dir' = [dir EXCEPT !["wheel"] = RB!BuildWheel]
  BY DEF RB!WriteWheel
<1>2. step = 1
  <2>1. RB!Steps[step] = "wheel" /\ step \in 1..16
    BY <1>1, AdvancePast DEF RB!WriteWheel
  <2> QED
    BY <2>1, StepNames, <1>1 DEF ReleaseInv, ReleaseTypes
<1>3. "wheel" \in RB!Files /\ RB!BuildWheel \in RB!ContentsOf("wheel") /\ RB!BuildWheel.build = build
  BY FileContents
     DEF RB!Files, RB!Artifacts, RB!BuildWheel, RB!WheelFile, ReleaseInv, ReleaseTypes
<1>4. RB!Steps[step] = "wheel" /\ "wheel" \notin RB!Installers
  BY StepNames, <1>2 DEF RB!Installers
<1>5. ReleaseTypes' /\ ReleaseProgress' /\ ReleaseOfBuild' /\ ReleaseVerdict'
  BY <1>1, <1>3, <1>4, StepWritten
<1>6. ReleaseUncompiled'
  <2>1. step' = 2
    BY <1>1, <1>2, StepNames DEF RB!Advance
  <2>2. \A i \in 1..11 : Past(i)' => i = 1
    BY <2>1 DEF Past
  <2>3. args' = args
    BY <1>1 DEF RB!Advance
  <2>4. ASSUME args.compiler = "absent" PROVE dir'["exeStandard"] = None /\ dir'["exeEnterprise"] = None
    BY <1>1, <1>3, <1>4, <2>4, UncompiledKept
  <2> QED
    BY <2>2, <2>3, <2>4 DEF ReleaseUncompiled
<1> QED
  BY <1>5, <1>6 DEF ReleaseInv

\* Where in the build each step comes.
LEMMA StepPlace ==
    ASSUME ReleaseInv, step > 0
    PROVE  /\ RB!Steps[step] = "wheel" => step = 1
           /\ RB!Steps[step] = "payload" => step = 2
           /\ RB!Steps[step] \in RB!Installers => args.compiler = "supplied" /\ step \in {12, 14}
           /\ RB!Steps[step] = "sign" => args.compiler = "supplied" /\ step \in {13, 15}
           /\ RB!Steps[step] \notin {"wheel", "payload", "sign"} \cup RB!Installers =>
                step \in 3..11 \/ RB!Steps[step] = "compileManifest"
           /\ RB!Steps[step] = "compileManifest" => step = Len(RB!Steps)
           /\ args.compiler # "supplied" => (RB!Steps[step] = "compileManifest" => step = 12)
<1>1. step \in 1..Len(RB!Steps)
  BY DEF ReleaseInv, ReleaseTypes
<1>2. CASE args.compiler = "supplied"
  <2>1. step \in 1..16
    BY <1>1, <1>2, StepNames
  <2> QED
    BY <1>2, <2>1, StepNames DEF RB!Installers
<1>3. CASE args.compiler # "supplied"
  <2>1. step \in 1..12
    BY <1>1, <1>3, StepNames
  <2> QED
    BY <1>3, <2>1, StepNames DEF RB!Installers
<1> QED
  BY <1>2, <1>3

LEMMA WritePayloadKeeps ==
    ASSUME ReleaseInv, RB!WritePayload
    PROVE  ReleaseInv'
<1>1. PICK q \in {"ready", "blocked"} :
         step > 0 /\ RB!Advance /\ dir' = [dir EXCEPT !["payload"] = RB!Payload(args, q)]
  BY DEF RB!WritePayload, RB!Qualifications
<1>2. step = 2 /\ RB!Steps[step] = "payload"
  BY <1>1, StepPlace DEF RB!WritePayload
<1>3. /\ RB!Payload(args, q) \in RB!ContentsOf("payload")
      /\ RB!Payload(args, q).build = build
  BY FileContents, PayloadIsFile DEF ReleaseInv
<1>4. "payload" \in RB!Files /\ "payload" \notin RB!Installers
  BY DEF RB!Files, RB!Installers
<1>5. ReleaseTypes' /\ ReleaseProgress' /\ ReleaseOfBuild' /\ ReleaseVerdict'
  BY <1>1, <1>2, <1>3, <1>4, StepWritten
<1>6. ReleaseUncompiled'
  <2>1. step' = 3
    BY <1>1, <1>2, StepNames DEF RB!Advance
  <2>2. \A i \in 1..11 : Past(i)' => i <= 2
    BY <2>1 DEF Past
  <2>3. args' = args /\ build' = build
    BY <1>1 DEF RB!Advance
  <2>4. ASSUME args.compiler = "absent"
        PROVE  /\ dir'["exeStandard"] = None /\ dir'["exeEnterprise"] = None
               /\ dir'["payload"] = RB!Payload(args, q)
    BY <1>1, <1>4, <2>4, UncompiledKept
  <2>5. RB!Payload(args, q)' = RB!Payload(args, q)
    BY <2>3 DEF RB!Payload
  <2> QED
    BY <2>2, <2>3, <2>4, <2>5 DEF ReleaseUncompiled
<1> QED
  BY <1>5, <1>6 DEF ReleaseInv

\* What the later steps write has the form of their file and the mark of the build.
LEMMA ContentIsFile ==
    ASSUME ReleaseInv, step \in 3..11
    PROVE  /\ RB!Steps[step] \in RB!Files /\ RB!Target(RB!Steps[step]) = RB!Steps[step]
           /\ RB!Content(RB!Steps[step]) \in RB!ContentsOf(RB!Steps[step])
           /\ RB!Content(RB!Steps[step]).build = build
<1>1. build \in Nat
  BY DEF ReleaseInv, ReleaseTypes
<1>2. \A i \in 1..11 : step > i => Written(RB!Steps[i])
  BY DEF ReleaseInv, ReleaseProgress, Past
<1>3. /\ step > 1 => dir["wheel"] \in RB!WheelFile
      /\ step > 2 => dir["payload"] \in RB!PayloadFile
      /\ step > 3 => dir["bundle"] \in RB!BundleFile
      /\ step > 4 => dir["innoManifest"] \in RB!InnoManifestFile
      /\ step > 5 => dir["standard"] \in RB!ScriptFile
      /\ step > 6 => dir["enterprise"] \in RB!ScriptFile
  BY <1>2, StepNames, FileContents DEF Written
<1>4. CASE step = 3
  <2>1. RB!Bundle \in RB!BundleFile /\ RB!Bundle.build = build
    BY <1>1, <1>3, <1>4 DEF RB!Bundle, RB!BundleFile
  <2> QED
    BY <1>4, <2>1, StepNames, FileContents DEF RB!Files, RB!Artifacts, RB!Target, RB!Content
<1>5. CASE step = 4
  <2>1. RB!InnoManifest \in RB!InnoManifestFile /\ RB!InnoManifest.build = build
    BY <1>1, <1>3, <1>5 DEF RB!InnoManifest, RB!InnoManifestFile, RB!PayloadFile
  <2> QED
    BY <1>5, <2>1, StepNames, FileContents DEF RB!Files, RB!Artifacts, RB!Target, RB!Content
<1>6. CASE step \in {5, 6}
  <2>1. ASSUME NEW e \in {"standard", "enterprise"}
        PROVE  RB!InnoScript(e) \in RB!ScriptFile /\ RB!InnoScript(e).build = build
    BY <1>1, <1>3, <1>6 DEF RB!InnoScript, RB!ScriptFile, RB!PayloadFile
  <2>2. RB!Steps[step] \in {"standard", "enterprise"}
    BY <1>6, StepNames
  <2> QED
    BY <2>1, <2>2, FileContents DEF RB!Files, RB!Artifacts, RB!Target, RB!Content
<1>7. \A f \in RB!Artifacts : step > 6 => dir[f] \in RB!ArtifactFile
  BY <1>3 DEF RB!Artifacts, RB!ArtifactFile
<1>8. CASE step = 7
  <2>1. /\ RB!Sbom \in [build : Nat, components : SUBSET RB!ArtifactFile]
        /\ RB!Sbom.build = build
    BY <1>1, <1>7, <1>8 DEF RB!Sbom
  <2> QED
    BY <1>8, <2>1, StepNames, FileContents DEF RB!Files, RB!Target, RB!Content
<1>9. CASE step = 8
  <2>1. RB!Provenance \in RB!WheelFile /\ RB!Provenance.build = build
    BY <1>1 DEF RB!Provenance, RB!WheelFile
  <2> QED
    BY <1>9, <2>1, StepNames, FileContents DEF RB!Files, RB!Target, RB!Content
<1>10. CASE step = 9
  <2>1. RB!ArtifactDigests \in [RB!Artifacts -> RB!ArtifactFile]
    BY <1>7, <1>10 DEF RB!ArtifactDigests
  <2>2. /\ RB!ReleaseManifest \in
             [build : Nat, artifacts : [RB!Artifacts -> RB!ArtifactFile],
              bundle : RB!BundleFile]
        /\ RB!ReleaseManifest.build = build
    BY <1>1, <1>3, <1>10, <2>1 DEF RB!ReleaseManifest
  <2> QED
    BY <1>10, <2>2, StepNames, FileContents DEF RB!Files, RB!Manifests, RB!Target, RB!Content
<1>11. CASE step = 10
  <2>1. /\ RB!UpdateManifest \in [build : Nat, artifact : RB!BundleFile]
        /\ RB!UpdateManifest.build = build
    BY <1>1, <1>3, <1>11 DEF RB!UpdateManifest
  <2> QED
    BY <1>11, <2>1, StepNames, FileContents DEF RB!Files, RB!Manifests, RB!Target, RB!Content
<1>12. CASE step = 11
  <2>1. /\ RB!RollbackManifest \in [build : Nat, artifact : RB!WheelFile]
        /\ RB!RollbackManifest.build = build
    BY <1>1, <1>3, <1>12 DEF RB!RollbackManifest
  <2> QED
    BY <1>12, <2>1, StepNames, FileContents DEF RB!Files, RB!Manifests, RB!Target, RB!Content
<1> QED
  BY <1>4, <1>5, <1>6, <1>8, <1>9, <1>10, <1>11, <1>12

LEMMA ManifestIsFile ==
    ASSUME ReleaseInv, step \in 12..16
    PROVE  /\ RB!CompileManifest(args) \in RB!InnoManifestFile
           /\ RB!CompileManifest(args).build = build
           /\ args.compiler = "absent" => RB!CompileManifest(args) = dir["innoManifest"]
<1> DEFINE old == dir["innoManifest"]
           compiled == {f \in RB!Installers : dir[f] # None}
           smoke == compiled # {} /\ args.signtool = "absent" /\ args.allowUnsigned
           new == RB!CompileManifest(args)
           production == IF smoke THEN "local-smoke" ELSE old.production
           signing == IF smoke THEN "unsigned-local-smoke-only" ELSE old.signing
<1>1. new = [old EXCEPT !.compiler = args.compiler,
                        !.compiled = {dir[f] : f \in compiled},
                        !.signing = signing, !.production = production]
  BY DEF RB!CompileManifest
<1>2. old \in RB!InnoManifestFile
  <2>1. Written("innoManifest")
    BY StepNames DEF ReleaseInv, ReleaseProgress, Past
  <2> QED
    BY <2>1, FileContents DEF Written
<1>3. old.build = build
  BY <1>2, FileContents
     DEF ReleaseInv, ReleaseOfBuild, Written, RB!Files, RB!Artifacts
<1>4. {dir[f] : f \in compiled} \in SUBSET RB!InstallerFile
  <2>1. \A f \in RB!Installers : dir[f] \in RB!InstallerFile \/ dir[f] = None
    BY FileContents DEF ReleaseInv, ReleaseProgress, Written, Past, RB!Installers, RB!Files
  <2> QED
    BY <2>1
<1>5. args.compiler \in {"absent", "unavailable", "supplied"}
  BY DEF ReleaseInv, ReleaseTypes, RB!Args
<1>6. /\ signing \in {"external-release-signing-required", "unsigned-local-smoke-only"}
      /\ production \in {"production", "local_smoke_blocked", "local-smoke"}
  BY <1>2 DEF RB!InnoManifestFile
<1>7. ASSUME args.compiler = "absent" PROVE new = old
  <2>1. old = RB!InnoManifest
    BY <1>7 DEF ReleaseInv, ReleaseUncompiled, Past
  <2>2. old.compiler = "absent" /\ old.compiled = {}
    BY <2>1 DEF RB!InnoManifest
  <2>3. compiled = {}
    BY <1>7 DEF ReleaseInv, ReleaseUncompiled, Past, RB!Installers
  <2>4. {dir[f] : f \in compiled} = {} /\ signing = old.signing /\ production = old.production
    BY <2>3
  <2> HIDE DEF old, compiled, signing, production, new
  <2>5. new = [old EXCEPT !.compiler = old.compiler, !.compiled = old.compiled,
                          !.signing = old.signing, !.production = old.production]
    BY <1>1, <2>2, <2>4, <1>5, <1>7
  <2> QED
    BY <2>5, <1>2 DEF RB!InnoManifestFile
<1> HIDE DEF old, compiled, signing, production, new, smoke
<1>8. new \in RB!InnoManifestFile /\ new.build = old.build
  BY <1>1, <1>2, <1>4, <1>5, <1>6 DEF RB!InnoManifestFile
<1> QED
  BY <1>3, <1>7, <1>8 DEF new, old

\* The metadata of a build without a compiler, written one after the other, agrees.
LEMMA MetadataAgrees ==
    ASSUME ReleaseInv, step \in 3..11, RB!Advance, args.compiler = "absent",
           dir' = [dir EXCEPT ![RB!Steps[step]] = RB!Content(RB!Steps[step])]
    PROVE  ReleaseUncompiled'
<1> DEFINE f == RB!Steps[step]
           c == RB!Content(f)
<1>1. f \in RB!Files /\ f \notin RB!Installers /\ step > 0
  BY StepNames, ContentIsFile DEF RB!Installers
<1>2. /\ step \in 1..12 /\ build' = build /\ args' = args
      /\ dir'[f] = c /\ \A g \in RB!Files \ {f} : dir'[g] = dir[g]
      /\ dir'["exeStandard"] = None /\ dir'["exeEnterprise"] = None
      /\ step > 2 => \E q \in {"ready", "blocked"} : dir["payload"] = RB!Payload(args, q)
      /\ step > 3 => dir["bundle"].payload = dir["payload"]
      /\ step > 4 => dir["innoManifest"] = RB!InnoManifest
      /\ step > 9 => dir["release"].artifacts = RB!ArtifactDigests
      /\ step > 10 => dir["update"].artifact = dir["bundle"]
      /\ step > 11 => dir["rollback"].artifact = dir["wheel"]
  BY <1>1, UncompiledKept
<1>3. step' = step + 1
  BY StepNames DEF RB!Advance
<1>4. \A i \in 1..11 : Past(i)' => i <= step
  BY <1>3, <1>1 DEF Past
<1>5. {"wheel", "payload", "bundle", "innoManifest", "standard", "enterprise", "release",
       "update", "rollback"} \subseteq RB!Files
  BY DEF RB!Files, RB!Artifacts, RB!Manifests
<1>6. \E q \in {"ready", "blocked"} : dir'["payload"] = RB!Payload(args, q)'
  <2>1. f # "payload"
    BY StepNames
  <2> QED
    BY <2>1, <1>2, <1>5 DEF RB!Payload
<1>7. Past(3)' => dir'["bundle"].payload = dir'["payload"]
  <2>1. CASE step = 3
    BY <2>1, <1>2, <1>5, StepNames DEF RB!Content, RB!Bundle
  <2>2. CASE step > 3
    BY <2>2, <1>2, <1>5, StepNames
  <2> QED
    BY <2>1, <2>2
<1>8. Past(4)' => dir'["innoManifest"] = RB!InnoManifest'
  <2>1. f # "payload"
    BY StepNames
  <2>2. RB!InnoManifest' = RB!InnoManifest
    BY <2>1, <1>2, <1>5 DEF RB!InnoManifest
  <2>3. CASE step = 4
    BY <2>2, <2>3, <1>2, <1>5, StepNames DEF RB!Content
  <2>4. CASE step > 4
    BY <2>2, <2>4, <1>2, <1>5, StepNames
  <2> QED
    BY <2>3, <2>4, <1>4
<1>9. Past(9)' => dir'["release"].artifacts = RB!ArtifactDigests'
  <2>1. CASE step >= 9
    <3>1. RB!ArtifactDigests' = RB!ArtifactDigests
      BY <2>1, <1>2, <1>5, StepNames DEF RB!ArtifactDigests, RB!Artifacts
    <3>2. CASE step = 9
      BY <3>1, <3>2, <1>2, <1>5, StepNames DEF RB!Content, RB!ReleaseManifest
    <3>3. CASE step > 9
      BY <3>1, <3>3, <1>2, <1>5, StepNames
    <3> QED
      BY <2>1, <3>2, <3>3
  <2> QED
    BY <2>1, <1>4
<1>10. Past(10)' => dir'["update"].artifact = dir'["bundle"]
  <2>1. CASE step = 10
    BY <2>1, <1>2, <1>5, StepNames DEF RB!Content, RB!UpdateManifest
  <2>2. CASE step > 10
    BY <2>2, <1>2, <1>5, StepNames
  <2> QED
    BY <2>1, <2>2, <1>4
<1>11. Past(11)' => dir'["rollback"].artifact = dir'["wheel"]
  <2>1. CASE step = 11
    BY <2>1, <1>2, <1>5, StepNames DEF RB!Content, RB!RollbackManifest
  <2> QED
    BY <2>1, <1>4
<1> QED
  BY <1>2, <1>6, <1>7, <1>8, <1>9, <1>10, <1>11 DEF ReleaseUncompiled

LEMMA WriteStepKeeps ==
    ASSUME ReleaseInv, RB!WriteStep
    PROVE  ReleaseInv'
<1> DEFINE f == RB!Steps[step]
<1>1. /\ step > 0 /\ RB!Advance /\ f \notin {"wheel", "payload", "sign"} \cup RB!Installers
      /\ dir' = [dir EXCEPT ![RB!Target(f)] = RB!Content(f)]
  BY DEF RB!WriteStep
<1>2. step \in 3..11 \/ f = "compileManifest"
  BY <1>1, StepPlace
<1>3. CASE step \in 3..11
  <2>1. /\ f \in RB!Files /\ RB!Target(f) = f
        /\ RB!Content(f) \in RB!ContentsOf(f) /\ RB!Content(f).build = build
    BY <1>3, ContentIsFile
  <2>2. ReleaseTypes' /\ ReleaseProgress' /\ ReleaseOfBuild' /\ ReleaseVerdict'
    BY <1>1, <2>1, StepWritten
  <2>3. ASSUME args.compiler = "absent" PROVE ReleaseUncompiled'
    BY <1>1, <1>3, <2>1, <2>3, MetadataAgrees
  <2>4. args' = args
    BY <1>1 DEF RB!Advance
  <2> QED
    BY <2>2, <2>3, <2>4 DEF ReleaseInv, ReleaseUncompiled
<1>4. CASE f = "compileManifest"
  <2>1. step \in 12..16 /\ step \notin 1..11 /\ (args.compiler = "absent" => step = 12)
    BY <1>1, <1>4, StepPlace, StepNames, AdvancePast
  <2>2. RB!Target(f) = "innoManifest" /\ RB!Content(f) = RB!CompileManifest(args)
    BY <1>4 DEF RB!Target, RB!Content
  <2> DEFINE c == RB!CompileManifest(args)
  <2>3. /\ c \in RB!ContentsOf("innoManifest") /\ c.build = build
        /\ args.compiler = "absent" => c = dir["innoManifest"]
    BY <2>1, ManifestIsFile, FileContents
  <2>4. /\ "innoManifest" \in RB!Files /\ "innoManifest" \notin RB!Installers
        /\ dir' = [dir EXCEPT !["innoManifest"] = c]
    BY <1>1, <2>2 DEF RB!Files, RB!Artifacts, RB!Installers
  <2> HIDE DEF c
  <2>5. ReleaseTypes' /\ ReleaseProgress' /\ ReleaseOfBuild' /\ ReleaseVerdict'
    BY <1>1, <2>1, <2>3, <2>4, StepWritten
  <2>6. ASSUME args.compiler = "absent" PROVE ReleaseUncompiled'
    <3>1. dir' = dir
      BY <2>3, <2>4, <2>6 DEF ReleaseInv, ReleaseTypes
    <3>2. args' = args /\ build' = build
      BY <1>1 DEF RB!Advance
    <3>3. \A i \in 0..11 : Past(i)
      BY <2>1 DEF Past
    <3>4. /\ RB!InnoManifest' = RB!InnoManifest /\ RB!ArtifactDigests' = RB!ArtifactDigests
          /\ \A q : RB!Payload(args, q)' = RB!Payload(args, q)
      BY <3>1, <3>2 DEF RB!InnoManifest, RB!ArtifactDigests, RB!Payload
    <3> QED
      BY <3>1, <3>2, <3>3, <3>4 DEF ReleaseInv, ReleaseUncompiled
  <2>7. args' = args
    BY <1>1 DEF RB!Advance
  <2> QED
    BY <2>5, <2>6, <2>7 DEF ReleaseInv, ReleaseUncompiled
<1> QED
  BY <1>2, <1>3, <1>4

LEMMA CompileStepKeeps ==
    ASSUME ReleaseInv, RB!CompileStep
    PROVE  ReleaseInv'
<1> DEFINE f == RB!Steps[step]
<1>1. /\ step > 0 /\ f \in RB!Installers /\ verdict' = "none"
      /\ args' = args /\ build' = build /\ outcome' = outcome /\ damaged' = damaged
  BY DEF RB!CompileStep
<1>2. args.compiler = "supplied" /\ step \in {12, 14}
  BY <1>1, StepPlace
<1>3. RB!Steps' = RB!Steps /\ Len(RB!Steps) = 16
  BY <1>1, <1>2, StepNames DEF RB!Steps
<1>4. \A i \in 0..11 : Past(i)
  BY <1>2 DEF Past
<1>5. ReleaseVerdict' /\ ReleaseUncompiled'
  BY <1>1, <1>2 DEF ReleaseVerdict, ReleaseUncompiled
<1>6. f \in RB!Files
  BY <1>1 DEF RB!Files
<1>7. CASE step' = step + 1 /\ dir' = [dir EXCEPT ![f] = [build |-> build, signed |-> FALSE]]
  <2> DEFINE c == [build |-> build, signed |-> FALSE]
  <2>1. c \in RB!ContentsOf(f) /\ c.build = build
    BY <1>1, FileContents DEF RB!InstallerFile, RB!Installers, ReleaseInv, ReleaseTypes
  <2>2. dir' = [dir EXCEPT ![f] = c]
    BY <1>7
  <2> HIDE DEF c
  <2>3. /\ dir' = [g \in RB!Files |-> dir'[g]] /\ dir'[f] = c
        /\ \A g \in RB!Files : dir'[g] \in RB!ContentsOf(g) \cup {None, Torn, Altered}
        /\ \A g \in RB!Files : Written(g) => Written(g)'
        /\ Past(0) => \A g \in RB!Files : Written(g)' \/ dir'[g] = None
        /\ ReleaseOfBuild'
    BY <1>1, <1>6, <2>1, <2>2, FileWritten
  <2>4. ReleaseTypes'
    <3>1. step' \in 0..Len(RB!Steps) /\ outcome' = "none"
      BY <1>1, <1>2, <1>3, <1>7 DEF ReleaseInv, ReleaseTypes
    <3> QED
      BY <1>1, <1>3, <2>3, <3>1 DEF ReleaseInv, ReleaseTypes
  <2>5. \A i \in 1..11 : RB!Steps[i] \in RB!Files /\ Written(RB!Steps[i])
    BY <1>4, StepNames DEF RB!Files, RB!Artifacts, RB!Manifests, ReleaseInv, ReleaseProgress
  <2>6. \A i \in 1..11 : Written(RB!Steps[i])'
    BY <1>3, <2>3, <2>5 DEF Written
  <2>7. RB!Steps'[step' - 1] = f
    BY <1>2, <1>3, <1>7
  <2>8. Written(RB!Steps[step - 1])'
    BY <2>1, <2>3, <2>7 DEF Written
  <2>9. ReleaseProgress'
    BY <1>4, <2>3, <2>6, <2>8 DEF ReleaseProgress
  <2> QED
    BY <1>5, <2>3, <2>4, <2>9 DEF ReleaseInv
<1>8. CASE step' = step + 2 /\ dir' = dir
  <2>1. ReleaseTypes'
    BY <1>1, <1>2, <1>3, <1>8 DEF ReleaseInv, ReleaseTypes
  <2>2. ReleaseOfBuild'
    BY <1>1, <1>8 DEF ReleaseInv, ReleaseOfBuild, Written
  <2>3. \A i \in 1..11 : Written(RB!Steps[i])'
    BY <1>3, <1>4, <1>8 DEF ReleaseInv, ReleaseProgress, Written
  <2>4. Past(0) => \A g \in RB!Files : Written(g)' \/ dir'[g] = None
    BY <1>8 DEF ReleaseInv, ReleaseProgress, Written
  <2>5. ReleaseProgress'
    BY <1>2, <1>4, <1>8, <2>3, <2>4 DEF ReleaseProgress
  <2> QED
    BY <1>5, <2>1, <2>2, <2>5 DEF ReleaseInv
<1> QED
  BY <1>7, <1>8 DEF RB!CompileStep

LEMMA SignStepKeeps ==
    ASSUME ReleaseInv, RB!SignStep
    PROVE  ReleaseInv'
<1> DEFINE f == RB!Target("sign")
           signed == args.signtool = "supplied"
           c == [dir[f] EXCEPT !.signed = signed]
<1>1. /\ step > 0 /\ RB!Advance /\ RB!Steps[step] = "sign"
      /\ dir' = [dir EXCEPT ![f].signed = signed]
  BY DEF RB!SignStep
<1>2. args.compiler = "supplied" /\ step \in {13, 15}
  BY <1>1, StepPlace
<1>3. f = RB!Steps[step - 1] /\ f \in RB!Installers /\ f \in RB!Files
  BY <1>2, StepNames DEF RB!Target, RB!Installers, RB!Files
<1>4. Written(f)
  BY <1>2, <1>3 DEF ReleaseInv, ReleaseProgress
<1>5. dir[f] \in RB!InstallerFile /\ dir[f].build = build
  BY <1>3, <1>4, FileContents DEF Written, RB!Installers, ReleaseInv, ReleaseOfBuild
<1>6. signed \in BOOLEAN
  OBVIOUS
<1> HIDE DEF f, signed
<1>7. c \in RB!InstallerFile /\ c.build = build
  BY <1>5, <1>6 DEF RB!InstallerFile
<1>8. c \in RB!ContentsOf(f)
  BY <1>3, <1>7, FileContents DEF RB!Installers
<1>9. dir' = [dir EXCEPT ![f] = c]
  BY <1>1
<1> HIDE DEF c
<1>10. ReleaseTypes' /\ ReleaseProgress' /\ ReleaseOfBuild' /\ ReleaseVerdict'
  <2>1. RB!Steps[step] \notin RB!Installers /\ step \notin 1..11
    BY <1>1, <1>2 DEF RB!Installers
  <2> QED
    BY <1>1, <1>3, <1>7, <1>8, <1>9, <2>1, StepWritten
<1>11. ReleaseUncompiled'
  BY <1>1, <1>2 DEF RB!Advance, ReleaseUncompiled
<1> QED
  BY <1>10, <1>11 DEF ReleaseInv

\* Outside a build only the verdict, the outcome and broken files are at stake.
LEMMA IdleKeeps ==
    ASSUME ReleaseInv,
           step' = 0, build' = build, args' = args, outcome' \in {"none", "error"} \/
             (outcome' = outcome /\ step = 0 /\ damaged'),
           dir' = [f \in RB!Files |-> dir'[f]],
           \A f \in RB!Files : dir'[f] = dir[f] \/ dir'[f] \in {None, Torn, Altered},
           verdict' = "none"
    PROVE  ReleaseInv'
<1>1. \A i \in 0..11 : ~Past(i)'
  BY DEF Past
<1>2. ReleaseTypes'
  <2>1. RB!Steps' = RB!Steps
    BY DEF RB!Steps
  <2>2. 0 \in 0..Len(RB!Steps)
    BY StepNames
  <2> QED
    BY <2>1, <2>2 DEF ReleaseInv, ReleaseTypes
<1>3. ReleaseProgress'
  BY <1>1 DEF ReleaseProgress
<1>4. ReleaseOfBuild'
  BY ReleaseConstants DEF ReleaseInv, ReleaseOfBuild, Written
<1>5. ReleaseUncompiled' /\ ReleaseVerdict'
  BY <1>1 DEF ReleaseUncompiled, ReleaseVerdict
<1> QED
  BY <1>2, <1>3, <1>4, <1>5 DEF ReleaseInv

LEMMA StartKeeps ==
    ASSUME ReleaseInv, NEW a \in ArgSets, RB!Start(a)
    PROVE  ReleaseInv'
<1>1. /\ args' \in RB!Args /\ step' = 1 /\ build' = build + 1 /\ outcome' = "none"
      /\ verdict' = "none" /\ dir' = dir
  BY ReleaseConstants DEF RB!Start
<1>2. \A f \in RB!Files : dir'[f] = None
  BY <1>1 DEF RB!Start, RB!EmptyDirectory
<1>3. \A i \in 1..11 : ~Past(i)'
  BY <1>1 DEF Past
<1>4. ReleaseTypes'
  <2>1. 1 \in 0..Len(RB!Steps')
    BY DEF RB!Steps
  <2> QED
    BY <1>1, <2>1 DEF ReleaseInv, ReleaseTypes
<1>5. ReleaseProgress'
  BY <1>1, <1>2, <1>3 DEF ReleaseProgress, Past
<1>6. ReleaseOfBuild'
  BY <1>2, ReleaseConstants DEF ReleaseOfBuild, Written
<1>7. ReleaseUncompiled' /\ ReleaseVerdict'
  BY <1>1, <1>2, <1>3 DEF ReleaseUncompiled, ReleaseVerdict, RB!Files, RB!Installers
<1> QED
  BY <1>4, <1>5, <1>6, <1>7 DEF ReleaseInv

LEMMA ReleaseUnchanged ==
    ASSUME ReleaseInv, args' = args, step' = step, build' = build, outcome' = outcome,
           dir' = dir, damaged' = damaged,
           verdict' = "accepted" => (verdict = "accepted" \/
               \E host \in {"win32", "linux"} : RB!Accepts(dir, host))
    PROVE  ReleaseInv'
<1>1. RB!Steps' = RB!Steps
  BY DEF RB!Steps
<1>2. \A i \in 0..11 : Past(i)' <=> Past(i)
  BY DEF Past
<1>3. ReleaseTypes'
  BY <1>1 DEF ReleaseInv, ReleaseTypes
<1>4. ReleaseProgress'
  BY <1>1, <1>2 DEF ReleaseInv, ReleaseProgress, Written
<1>5. ReleaseOfBuild'
  BY DEF ReleaseInv, ReleaseOfBuild, Written
<1>6. ReleaseUncompiled'
  <2>1. /\ RB!InnoManifest' = RB!InnoManifest /\ RB!ArtifactDigests' = RB!ArtifactDigests
        /\ \A q : RB!Payload(args, q)' = RB!Payload(args, q)
    BY DEF RB!InnoManifest, RB!ArtifactDigests, RB!Payload
  <2> QED
    BY <1>2, <2>1 DEF ReleaseInv, ReleaseUncompiled
<1>7. ReleaseVerdict'
  BY DEF ReleaseInv, ReleaseVerdict
<1> QED
  BY <1>3, <1>4, <1>5, <1>6, <1>7 DEF ReleaseInv

LEMMA ReleaseStep ==
    ASSUME ReleaseInv, RB!Next
    PROVE  ReleaseInv'
<1>0. dir = [f \in RB!Files |-> dir[f]]
  BY DEF ReleaseInv, ReleaseTypes
<1>1. ASSUME NEW a \in ArgSets, RB!Start(a) PROVE ReleaseInv'
  BY <1>1, StartKeeps
<1>2. CASE RB!WriteWheel
  BY <1>2, WriteWheelKeeps
<1>3. CASE RB!WritePayload
  BY <1>3, WritePayloadKeeps
<1>4. CASE RB!WriteStep
  BY <1>4, WriteStepKeeps
<1>5. CASE RB!CompileStep
  BY <1>5, CompileStepKeeps
<1>6. CASE RB!SignStep
  BY <1>6, SignStepKeeps
<1>7. CASE RB!Abort
  <2>1. /\ step' = 0 /\ outcome' = "error" /\ verdict' = "none"
        /\ args' = args /\ build' = build
        /\ dir' \in {dir, [dir EXCEPT ![RB!Target(RB!Steps[step])] = Torn]}
    BY <1>7 DEF RB!Abort
  <2>2. dir' = [f \in RB!Files |-> dir'[f]]
    BY <1>0, <2>1
  <2>3. \A f \in RB!Files : dir'[f] = dir[f] \/ dir'[f] \in {None, Torn, Altered}
    BY <1>0, <2>1
  <2> QED
    BY <2>1, <2>2, <2>3, IdleKeeps
<1>8. CASE RB!Clean
  BY <1>8, IdleKeeps DEF RB!Clean
<1>9. ASSUME NEW f \in RB!Files, RB!Damage(f) PROVE ReleaseInv'
  <2>1. /\ step' = 0 /\ step = 0 /\ outcome' = outcome /\ verdict' = "none" /\ damaged'
        /\ args' = args /\ build' = build /\ dir' = [dir EXCEPT ![f] = Altered]
    BY <1>9 DEF RB!Damage
  <2>2. dir' = [g \in RB!Files |-> dir'[g]]
    BY <1>0, <2>1
  <2>3. \A g \in RB!Files : dir'[g] = dir[g] \/ dir'[g] \in {None, Torn, Altered}
    BY <1>0, <2>1
  <2> QED
    BY <2>1, <2>2, <2>3, IdleKeeps
<1>10. ASSUME NEW host \in {"win32", "linux"}, RB!Verify(host) PROVE ReleaseInv'
  BY <1>10, ReleaseUnchanged DEF RB!Verify
<1> QED
  BY <1>1, <1>2, <1>3, <1>4, <1>5, <1>6, <1>7, <1>8, <1>9, <1>10 DEF RB!Next

THEOREM ReleaseInductive == Spec => []ReleaseInv
<1>1. Init => ReleaseInv
  BY ReleaseInit DEF Init
<1>2. ReleaseInv /\ [Next]_vars => ReleaseInv'
  <2> SUFFICES ASSUME ReleaseInv, [Next]_vars PROVE ReleaseInv'
    OBVIOUS
  <2>1. CASE RB!Next
    BY <2>1, ReleaseStep
  <2>2. CASE UNCHANGED buildVars
    BY <2>2, ReleaseUnchanged DEF buildVars
  <2> QED
    BY <2>1, <2>2 DEF Next, vars
<1> QED
  BY <1>1, <1>2, PTL DEF Spec

\* What the verifier accepts is whole and of one build: a digest the verifier
\* recomputed is no mark of a broken file, and every file is the newest build's.
LEMMA AcceptedWhole ==
    ASSUME ReleaseInv
    PROVE  RB!AcceptedIsOneBuild
<1> SUFFICES ASSUME verdict = "accepted"
             PROVE  /\ \A f \in RB!Artifacts : RB!Whole(dir[f])
                    /\ \A f \in RB!Files : RB!Whole(dir[f]) => dir[f].build = dir["release"].build
  BY DEF RB!AcceptedIsOneBuild
<1>1. PICK host \in {"win32", "linux"} : RB!Accepts(dir, host)
  BY DEF ReleaseInv, ReleaseVerdict
<1>2. {"release"} \cup RB!Artifacts \subseteq RB!Files
  BY DEF RB!Files, RB!Manifests
<1>3. \A f \in RB!Files : RB!Whole(dir[f]) => dir[f] \in RB!ContentsOf(f)
  BY WholeIsContents DEF ReleaseInv, ReleaseTypes
<1>4. dir["release"] \in RB!ContentsOf("release") /\ RB!Whole(dir["release"])
  BY <1>1, <1>2, <1>3 DEF RB!Accepts, RB!SignaturesVerify, RB!Manifests
<1>5. \A f \in RB!Artifacts : dir[f] \in RB!ArtifactFile
  <2>1. dir["release"].artifacts \in [RB!Artifacts -> RB!ArtifactFile]
    <3>1. dir["release"] \in
            [build : Nat, artifacts : [RB!Artifacts -> RB!ArtifactFile], bundle : RB!BundleFile]
      BY <1>4, FileContents
    <3> QED
      BY <3>1
  <2>2. \A f \in RB!Artifacts : dir[f] = dir["release"].artifacts[f]
    BY <1>1 DEF RB!Accepts, RB!ArtifactsVerify
  <2> QED
    BY <2>1, <2>2
<1>6. \A m \in {None, Torn, Altered} : m \notin RB!ArtifactFile
  BY ReleaseConstants, FileContents DEF RB!ArtifactFile, RB!Files, RB!Artifacts
<1>7. \A f \in RB!Artifacts : RB!Whole(dir[f])
  BY <1>5, <1>6 DEF RB!Whole
<1>8. \A f \in RB!Files : RB!Whole(dir[f]) => dir[f].build = build
  BY <1>3 DEF ReleaseInv, ReleaseOfBuild, Written
<1> QED
  BY <1>2, <1>4, <1>7, <1>8

\* The checks of the verifier hold of what a build without a compiler wrote.
LEMMA UncompiledAccepted ==
    ASSUME ReleaseInv, NEW host, step = 0, outcome = "ok", ~damaged, args.compiler = "absent",
           RB!CleanInputs
    PROVE  RB!Accepts(dir, host)
<1>1. \A i \in 0..11 : Past(i)
  BY DEF Past
<1>2. /\ dir["exeStandard"] = None /\ dir["exeEnterprise"] = None
      /\ \E q \in {"ready", "blocked"} : dir["payload"] = RB!Payload(args, q)
      /\ dir["bundle"].payload = dir["payload"]
      /\ dir["innoManifest"] = RB!InnoManifest
      /\ dir["release"].artifacts = RB!ArtifactDigests
      /\ dir["update"].artifact = dir["bundle"]
      /\ dir["rollback"].artifact = dir["wheel"]
  BY <1>1 DEF ReleaseInv, ReleaseUncompiled
<1>3. PICK q \in {"ready", "blocked"} : dir["payload"] = RB!Payload(args, q)
  BY <1>2
<1>4. \A f \in RB!Files \ RB!Installers : RB!Whole(dir[f]) /\ dir[f] # None
  <2>1. \A i \in 1..11 : Written(RB!Steps[i])
    BY <1>1 DEF ReleaseInv, ReleaseProgress
  <2>2. \A f \in RB!Files \ RB!Installers : Written(f)
    BY <2>1, StepNames DEF RB!Files, RB!Artifacts, RB!Manifests
  <2> QED
    BY <2>2, ReleaseConstants DEF Written, RB!Whole
<1>5. \A s \in Slots : /\ dir["payload"].services[s].tree = "tree"
                       /\ dir["payload"].services[s].recorded = "tree"
                       /\ dir["payload"].services[s].tests = FALSE
  <2>1. \A s \in Slots :
           dir["payload"].services[s] = RB!RemoveCaches(RB!StageService(args, s))
    BY <1>3 DEF RB!Payload
  <2> QED
    BY <2>1 DEF RB!RemoveCaches, RB!StageService, RB!CleanInputs
<1>6. RB!ManagedPayloadVerifies(dir["payload"])
  <2>1. dir["payload"].mode = "local_smoke_blocked"
    BY <1>3 DEF RB!Payload, RB!QualificationMode, RB!HERMES_GOVERNANCE_QUALIFIED
  <2> QED
    BY <1>5, <2>1 DEF RB!ManagedPayloadVerifies
<1>7. RB!PayloadQualifies(dir["payload"])
  BY <1>3 DEF RB!Payload, RB!PayloadQualifies
<1>8. RB!InstallersSigned(dir, host)
  BY <1>2 DEF RB!InstallersSigned, RB!Installers
<1>9. RB!InnoProductsVerify(dir, host)
  BY <1>4, <1>6, <1>7, <1>8
     DEF RB!InnoProductsVerify, RB!Files, RB!Installers, RB!Artifacts
<1>10. RB!BundleVerifies(dir["bundle"])
  <2>1. dir["payload"].skills = RB!StageSkills(args)
    BY <1>3 DEF RB!Payload
  <2>2. args.skills # "tests"
    BY DEF RB!CleanInputs
  <2>3. (args.skills = "tests") = FALSE
    BY <2>2
  <2>4. RB!StageSkills(args) = [included |-> args.skills # "absent", tests |-> FALSE]
    BY <2>3 DEF RB!StageSkills
  <2>5. dir["payload"].skills.tests = FALSE
    BY <2>1, <2>4
  <2> QED
    BY <1>2, <1>5, <2>5 DEF RB!BundleVerifies
<1>11. RB!ArtifactsVerify(dir)
  BY <1>2, <1>4 DEF RB!ArtifactsVerify, RB!ArtifactDigests, RB!Files, RB!Installers, RB!Artifacts
<1>12. RB!SignaturesVerify(dir) /\ dir["sbom"] # None /\ dir["provenance"] # None
  BY <1>4 DEF RB!SignaturesVerify, RB!Files, RB!Installers, RB!Manifests
<1> QED
  BY <1>2, <1>9, <1>10, <1>11, <1>12 DEF RB!Accepts

\* An accepted directory is one build's (verify_phase6_release.py): the builder's
\* refusal of a directory that is not empty carries over to every build and
\* every damage, whatever the command lines and the service slots.
THEOREM AcceptedReleaseIsOneBuild == Spec => []AcceptedIsOneBuild
<1>1. ReleaseInv => AcceptedIsOneBuild
  BY AcceptedWhole DEF AcceptedIsOneBuild
<1> QED
  BY <1>1, ReleaseInductive, PTL

\* A build that was given no Inno compiler and returned 0 verifies on any host,
\* if no input brings Python caches in a service or a tests directory.
THEOREM UncompiledBuildVerifies == Spec => []UncompiledVerifies
<1>1. ReleaseInv => UncompiledVerifies
  <2>1. ASSUME ReleaseInv, outcome = "ok" PROVE step = 0
    BY <2>1 DEF ReleaseInv, ReleaseTypes
  <2> QED
    BY <2>1, UncompiledAccepted DEF UncompiledVerifies, RB!UncompiledVerifies
<1> QED
  BY <1>1, ReleaseInductive, PTL

-----------------------------------------------------------------------------
(* Readiness *)

\* A failed check blocks the category it falls into.
LEMMA FailedCheckBlocks ==
    ASSUME NEW m, NEW c \in RE!DoctorReport(m), c.status = "fail"
    PROVE  RE!CategoryStatus(m, c.category) = "blocked"
<1> DEFINE statuses == {e.status : e \in {d \in RE!DoctorReport(m) : d.category = c.category}}
<1>1. "fail" \in statuses
  OBVIOUS
<1> QED
  BY <1>1 DEF RE!CategoryStatus

\* The checks that no category of the summary counts, or not always.
LEMMA UncountedChecks ==
    ASSUME NEW m, NEW c \in RE!DoctorReport(m)
    PROVE  \/ c.category \in RE!CheckCategories
           \/ c = RE!AuditLogCheck(m)
           \/ c = RE!SkillCheck(m)
           \/ c = RE!ManagedDirectoryCheck(m, "migration.state", "migrations", "none")
           \/ c \in RE!DependencyChecks(m)
<1> USE DEF RE!Check, RE!CheckOf, RE!CheckCategories
<1>1. RE!DataDirCheck(m).category = "filesystem" /\ RE!DiskSpaceCheck(m).category = "filesystem"
  BY DEF RE!DataDirCheck, RE!DiskSpaceCheck
<1>2. RE!MemoryStoreCheck(m).category = "memory" /\ RE!EmbeddingModelCheck(m).category = "memory"
  BY DEF RE!MemoryStoreCheck, RE!EmbeddingModelCheck
<1>3. RE!GovernancePolicyCheck(m).category = "governance"
  BY DEF RE!GovernancePolicyCheck
<1>4. RE!ManagedDirectoryCheck(m, "backup.state", "backups", "backup").category = "backup"
  BY DEF RE!ManagedDirectoryCheck
<1>5. RE!ConnectorCheck(m).category = "connectors" /\ RE!SecretsCheck(m).category = "secrets"
  BY DEF RE!ConnectorCheck, RE!SecretsCheck
<1>6. \A d \in RE!RuntimeChecks(m) : d.category = "runtime"
  BY DEF RE!RuntimeChecks
<1>7. \A d \in RE!DocumentChecks(m) : d.category = "documents"
  BY DEF RE!DocumentChecks
<1>8. \A d \in RE!MetabaseChecks(m) : d.category = "metabase"
  BY DEF RE!MetabaseChecks
<1> QED
  BY <1>1, <1>2, <1>3, <1>4, <1>5, <1>6, <1>7, <1>8 DEF RE!DoctorReport

\* A failed dependency or profile blocks the setup plan.
LEMMA DependencyBlocksSetup ==
    ASSUME NEW m, NEW c \in RE!DependencyChecks(m), c.status = "fail"
    PROVE  RE!SetupBlocked(m)
<1>1. \A s : RE!DependencyStatus(s) = "fail" => s = "missing_required"
  BY DEF RE!DependencyStatus
<1>2. CASE \E p \in m.profiles :
             c = RE!CheckOf("profile", p, RE!DependencyStatus(RE!ProfileReadiness(p, m)), "none")
  BY <1>1, <1>2 DEF RE!CheckOf, RE!SetupBlocked
<1>3. CASE \E d \in RE!Enabled(m) :
             c = RE!CheckOf(d.profile, d.id,
                            RE!DependencyStatus(RE!EvaluateDependency(d, m)), d.category)
  <2>1. PICK d \in RE!Enabled(m) :
          c = RE!CheckOf(d.profile, d.id,
                         RE!DependencyStatus(RE!EvaluateDependency(d, m)), d.category)
    BY <1>3
  <2>2. RE!EvaluateDependency(d, m) = "missing_required"
    BY <1>1, <2>1 DEF RE!CheckOf
  <2>3. d.profile \in m.profiles
    BY <2>1 DEF RE!Enabled
  <2>4. RE!ProfileReadiness(d.profile, m) = "missing_required"
    BY <2>1, <2>2 DEF RE!ProfileReadiness
  <2> QED
    BY <2>3, <2>4 DEF RE!SetupBlocked
<1> QED
  BY <1>2, <1>3 DEF RE!DependencyChecks

\* The state of each managed directory.
Trees == [DOMAIN RE!Parent -> {"dir", "file", "missing"}]

\* A migration directory that cannot be there stops the repair.
LEMMA MigrationStateStopsRepair ==
    ASSUME NEW m, m.paths \in Trees,
           RE!ManagedDirectoryCheck(m, "migration.state", "migrations", "none").status = "fail"
    PROVE  RE!RepairRaises(m)
<1>1. {"data", "migrations"} \subseteq DOMAIN RE!Parent
  BY DEF RE!Parent, RE!Targets
<1>2. m.paths["data"] \in {"dir", "file", "missing"} /\ DOMAIN m.paths = DOMAIN RE!Parent
  BY <1>1 DEF Trees
<1> QED
  BY <1>1, <1>2 DEF RE!ManagedDirectoryCheck, RE!Check, RE!CheckOf, RE!RepairRaises

LEMMA DoctorCovered ==
    ASSUME RE!Assembled(machine).paths \in Trees
    PROVE  RE!HealthCoversDoctor
<1> DEFINE m == RE!Assembled(machine)
<1> SUFFICES ASSUME NEW c \in RE!DoctorReport(m), c.status = "fail", c # RE!AuditLogCheck(m)
             PROVE  RE!HealthFails(machine)
  <2>1. RE!DoctorFails(machine) => RE!HealthFails(machine) \/ RE!Failing(m) # {}
    BY DEF RE!DoctorFails, RE!HealthFails
  <2>2. \/ RE!Failing(m) = {} \/ RE!Failing(m) = {RE!AuditLogCheck(m)}
        \/ \E c \in RE!Failing(m) : c # RE!AuditLogCheck(m)
    OBVIOUS
  <2> QED
    BY <2>1, <2>2 DEF RE!HealthCoversDoctor, RE!Failing
<1>1. m.paths \in Trees
  OBVIOUS
<1> HIDE DEF m
<1>2. (\/ RE!RepairRaises(m) \/ RE!SetupBlocked(m) \/ m.skill # "packaged"
       \/ \E category \in RE!CheckCategories : RE!CategoryStatus(m, category) = "blocked")
      => RE!HealthFails(machine)
  BY DEF RE!HealthFails, m
<1>3. CASE c.category \in RE!CheckCategories
  BY <1>2, <1>3, FailedCheckBlocks
<1>4. CASE c = RE!SkillCheck(m)
  BY <1>2, <1>4 DEF RE!SkillCheck, RE!Check, RE!CheckOf
<1>5. CASE c = RE!ManagedDirectoryCheck(m, "migration.state", "migrations", "none")
  BY <1>1, <1>2, <1>5, MigrationStateStopsRepair
<1>6. CASE c \in RE!DependencyChecks(m)
  BY <1>2, <1>6, DependencyBlocksSetup
<1> QED
  BY <1>3, <1>4, <1>5, <1>6, UncountedChecks

-----------------------------------------------------------------------------
ReadinessInv == DOMAIN machine = DOMAIN Base /\ machine.paths \in Trees

\* Assembling the product only adds directories.
LEMMA AssembledTrees ==
    ASSUME ReadinessInv
    PROVE  /\ RE!Assembled(machine).paths \in Trees
           /\ DOMAIN RE!Assembled(machine) = DOMAIN Base
  BY ReadinessConstants DEF ReadinessInv, RE!Assembled, Trees

LEMMA ReadinessStep ==
    ASSUME ReadinessInv, [RE!Next]_machine
    PROVE  ReadinessInv'
<1>1. "paths" \in DOMAIN Base
  BY ReadinessConstants
<1>2. ASSUME NEW f \in DOMAIN Base, NEW value \in Alternatives[f], RE!Change(f, value)
      PROVE  ReadinessInv'
  <2>1. machine' = [machine EXCEPT ![f] = value]
    BY <1>2 DEF RE!Change
  <2>2. f = "paths" => value \in Trees
    BY <1>2, ReadinessConstants DEF Trees
  <2> QED
    BY <1>1, <2>1, <2>2 DEF ReadinessInv
<1>3. CASE RE!Repair
  <2>1. machine' = [machine EXCEPT !.paths = RE!RepairedPaths(machine)]
    BY <1>3 DEF RE!Repair
  <2>2. RE!RepairedPaths(machine) \in Trees
    BY DEF RE!RepairedPaths, ReadinessInv, Trees
  <2> QED
    BY <1>1, <2>1, <2>2 DEF ReadinessInv
<1>4. CASE RE!Assemble
  BY <1>4, AssembledTrees DEF RE!Assemble, ReadinessInv
<1>5. CASE RE!ResetIntegration
  <2>1. machine' = [machine EXCEPT !.paths["google"] = "missing"]
    BY <1>5 DEF RE!ResetIntegration
  <2>2. [machine.paths EXCEPT !["google"] = "missing"] \in Trees
    BY DEF ReadinessInv, Trees
  <2> QED
    BY <1>1, <2>1, <2>2 DEF ReadinessInv
<1>6. CASE UNCHANGED machine
  BY <1>6 DEF ReadinessInv
<1> QED
  BY <1>2, <1>3, <1>4, <1>5, <1>6 DEF RE!Next

\* Whatever installation one starts from and whatever its settings may become,
\* what fails `maya doctor` fails `maya health summary`, unless the check of the
\* runtime audit log is all that fails (run_doctor, summarize_health).
THEOREM DoctorIsCovered == Spec => []HealthCoversDoctor
<1>1. Init => ReadinessInv
  BY ReadinessConstants DEF Init, RE!Init, ReadinessInv, Trees
<1>2. ReadinessInv /\ [Next]_vars => ReadinessInv'
  <2>1. [Next]_vars => [RE!Next]_machine
    BY DEF Next, vars
  <2> QED
    BY <2>1, ReadinessStep
<1>3. ReadinessInv => HealthCoversDoctor
  BY AssembledTrees, DoctorCovered DEF HealthCoversDoctor
<1> QED
  BY <1>1, <1>2, <1>3, PTL DEF Spec

-----------------------------------------------------------------------------
(* First run *)

FromGovernance ==
    {"governance", "token", "credential", "ref", "ref_write", "key", "model", "ask", "choose",
     "choose_write", "choose_replace", "setup", "start", "doctor", "serving"}
FromMemory == {"memory"} \cup FromGovernance

PolicyPcs == {"policy", "policy_write"}
CopyPcs == {"copy", "copy_write"}
ImportPcs == {"import", "import_write", "imported_write", "imported_replace"}

\* The steps at which a process remembers a whole configuration.
Remembering ==
    {"upgrade", "upgrade_write", "upgrade_replace", "ref", "ref_write", "key", "ask", "choose",
     "choose_write", "choose_replace", "import_write", "imported_write", "imported_replace",
     "serving"}

RunPcs == {"idle", "config", "create", "created", "dirs"} \cup PolicyPcs \cup CopyPcs
            \cup ImportPcs \cup FromMemory \cup Remembering

RunRows == [kind : {"none", "setup", "start", "doctor", "import"}, pc : RunPcs,
            seen : FR!Configs \cup {None, Torn}, file : Nat \ {0},
            alone : BOOLEAN, fresh : BOOLEAN]

Lone(r) == r.alone /\ r.pc \notin {"idle", "serving"}

\* What every process has seen to, whoever else is at work.
Provided(r) ==
    /\ r.pc \in Remembering => r.seen \in FR!Configs
    /\ r.pc \in FromGovernance => hermes = "maya"
    /\ r.pc \in FromMemory => r.file \notin DOMAIN UpdateFiles
    /\ r.kind = "import" <=> r.pc \in ImportPcs
    /\ r.pc \in {"choose", "choose_write", "choose_replace"} => r.seen.model # 0

\* What a fresh run has copied so far is the metadata of the installed payload.
Copied(r) ==
    r.fresh => \A f \in DOMAIN UpdateFiles : f < r.file => updates[f] = installed

\* The configuration at each step of a launch that is the only one at work.
Followed(r) ==
    /\ r.pc = "create" => config = None
    /\ r.pc \in {"created", "ref_write"} => config = Torn
    /\ r.pc \in {"upgrade", "upgrade_write", "upgrade_replace", "ref", "key"} => config = r.seen
    /\ r.pc = "upgrade_replace" => tmp = [r.seen EXCEPT !.retriever = "local_vector"]
    /\ r.pc \in {"ref", "ref_write"} => r.seen.ref = NoRef
    /\ r.pc \in {"model", "ask", "choose", "choose_write", "choose_replace", "setup", "start"} =>
         config \in FR!Configs /\ config.ref \in keys
    /\ r.pc \in {"ask", "choose", "choose_write", "choose_replace"} =>
         /\ config.model = 0 /\ r.seen.ref = config.ref
         /\ r.seen.edition = config.edition /\ r.seen.retriever = config.retriever
    /\ r.pc \in {"choose_replace", "imported_replace"} => tmp = r.seen
    /\ r.pc \in {"setup", "start"} => config.model # 0
    /\ r.pc \in FromGovernance => policyFile = "policy"

Served(r) == r.pc = "serving" /\ r.alone => r.seen.model # 0 /\ r.seen.ref \in keys

FirstRunTypes ==
    /\ {config, tmp} \subseteq FR!Configs \cup {None, Torn}
    /\ models \in 1..MaxModel
    /\ updates = [f \in DOMAIN UpdateFiles |-> updates[f]]
    /\ run \in [Processes -> RunRows]

\* While a server that was launched alone runs, nobody writes the policy again.
PolicySettled ==
    \A p \in Processes : run[p].pc = "serving" /\ run[p].alone =>
        policyFile = "policy" /\ \A q \in Processes : run[q].pc \notin PolicyPcs

\* Beside a fresh run no other copies the release metadata.
SoleCopier ==
    \A p \in Processes : run[p].fresh =>
        \A q \in Processes \ {p} : run[q].pc \in {"idle", "serving"} \cup ImportPcs

FirstRunInv ==
    /\ FirstRunTypes
    /\ \A p \in Processes : Provided(run[p]) /\ Served(run[p]) /\ Copied(run[p])
    /\ PolicySettled /\ SoleCopier
    /\ \A p \in Processes : Lone(run[p]) =>
         /\ Followed(run[p])
         /\ \A q \in Processes \ {p} : run[q].pc \in {"idle", "serving"}

\* One process is somewhere else, the others are where they were.
Moves(p, pc) ==
    /\ run' = [q \in Processes |-> run'[q]] /\ \A q \in Processes \ {p} : run'[q] = run[q]
    /\ run'[p] \in RunRows /\ run'[p].pc = pc /\ run'[p].kind = run[p].kind
    /\ run'[p].alone = run[p].alone /\ run'[p].fresh = run[p].fresh
    /\ run'[p].file = run[p].file \/ run[p].pc = "copy_write"

\* What other processes rely on is not taken back.
Grows ==
    /\ {config', tmp'} \subseteq FR!Configs \cup {None, Torn} /\ models' \in 1..MaxModel
    /\ updates' = [f \in DOMAIN UpdateFiles |-> updates'[f]]
    /\ hermes = "maya" => hermes' = "maya"
    /\ keys \subseteq keys' /\ installed' = installed

LEMMA GoMovesRun ==
    ASSUME FirstRunTypes, NEW p \in Processes, NEW pc \in RunPcs, FR!Go(p, pc)
    PROVE  Moves(p, pc) /\ run'[p].seen = run[p].seen
<1>1. /\ run' = [q \in Processes |-> run'[q]] /\ \A q \in Processes \ {p} : run'[q] = run[q]
      /\ run'[p] = [run[p] EXCEPT !.pc = pc] /\ run[p] \in RunRows
  BY DEF FR!Go, FirstRunTypes
<1> QED
  BY <1>1 DEF Moves, RunRows

LEMMA ReadMovesRun ==
    ASSUME FirstRunTypes, NEW p \in Processes, NEW pc \in RunPcs, FR!Read(p, pc)
    PROVE  Moves(p, pc) /\ run'[p].seen = config
<1>1. /\ run' = [q \in Processes |-> run'[q]] /\ \A q \in Processes \ {p} : run'[q] = run[q]
      /\ run'[p] = [run[p] EXCEPT !.pc = pc, !.seen = config] /\ run[p] \in RunRows
      /\ config \in FR!Configs \cup {None, Torn}
  BY DEF FR!Read, FirstRunTypes
<1> QED
  BY <1>1 DEF Moves, RunRows

\* A process at work moves on: the others are idle, serving, or not alone.
\* Only the steps that copy touch the policy and the release metadata.
LEMMA FirstRunMoves ==
    ASSUME FirstRunInv, NEW p \in Processes, run[p].pc \notin {"idle", "serving"},
           NEW pc \in RunPcs, Moves(p, pc), Grows,
           pc \in ImportPcs => run[p].pc \in ImportPcs, pc = "serving" => run[p].pc = "start",
           pc \in PolicyPcs => run[p].pc \in PolicyPcs \/ policyFile = None,
           policyFile' = policyFile \/ run[p].pc \in PolicyPcs,
           \/ updates' = updates /\ run[p].pc # "copy_write"
           \/ run[p].pc \in CopyPcs /\ Copied(run[p])',
           Provided(run[p])', Served(run[p])', Lone(run[p]) => Followed(run[p])'
    PROVE  FirstRunInv'
<1>1. FirstRunTypes'
  <2>1. run' \in [Processes -> RunRows]
    BY DEF Moves, FirstRunInv, FirstRunTypes
  <2> QED
    BY <2>1 DEF Grows, FirstRunTypes
<1>2. ASSUME NEW q \in Processes PROVE Provided(run[q])' /\ Served(run[q])'
  <2>1. CASE q = p
    BY <2>1
  <2>2. CASE q # p
    <3>1. run'[q] = run[q] /\ Provided(run[q]) /\ Served(run[q])
      BY <2>2 DEF Moves, FirstRunInv
    <3>2. Provided(run[q])'
      BY <3>1 DEF Grows, Provided
    <3>3. Served(run[q])'
      BY <3>1 DEF Grows, Served
    <3> QED
      BY <3>2, <3>3
  <2> QED
    BY <2>1, <2>2
<1>3. ASSUME NEW q \in Processes, Lone(run[q])'
      PROVE  /\ Followed(run[q])'
             /\ \A s \in Processes \ {q} : run'[s].pc \in {"idle", "serving"}
  <2>1. q = p
    BY <1>3 DEF Moves, FirstRunInv, Lone
  <2>2. Lone(run[p])
    BY <1>3, <2>1 DEF Moves, Lone
  <2> QED
    BY <2>1, <2>2 DEF Moves, FirstRunInv
<1>4. ASSUME NEW q \in Processes PROVE Copied(run[q])'
  <2>1. CASE updates' = updates /\ run[p].pc # "copy_write"
    <3>1. run'[q].fresh = run[q].fresh /\ run'[q].file = run[q].file /\ Copied(run[q])
      BY <2>1 DEF Moves, FirstRunInv
    <3> QED
      BY <2>1, <3>1 DEF Copied, Grows
  <2>2. CASE run[p].pc \in CopyPcs /\ Copied(run[p])' /\ q # p
    BY <2>2 DEF Moves, FirstRunInv, SoleCopier, Copied, CopyPcs, ImportPcs
  <2> QED
    BY <2>1, <2>2
<1>5. PolicySettled'
  <2> SUFFICES ASSUME NEW q \in Processes, run'[q].pc = "serving", run'[q].alone,
                      NEW s \in Processes
               PROVE  policyFile' = "policy" /\ run'[s].pc \notin PolicyPcs
    BY DEF PolicySettled
  <2>1. CASE q = p
    <3>1. Lone(run[p]) /\ run[p].pc = "start" /\ run'[p].pc = "serving"
      BY <2>1 DEF Moves, Lone
    <3>2. Followed(run[p]) /\ \A r \in Processes \ {p} : run[r].pc \in {"idle", "serving"}
      BY <3>1 DEF FirstRunInv
    <3>3. policyFile = "policy"
      BY <3>1, <3>2 DEF Followed, FromGovernance
    <3> QED
      BY <3>1, <3>2, <3>3 DEF Moves, PolicyPcs
  <2>2. CASE q # p
    <3>1. run[q].pc = "serving" /\ run[q].alone
      BY <2>2 DEF Moves
    <3>2. policyFile = "policy" /\ \A r \in Processes : run[r].pc \notin PolicyPcs
      BY <3>1 DEF FirstRunInv, PolicySettled
    <3>3. policyFile # None
      BY <3>2, FirstRunConstants
    <3> QED
      BY <3>2, <3>3 DEF Moves
  <2> QED
    BY <2>1, <2>2
<1>6. SoleCopier'
  <2> SUFFICES ASSUME NEW q \in Processes, run'[q].fresh, NEW s \in Processes \ {q}
               PROVE  run'[s].pc \in {"idle", "serving"} \cup ImportPcs
    BY DEF SoleCopier
  <2>1. run[q].fresh
    BY DEF Moves
  <2>2. run[s].pc \in {"idle", "serving"} \cup ImportPcs
    BY <2>1 DEF FirstRunInv, SoleCopier
  <2>3. CASE s = p
    <3>1. run[p].pc \in ImportPcs
      BY <2>2, <2>3
    <3>2. run[p].kind = "import" /\ run'[p].kind = "import"
      BY <3>1 DEF FirstRunInv, Provided, Moves
    <3> QED
      BY <2>3, <3>2 DEF Provided
  <2> QED
    BY <2>2, <2>3 DEF Moves
<1> QED
  BY <1>1, <1>2, <1>3, <1>4, <1>5, <1>6 DEF FirstRunInv

\* A process that leaves takes nothing with it.
LEMMA FirstRunStops ==
    ASSUME FirstRunInv, NEW p \in Processes, FR!Stop(p),
           UNCHANGED <<config, tmp, policyFile, updates, installed, keys, models>>,
           hermes = "maya" => hermes' = "maya"
    PROVE  FirstRunInv'
<1>1. /\ run' = [q \in Processes |-> run'[q]] /\ \A q \in Processes \ {p} : run'[q] = run[q]
      /\ run'[p] = FR!Idle
  BY DEF FR!Stop, FirstRunInv, FirstRunTypes
<1>2. FR!Idle \in RunRows
  BY DEF RunRows, FR!Idle, RunPcs
<1>3. FirstRunTypes'
  <2>1. run' \in [Processes -> RunRows]
    BY <1>1, <1>2 DEF FirstRunInv, FirstRunTypes
  <2> QED
    BY <2>1 DEF FirstRunInv, FirstRunTypes
<1>4. ASSUME NEW q \in Processes PROVE Provided(run[q])' /\ Served(run[q])' /\ Copied(run[q])'
  <2>1. CASE q = p
    BY <1>1, <2>1
       DEF FR!Idle, Provided, Served, Copied, ImportPcs, FromMemory, FromGovernance, Remembering
  <2>2. CASE q # p
    BY <1>1, <2>2 DEF FirstRunInv, Provided, Served, Copied
  <2> QED
    BY <2>1, <2>2
<1>5. ASSUME NEW q \in Processes, Lone(run[q])'
      PROVE  /\ Followed(run[q])'
             /\ \A s \in Processes \ {q} : run'[s].pc \in {"idle", "serving"}
  <2>1. q # p /\ run'[q] = run[q] /\ Lone(run[q])
    BY <1>1, <1>5 DEF FR!Idle, Lone
  <2>2. Followed(run[q])'
    BY <2>1 DEF FirstRunInv, Followed
  <2> QED
    BY <1>1, <2>1, <2>2 DEF FirstRunInv, FR!Idle
<1>6. PolicySettled' /\ SoleCopier'
  BY <1>1 DEF FR!Idle, FirstRunInv, PolicySettled, SoleCopier, PolicyPcs
<1> QED
  BY <1>3, <1>4, <1>5, <1>6 DEF FirstRunInv

LEMMA RunPcsListed ==
    {"idle", "config", "create", "created", "dirs", "policy", "policy_write", "import", "copy",
     "copy_write", "memory", "governance",
     "token", "credential", "ref", "ref_write", "key", "model", "ask", "choose", "choose_write",
     "choose_replace", "setup", "start", "doctor", "serving", "upgrade", "upgrade_write",
     "upgrade_replace", "import_write", "imported_write", "imported_replace"} = RunPcs
  BY DEF RunPcs, PolicyPcs, CopyPcs, ImportPcs, FromMemory, FromGovernance, Remembering

LEMMA StillGrows ==
    ASSUME FirstRunTypes,
           UNCHANGED <<config, tmp, policyFile, hermes, updates, keys, installed, models>>
    PROVE  Grows
  BY DEF FirstRunTypes, Grows

\* What a process at work has seen to so far.
LEMMA AtWork ==
    ASSUME FirstRunInv, NEW p \in Processes
    PROVE  /\ Provided(run[p]) /\ run[p] \in RunRows
           /\ Lone(run[p]) => Followed(run[p])
           /\ config \in FR!Configs \cup {None, Torn} /\ tmp \in FR!Configs \cup {None, Torn}
           /\ models \in 1..MaxModel
  BY DEF FirstRunInv, FirstRunTypes

\* A process that only goes on to its next step, with what it has read.
LEMMA GoesOn ==
    ASSUME FirstRunInv, NEW p \in Processes, run[p].pc \notin {"idle", "serving"},
           NEW pc \in RunPcs, Moves(p, pc), pc # "serving", run[p].pc # "copy_write",
           pc \in ImportPcs => run[p].pc \in ImportPcs,
           pc \in PolicyPcs => run[p].pc \in PolicyPcs \/ policyFile = None,
           UNCHANGED <<config, tmp, policyFile, hermes, updates, keys, installed, models>>,
           Provided(run[p])', Lone(run[p]) => Followed(run[p])'
    PROVE  FirstRunInv'
<1>1. Grows
  BY StillGrows DEF FirstRunInv
<1>2. Served(run[p])'
  BY DEF Served, Moves
<1> QED
  BY <1>1, <1>2, FirstRunMoves
     DEF PolicyPcs, ImportPcs

LEMMA PrepareConfigKeeps ==
    ASSUME FirstRunInv, NEW p \in Processes, FR!PrepareConfig(p)
    PROVE  FirstRunInv'
<1>1. /\ run[p].pc = "config"
      /\ UNCHANGED <<config, tmp, policyFile, hermes, updates, keys, installed, models>>
  BY DEF FR!PrepareConfig, FR!At, FR!configVars, FR!stateVars, FR!countVars
<1>2. \/ config = None /\ FR!Go(p, "create")
      \/ FR!Stop(p)
      \/ FR!Go(p, "dirs")
      \/ config \in FR!Configs /\ FR!Read(p, "upgrade")
  BY AtWork DEF FR!PrepareConfig
<1> USE RunPcsListed
<1>3. CASE config = None /\ FR!Go(p, "create")
  <2>1. Moves(p, "create")
    BY <1>3, GoMovesRun DEF FirstRunInv
  <2>2. Provided(run[p])' /\ (Lone(run[p]) => Followed(run[p])')
    BY <1>1, <1>3, <2>1, AtWork
       DEF Moves, Provided, Followed, ImportPcs, FromMemory, FromGovernance, Remembering
  <2> QED
    BY <1>1, <2>1, <2>2, GoesOn
     DEF PolicyPcs, ImportPcs
<1>4. CASE FR!Stop(p)
  BY <1>1, <1>4, FirstRunStops
<1>5. CASE FR!Go(p, "dirs")
  <2>1. Moves(p, "dirs")
    BY <1>5, GoMovesRun DEF FirstRunInv
  <2>2. Provided(run[p])' /\ (Lone(run[p]) => Followed(run[p])')
    BY <1>1, <2>1, AtWork
       DEF Moves, Provided, Followed, ImportPcs, FromMemory, FromGovernance, Remembering
  <2> QED
    BY <1>1, <2>1, <2>2, GoesOn
     DEF PolicyPcs, ImportPcs
<1>6. CASE config \in FR!Configs /\ FR!Read(p, "upgrade")
  <2>1. Moves(p, "upgrade") /\ run'[p].seen = config
    BY <1>6, ReadMovesRun DEF FirstRunInv
  <2>2. Provided(run[p])' /\ (Lone(run[p]) => Followed(run[p])')
    BY <1>1, <1>6, <2>1, AtWork
       DEF Moves, Provided, Followed, ImportPcs, FromMemory, FromGovernance, Remembering
  <2> QED
    BY <1>1, <2>1, <2>2, GoesOn
     DEF PolicyPcs, ImportPcs
<1> QED
  BY <1>2, <1>3, <1>4, <1>5, <1>6

LEMMA CreateConfigKeeps ==
    ASSUME FirstRunInv, NEW p \in Processes, FR!CreateConfig(p)
    PROVE  FirstRunInv'
<1>1. /\ run[p].pc = "create" /\ config' = Torn /\ FR!Go(p, "created")
      /\ UNCHANGED <<tmp, policyFile, hermes, updates, keys, installed, models>>
  BY DEF FR!CreateConfig, FR!At, FR!stateVars, FR!countVars
<1>2. Moves(p, "created")
  BY <1>1, GoMovesRun, RunPcsListed DEF FirstRunInv
<1>3. Grows
  BY <1>1 DEF Grows, FirstRunInv, FirstRunTypes
<1>4. Provided(run[p])' /\ Served(run[p])' /\ (Lone(run[p]) => Followed(run[p])')
  BY <1>1, <1>2, AtWork
     DEF Moves, Provided, Followed, Served, ImportPcs, FromMemory, FromGovernance, Remembering
<1> QED
  BY <1>1, <1>2, <1>3, <1>4, FirstRunMoves, RunPcsListed
     DEF PolicyPcs, ImportPcs

LEMMA CreateFinishKeeps ==
    ASSUME FirstRunInv, NEW p \in Processes, FR!CreateFinish(p)
    PROVE  FirstRunInv'
<1>1. /\ run[p].pc = "created" /\ config' = FR!Template /\ FR!Go(p, "dirs")
      /\ UNCHANGED <<tmp, policyFile, hermes, updates, keys, installed, models>>
  BY DEF FR!CreateFinish, FR!At, FR!stateVars, FR!countVars
<1>2. Moves(p, "dirs")
  BY <1>1, GoMovesRun, RunPcsListed DEF FirstRunInv
<1>3. FR!Template \in FR!Configs
  BY FirstRunConstants DEF FR!Template, FR!Configs
<1>4. Grows
  BY <1>1, <1>3 DEF Grows, FirstRunInv, FirstRunTypes
<1>5. Provided(run[p])' /\ Served(run[p])' /\ (Lone(run[p]) => Followed(run[p])')
  BY <1>1, <1>2, AtWork
     DEF Moves, Provided, Followed, Served, ImportPcs, FromMemory, FromGovernance, Remembering
<1> QED
  BY <1>1, <1>2, <1>4, <1>5, FirstRunMoves, RunPcsListed
     DEF PolicyPcs, ImportPcs

LEMMA OpenTmpKeeps ==
    ASSUME FirstRunInv, NEW p \in Processes, FR!OpenTmp(p)
    PROVE  FirstRunInv'
<1> DEFINE pc == CASE run[p].pc = "upgrade" -> "upgrade_write"
                  [] run[p].pc = "choose" -> "choose_write"
                  [] OTHER -> "imported_write"
<1>1. /\ run[p].pc \in {"upgrade", "choose", "import_write"} /\ tmp' = Torn /\ FR!Go(p, pc)
      /\ UNCHANGED <<config, policyFile, hermes, updates, keys, installed, models>>
  BY DEF FR!OpenTmp, FR!At, FR!stateVars, FR!countVars
<1>2. pc \in RunPcs
  BY RunPcsListed
<1>3. Moves(p, pc) /\ run'[p].seen = run[p].seen
  BY <1>1, <1>2, GoMovesRun DEF FirstRunInv
<1>4. Grows
  BY <1>1 DEF Grows, FirstRunInv, FirstRunTypes
<1>5. Provided(run[p])' /\ Served(run[p])'
  BY <1>1, <1>3, AtWork
     DEF Moves, Provided, Served, ImportPcs, FromMemory, FromGovernance, Remembering
<1>6. Lone(run[p]) => Followed(run[p])'
  BY <1>1, <1>3, AtWork DEF Moves, Followed, FromGovernance
<1> QED
  BY <1>1, <1>2, <1>3, <1>4, <1>5, <1>6, FirstRunMoves
     DEF PolicyPcs, ImportPcs

LEMMA WriteTmpKeeps ==
    ASSUME FirstRunInv, NEW p \in Processes, FR!WriteTmp(p)
    PROVE  FirstRunInv'
<1> DEFINE pc == CASE run[p].pc = "upgrade_write" -> "upgrade_replace"
                  [] run[p].pc = "choose_write" -> "choose_replace"
                  [] OTHER -> "imported_replace"
<1>1. /\ run[p].pc \in {"upgrade_write", "choose_write", "imported_write"} /\ FR!Go(p, pc)
      /\ tmp' = IF run[p].pc = "upgrade_write" THEN [run[p].seen EXCEPT !.retriever = "local_vector"]
                                              ELSE run[p].seen
      /\ UNCHANGED <<config, policyFile, hermes, updates, keys, installed, models>>
  BY DEF FR!WriteTmp, FR!At, FR!stateVars, FR!countVars
<1>2. pc \in RunPcs
  BY RunPcsListed
<1>3. Moves(p, pc) /\ run'[p].seen = run[p].seen
  BY <1>1, <1>2, GoMovesRun DEF FirstRunInv
<1>4. Grows
  <2>1. run[p].seen \in FR!Configs
    BY <1>1, AtWork DEF Provided, Remembering
  <2>2. [run[p].seen EXCEPT !.retriever = "local_vector"] \in FR!Configs
    BY <2>1 DEF FR!Configs
  <2> QED
    BY <1>1, <2>1, <2>2 DEF Grows, FirstRunInv, FirstRunTypes
<1>5. Provided(run[p])' /\ Served(run[p])'
  BY <1>1, <1>3, AtWork
     DEF Moves, Provided, Served, ImportPcs, FromMemory, FromGovernance, Remembering
<1>6. Lone(run[p]) => Followed(run[p])'
  BY <1>1, <1>3, AtWork DEF Moves, Followed, FromGovernance
<1> QED
  BY <1>1, <1>2, <1>3, <1>4, <1>5, <1>6, FirstRunMoves
     DEF PolicyPcs, ImportPcs

LEMMA ReplaceConfigKeeps ==
    ASSUME FirstRunInv, NEW p \in Processes, FR!ReplaceConfig(p)
    PROVE  FirstRunInv'
<1>1. /\ run[p].pc \in {"upgrade_replace", "choose_replace", "imported_replace"}
      /\ UNCHANGED <<policyFile, hermes, updates, keys, installed, models>>
  BY DEF FR!ReplaceConfig, FR!stateVars, FR!countVars
<1>2. \/ FR!Stop(p) /\ UNCHANGED <<config, tmp>>
      \/ /\ config' = tmp /\ tmp' = None
         /\ \/ run[p].pc = "upgrade_replace" /\ FR!Go(p, "dirs")
            \/ run[p].pc = "choose_replace" /\ FR!Go(p, "setup")
            \/ run[p].pc = "imported_replace" /\ FR!Stop(p)
  BY <1>1 DEF FR!ReplaceConfig, FR!At, FR!configVars
<1>3. CASE FR!Stop(p) /\ UNCHANGED <<config, tmp>>
  BY <1>1, <1>3, FirstRunStops
<1>4. ASSUME config' = tmp, tmp' = None, NEW pc \in {"dirs", "setup"}, FR!Go(p, pc),
             run[p].pc = IF pc = "setup" THEN "choose_replace" ELSE "upgrade_replace"
      PROVE  FirstRunInv'
  <2>1. Moves(p, pc) /\ pc \in RunPcs
    BY <1>4, GoMovesRun, RunPcsListed DEF FirstRunInv
  <2>2. Grows
    BY <1>1, <1>4 DEF Grows, FirstRunInv, FirstRunTypes
  <2>3. Provided(run[p])' /\ Served(run[p])'
    BY <1>1, <1>4, <2>1, AtWork
       DEF Moves, Provided, Served, ImportPcs, FromMemory, FromGovernance, Remembering
  <2>4. Lone(run[p]) => Followed(run[p])'
    BY <1>1, <1>4, <2>1, AtWork DEF Moves, Followed, Provided, FromGovernance, Remembering
  <2> QED
    BY <1>1, <2>1, <2>2, <2>3, <2>4, FirstRunMoves
     DEF PolicyPcs, ImportPcs
\* The configuration of an import is what it put into the file.
<1>5. CASE run[p].pc = "imported_replace" /\ FR!Stop(p) /\ config' = tmp /\ tmp' = None
  <2>1. /\ run' = [q \in Processes |-> run'[q]] /\ \A q \in Processes \ {p} : run'[q] = run[q]
        /\ run'[p] = FR!Idle
    BY <1>5 DEF FR!Stop, FirstRunInv, FirstRunTypes
  <2>2. FR!Idle \in RunRows
    BY RunPcsListed DEF RunRows, FR!Idle
  <2>3. FirstRunTypes'
    <3>1. run' \in [Processes -> RunRows]
      BY <2>1, <2>2 DEF FirstRunInv, FirstRunTypes
    <3> QED
      BY <1>1, <1>5, <3>1 DEF FirstRunInv, FirstRunTypes
  <2>4. ASSUME NEW q \in Processes
        PROVE  Provided(run[q])' /\ Served(run[q])' /\ Copied(run[q])'
    <3>1. CASE q = p
      BY <2>1, <3>1
         DEF FR!Idle, Provided, Served, Copied, ImportPcs, FromMemory, FromGovernance, Remembering
    <3>2. CASE q # p
      BY <1>1, <2>1, <3>2 DEF FirstRunInv, Provided, Served, Copied
    <3> QED
      BY <3>1, <3>2
  <2>5. \A q \in Processes : ~Lone(run[q])'
    BY <1>1, <2>1 DEF FR!Idle, FirstRunInv, Lone
  <2>6. PolicySettled' /\ SoleCopier'
    BY <1>1, <2>1 DEF FR!Idle, FirstRunInv, PolicySettled, SoleCopier, PolicyPcs
  <2> QED
    BY <2>3, <2>4, <2>5, <2>6 DEF FirstRunInv
<1> QED
  BY <1>2, <1>3, <1>4, <1>5

LEMMA MakeDirsKeeps ==
    ASSUME FirstRunInv, NEW p \in Processes, FR!MakeDirs(p)
    PROVE  FirstRunInv'
<1>1. /\ run[p].pc = "dirs"
      /\ UNCHANGED <<config, tmp, policyFile, hermes, updates, keys, installed, models>>
  BY DEF FR!MakeDirs, FR!At, FR!configVars, FR!stateVars, FR!countVars
<1>2. ASSUME NEW pc \in {"policy", "copy"}, FR!Go(p, pc), pc = "policy" => policyFile = None
      PROVE  FirstRunInv'
  <2>1. Moves(p, pc) /\ pc \in RunPcs
    BY <1>2, GoMovesRun, RunPcsListed DEF FirstRunInv
  <2>2. Provided(run[p])' /\ (Lone(run[p]) => Followed(run[p])')
    BY <1>1, <2>1, AtWork
       DEF Moves, Provided, Followed, ImportPcs, FromMemory, FromGovernance, Remembering
  <2> QED
    BY <1>1, <1>2, <2>1, <2>2, GoesOn DEF PolicyPcs, ImportPcs
<1> QED
  BY <1>2 DEF FR!MakeDirs

LEMMA CopyPolicyKeeps ==
    ASSUME FirstRunInv, NEW p \in Processes, FR!CopyPolicy(p)
    PROVE  FirstRunInv'
<1>1. /\ run[p].pc \in PolicyPcs
      /\ UNCHANGED <<config, tmp, hermes, updates, keys, installed, models>>
  BY DEF FR!CopyPolicy, FR!At, FR!configVars, FR!countVars, PolicyPcs
<1>2. PICK pc \in {"policy_write", "copy"} : FR!Go(p, pc)
  BY DEF FR!CopyPolicy
<1>3. Moves(p, pc) /\ pc \in RunPcs
  BY <1>2, GoMovesRun, RunPcsListed DEF FirstRunInv
<1>4. Grows
  BY <1>1 DEF Grows, FirstRunInv, FirstRunTypes
<1>5. Provided(run[p])' /\ Served(run[p])' /\ (Lone(run[p]) => Followed(run[p])')
  BY <1>1, <1>3, AtWork
     DEF Moves, Provided, Followed, Served, ImportPcs, PolicyPcs, FromMemory, FromGovernance,
         Remembering
<1>6. run[p].pc \notin {"idle", "serving", "copy_write"} /\ pc \notin ImportPcs /\ pc # "serving"
  BY <1>1 DEF PolicyPcs, ImportPcs
<1> QED
  BY <1>1, <1>3, <1>4, <1>5, <1>6, FirstRunMoves
     DEF PolicyPcs, ImportPcs

LEMMA CopyUpdateMetadataKeeps ==
    ASSUME FirstRunInv, NEW p \in Processes, FR!CopyUpdateMetadata(p)
    PROVE  FirstRunInv'
<1> DEFINE f == run[p].file
<1>1. /\ run[p].pc \in CopyPcs
      /\ UNCHANGED <<config, tmp, policyFile, hermes, keys, installed, models>>
  BY DEF FR!CopyUpdateMetadata, FR!At, FR!configVars, FR!countVars, CopyPcs
<1>2. /\ Provided(run[p]) /\ run[p] \in RunRows /\ Copied(run[p])
      /\ f \in Nat \ {0} /\ updates = [g \in DOMAIN UpdateFiles |-> updates[g]]
  BY DEF FirstRunInv, FirstRunTypes, RunRows
<1>3. run[p].kind # "import"
  BY <1>1, <1>2 DEF Provided, CopyPcs, ImportPcs
<1>4. ASSUME NEW pc \in {"copy", "copy_write", "memory"}, Moves(p, pc), Grows, Copied(run[p])',
             pc = "memory" => run'[p].file \notin DOMAIN UpdateFiles
      PROVE  FirstRunInv'
  <2>1. Provided(run[p])' /\ Served(run[p])' /\ (Lone(run[p]) => Followed(run[p])')
    BY <1>3, <1>4, AtWork
       DEF Moves, Provided, Followed, Served, ImportPcs, FromMemory, FromGovernance, Remembering
  <2>2. /\ run[p].pc \notin {"idle", "serving"} /\ pc \in RunPcs
        /\ pc \notin ImportPcs \cup PolicyPcs /\ pc # "serving"
    BY <1>1, <1>4, RunPcsListed DEF CopyPcs, ImportPcs, PolicyPcs
  <2> QED
    BY <1>1, <1>4, <2>1, <2>2, FirstRunMoves
     DEF PolicyPcs, ImportPcs
<1>5. CASE /\ run[p].pc = "copy" /\ f \in DOMAIN UpdateFiles
           /\ updates' = [updates EXCEPT ![f] = Torn] /\ FR!Go(p, "copy_write")
  <2>1. Moves(p, "copy_write")
    BY <1>5, GoMovesRun, RunPcsListed DEF FirstRunInv
  <2>2. Grows
    BY <1>1, <1>5 DEF Grows, FirstRunInv, FirstRunTypes
  <2>3. Copied(run[p])'
    <3>1. run'[p].file = f /\ run'[p].fresh = run[p].fresh
      BY <1>5, <2>1 DEF Moves
    <3>2. \A g \in DOMAIN UpdateFiles : g < f => updates'[g] = updates[g]
      BY <1>2, <1>5, FirstRunConstants
    <3> QED
      BY <1>1, <1>2, <3>1, <3>2 DEF Copied
  <2> QED
    BY <1>4, <2>1, <2>2, <2>3
<1>6. CASE /\ run[p].pc = "copy_write" /\ updates' = [updates EXCEPT ![f] = installed]
           /\ run' = [run EXCEPT ![p].pc = "copy", ![p].file = f + 1]
  <2>1. /\ run' = [q \in Processes |-> run'[q]]
        /\ \A q \in Processes \ {p} : run'[q] = run[q]
        /\ run'[p] = [run[p] EXCEPT !.pc = "copy", !.file = f + 1]
    BY <1>6 DEF FirstRunInv, FirstRunTypes, RunRows
  <2>2. f + 1 \in Nat \ {0}
    BY <1>2
  <2>3. Moves(p, "copy") /\ run'[p].file = f + 1
    BY <1>2, <1>6, <2>1, <2>2, RunPcsListed DEF Moves, RunRows
  <2>4. Grows
    BY <1>1, <1>6 DEF Grows, FirstRunInv, FirstRunTypes
  <2>5. Copied(run[p])'
    <3>1. ASSUME NEW g \in DOMAIN UpdateFiles, g < f + 1, run[p].fresh
          PROVE  updates'[g] = installed
      <4>1. g \in Nat
        BY FirstRunConstants
      <4>2. CASE g = f
        BY <1>2, <1>6, <4>2
      <4>3. CASE g # f
        BY <1>2, <1>6, <3>1, <4>1, <4>3 DEF Copied
      <4> QED
        BY <4>2, <4>3
    <3> QED
      BY <1>1, <2>3, <3>1 DEF Copied, Moves
  <2> QED
    BY <1>4, <2>3, <2>4, <2>5
<1>7. CASE f \notin DOMAIN UpdateFiles /\ UNCHANGED updates /\ FR!Go(p, "memory")
           /\ run[p].pc = "copy"
  <2>1. Moves(p, "memory") /\ run'[p].file = f
    BY <1>7, GoMovesRun, RunPcsListed DEF FirstRunInv, Moves
  <2>2. Grows
    BY <1>1, <1>7 DEF Grows, FirstRunInv, FirstRunTypes
  <2>3. Copied(run[p])'
    BY <1>1, <1>2, <1>7, <2>1 DEF Copied, Moves
  <2> QED
    BY <1>4, <1>7, <2>1, <2>2, <2>3
<1> QED
  BY <1>5, <1>6, <1>7 DEF FR!CopyUpdateMetadata, FR!At

LEMMA InitializeHermesMemoryKeeps ==
    ASSUME FirstRunInv, NEW p \in Processes, FR!InitializeHermesMemory(p)
    PROVE  FirstRunInv'
<1>1. /\ run[p].pc = "memory"
      /\ hermes' = IF hermes = "invalid" THEN hermes ELSE "maya"
      /\ UNCHANGED <<config, tmp, policyFile, updates, keys, installed, models>>
  BY DEF FR!InitializeHermesMemory, FR!At, FR!configVars, FR!countVars
<1>2. CASE FR!Stop(p)
  BY <1>1, <1>2, FirstRunStops
<1>3. CASE hermes # "invalid" /\ policyFile = "policy" /\ FR!Go(p, "governance")
  <2>1. Moves(p, "governance")
    BY <1>3, GoMovesRun, RunPcsListed DEF FirstRunInv
  <2>2. Grows
    BY <1>1 DEF Grows, FirstRunInv, FirstRunTypes
  <2>3. Provided(run[p])' /\ Served(run[p])' /\ (Lone(run[p]) => Followed(run[p])')
    BY <1>1, <1>3, <2>1, AtWork
       DEF Moves, Provided, Followed, Served, ImportPcs, FromMemory, FromGovernance, Remembering
  <2> QED
    BY <1>1, <2>1, <2>2, <2>3, FirstRunMoves, RunPcsListed
     DEF PolicyPcs, ImportPcs
<1> QED
  BY <1>2, <1>3 DEF FR!InitializeHermesMemory

LEMMA InitializeGovernanceKeeps ==
    ASSUME FirstRunInv, NEW p \in Processes, FR!InitializeGovernance(p)
    PROVE  FirstRunInv'
<1>1. /\ run[p].pc = "governance"
      /\ UNCHANGED <<config, tmp, policyFile, hermes, updates, keys, installed, models>>
  BY DEF FR!InitializeGovernance, FR!At, FR!configVars, FR!stateVars, FR!countVars
<1>2. CASE FR!Go(p, "token")
  <2>1. Moves(p, "token")
    BY <1>2, GoMovesRun, RunPcsListed DEF FirstRunInv
  <2>2. Provided(run[p])' /\ (Lone(run[p]) => Followed(run[p])')
    BY <1>1, <2>1, AtWork
       DEF Moves, Provided, Followed, ImportPcs, FromMemory, FromGovernance, Remembering
  <2> QED
    BY <1>1, <2>1, <2>2, GoesOn, RunPcsListed
     DEF PolicyPcs, ImportPcs
<1>3. CASE FR!Stop(p)
  BY <1>1, <1>3, FirstRunStops
<1> QED
  BY <1>2, <1>3 DEF FR!InitializeGovernance

LEMMA InitializeTokenKeeps ==
    ASSUME FirstRunInv, NEW p \in Processes, FR!InitializeToken(p)
    PROVE  FirstRunInv'
<1>1. /\ run[p].pc = "token"
      /\ UNCHANGED <<config, tmp, policyFile, hermes, updates, keys, installed, models>>
  BY DEF FR!InitializeToken, FR!At, FR!configVars, FR!stateVars, FR!countVars
<1>2. CASE FR!Go(p, "credential")
  <2>1. Moves(p, "credential")
    BY <1>2, GoMovesRun, RunPcsListed DEF FirstRunInv
  <2>2. Provided(run[p])' /\ (Lone(run[p]) => Followed(run[p])')
    BY <1>1, <2>1, AtWork
       DEF Moves, Provided, Followed, ImportPcs, FromMemory, FromGovernance, Remembering
  <2> QED
    BY <1>1, <2>1, <2>2, GoesOn, RunPcsListed
     DEF PolicyPcs, ImportPcs
<1>3. CASE FR!Stop(p)
  BY <1>1, <1>3, FirstRunStops
<1> QED
  BY <1>2, <1>3 DEF FR!InitializeToken

LEMMA ReadCredentialKeeps ==
    ASSUME FirstRunInv, NEW p \in Processes, FR!ReadCredential(p)
    PROVE  FirstRunInv'
<1>1. /\ run[p].pc = "credential"
      /\ UNCHANGED <<config, tmp, policyFile, hermes, updates, keys, installed, models>>
  BY DEF FR!ReadCredential, FR!At, FR!configVars, FR!stateVars, FR!countVars
<1>2. CASE FR!Stop(p)
  BY <1>1, <1>2, FirstRunStops
<1>3. ASSUME config \in FR!Configs, NEW pc \in {"ref", "key"}, FR!Read(p, pc),
             pc = "ref" => config.ref = NoRef
      PROVE  FirstRunInv'
  <2>1. Moves(p, pc) /\ run'[p].seen = config /\ pc \in RunPcs
    BY <1>3, ReadMovesRun, RunPcsListed DEF FirstRunInv
  <2>2. Provided(run[p])' /\ (Lone(run[p]) => Followed(run[p])')
    BY <1>1, <1>3, <2>1, AtWork
       DEF Moves, Provided, Followed, ImportPcs, FromMemory, FromGovernance, Remembering
  <2> QED
    BY <1>1, <2>1, <2>2, GoesOn
     DEF PolicyPcs, ImportPcs
<1>4. FR!Whole(config) => config \in FR!Configs
  BY AtWork DEF FR!Whole
<1> QED
  BY <1>2, <1>3, <1>4 DEF FR!ReadCredential

LEMMA WriteRefKeeps ==
    ASSUME FirstRunInv, NEW p \in Processes, FR!WriteRef(p)
    PROVE  FirstRunInv'
<1>1. /\ run[p].pc = "ref" /\ config' = Torn /\ FR!Go(p, "ref_write")
      /\ UNCHANGED <<tmp, policyFile, hermes, updates, keys, installed, models>>
  BY DEF FR!WriteRef, FR!At, FR!stateVars, FR!countVars
<1>2. Moves(p, "ref_write") /\ run'[p].seen = run[p].seen
  BY <1>1, GoMovesRun, RunPcsListed DEF FirstRunInv
<1>3. Grows
  BY <1>1 DEF Grows, FirstRunInv, FirstRunTypes
<1>4. Provided(run[p])' /\ Served(run[p])' /\ (Lone(run[p]) => Followed(run[p])')
  BY <1>1, <1>2, AtWork
     DEF Moves, Provided, Followed, Served, ImportPcs, FromMemory, FromGovernance, Remembering
<1> QED
  BY <1>1, <1>2, <1>3, <1>4, FirstRunMoves, RunPcsListed
     DEF PolicyPcs, ImportPcs

LEMMA WriteRefFinishKeeps ==
    ASSUME FirstRunInv, NEW p \in Processes, FR!WriteRefFinish(p)
    PROVE  FirstRunInv'
<1>1. PICK ref \in Refs :
         /\ config' = [run[p].seen EXCEPT !.ref = ref]
         /\ run' = [run EXCEPT ![p].pc = "key", ![p].seen.ref = ref]
  BY DEF FR!WriteRefFinish
<1>2. /\ run[p].pc = "ref_write"
      /\ UNCHANGED <<tmp, policyFile, hermes, updates, keys, installed, models>>
  BY DEF FR!WriteRefFinish, FR!At, FR!stateVars, FR!countVars
<1>3. run[p].seen \in FR!Configs
  BY <1>2, AtWork DEF Provided, Remembering
<1>4. config' \in FR!Configs
  BY <1>1, <1>3 DEF FR!Configs
<1>5. Moves(p, "key") /\ run'[p].seen = config'
  <2>1. /\ run' = [q \in Processes |-> run'[q]]
        /\ \A q \in Processes \ {p} : run'[q] = run[q]
        /\ run'[p] = [run[p] EXCEPT !.pc = "key", !.seen = config']
    BY <1>1 DEF FirstRunInv, FirstRunTypes, RunRows
  <2> QED
    BY <2>1, <1>4, AtWork, RunPcsListed DEF Moves, RunRows
<1>6. Grows
  BY <1>2, <1>4 DEF Grows, FirstRunInv, FirstRunTypes
<1>7. Provided(run[p])' /\ Served(run[p])' /\ (Lone(run[p]) => Followed(run[p])')
  BY <1>2, <1>4, <1>5, AtWork
     DEF Moves, Provided, Followed, Served, ImportPcs, FromMemory, FromGovernance, Remembering
<1> QED
  BY <1>2, <1>5, <1>6, <1>7, FirstRunMoves, RunPcsListed
     DEF PolicyPcs, ImportPcs

LEMMA StoreKeyKeeps ==
    ASSUME FirstRunInv, NEW p \in Processes, FR!StoreKey(p)
    PROVE  FirstRunInv'
<1>1. /\ run[p].pc = "key"
      /\ UNCHANGED <<config, tmp, policyFile, hermes, updates, installed, models>>
  BY DEF FR!StoreKey, FR!At, FR!configVars, FR!countVars
<1>2. CASE FR!Stop(p) /\ UNCHANGED keys
  BY <1>1, <1>2, FirstRunStops
<1>3. CASE FR!Go(p, "model") /\ keys \subseteq keys' /\ run[p].seen.ref \in keys'
  <2>1. Moves(p, "model") /\ run'[p].seen = run[p].seen
    BY <1>3, GoMovesRun, RunPcsListed DEF FirstRunInv
  <2>2. Grows
    BY <1>1, <1>3 DEF Grows, FirstRunInv, FirstRunTypes
  <2>3. Provided(run[p])' /\ Served(run[p])'
    BY <1>1, <1>3, <2>1, AtWork
       DEF Moves, Provided, Served, ImportPcs, FromMemory, FromGovernance, Remembering
  <2>4. Lone(run[p]) => Followed(run[p])'
    BY <1>1, <1>3, <2>1, AtWork DEF Moves, Followed, Provided, FromGovernance, Remembering
  <2> QED
    BY <1>1, <2>1, <2>2, <2>3, <2>4, FirstRunMoves, RunPcsListed
     DEF PolicyPcs, ImportPcs
<1> QED
  BY <1>2, <1>3 DEF FR!StoreKey

LEMMA SelectModelKeeps ==
    ASSUME FirstRunInv, NEW p \in Processes, FR!SelectModel(p)
    PROVE  FirstRunInv'
<1>1. /\ run[p].pc = "model"
      /\ UNCHANGED <<config, tmp, policyFile, hermes, updates, keys, installed, models>>
  BY DEF FR!SelectModel, FR!At, FR!configVars, FR!stateVars, FR!countVars
<1>2. CASE FR!Stop(p)
  BY <1>1, <1>2, FirstRunStops
<1>3. CASE config.model # 0 /\ FR!Go(p, "setup")
  <2>1. Moves(p, "setup")
    BY <1>3, GoMovesRun, RunPcsListed DEF FirstRunInv
  <2>2. Provided(run[p])'
    BY <1>1, <2>1, AtWork
       DEF Moves, Provided, ImportPcs, FromMemory, FromGovernance, Remembering
  <2>3. Lone(run[p]) => Followed(run[p])'
    BY <1>1, <1>3, <2>1, AtWork DEF Moves, Followed, FromGovernance
  <2> QED
    BY <1>1, <2>1, <2>2, <2>3, GoesOn, RunPcsListed
     DEF PolicyPcs, ImportPcs
<1>4. CASE config \in FR!Configs /\ config.model = 0 /\ FR!Read(p, "ask")
  <2>1. Moves(p, "ask") /\ run'[p].seen = config
    BY <1>4, ReadMovesRun, RunPcsListed DEF FirstRunInv
  <2>2. Provided(run[p])'
    BY <1>1, <1>4, <2>1, AtWork
       DEF Moves, Provided, ImportPcs, FromMemory, FromGovernance, Remembering
  <2>3. Lone(run[p]) => Followed(run[p])'
    BY <1>1, <1>4, <2>1, AtWork DEF Moves, Followed, FromGovernance
  <2> QED
    BY <1>1, <2>1, <2>2, <2>3, GoesOn, RunPcsListed
     DEF PolicyPcs, ImportPcs
<1>5. FR!Whole(config) => config \in FR!Configs
  BY AtWork DEF FR!Whole
<1> QED
  BY <1>2, <1>3, <1>4, <1>5 DEF FR!SelectModel

LEMMA AskModelKeeps ==
    ASSUME FirstRunInv, NEW p \in Processes, FR!AskModel(p)
    PROVE  FirstRunInv'
<1>1. /\ run[p].pc = "ask"
      /\ UNCHANGED <<config, tmp, policyFile, hermes, updates, keys, installed>>
  BY DEF FR!AskModel, FR!At, FR!configVars, FR!stateVars
<1>2. CASE FR!Stop(p) /\ UNCHANGED models
  BY <1>1, <1>2, FirstRunStops
<1>3. CASE /\ models < MaxModel /\ models' = models + 1
           /\ run' = [run EXCEPT ![p].seen.model = models + 1, ![p].pc = "choose"]
  <2>1. run[p].seen \in FR!Configs /\ models' \in 1..MaxModel
    BY <1>1, <1>3, AtWork, FirstRunConstants DEF Provided, Remembering
  <2> DEFINE chosen == [run[p].seen EXCEPT !.model = models']
  <2>2. /\ chosen \in FR!Configs /\ chosen.model # 0 /\ chosen.ref = run[p].seen.ref
        /\ chosen.edition = run[p].seen.edition /\ chosen.retriever = run[p].seen.retriever
    BY <2>1, FirstRunConstants DEF FR!Configs
  <2>3. /\ run' = [q \in Processes |-> run'[q]]
        /\ \A q \in Processes \ {p} : run'[q] = run[q]
        /\ run'[p] = [run[p] EXCEPT !.pc = "choose", !.seen = chosen]
    BY <1>3 DEF FirstRunInv, FirstRunTypes, RunRows
  <2> HIDE DEF chosen
  <2>4. Moves(p, "choose") /\ run'[p].seen = chosen
    BY <2>2, <2>3, AtWork, RunPcsListed DEF Moves, RunRows
  <2>5. Grows
    BY <1>1, <2>1 DEF Grows, FirstRunInv, FirstRunTypes
  <2>6. Provided(run[p])' /\ Served(run[p])'
    BY <1>1, <2>2, <2>4, AtWork
       DEF Moves, Provided, Served, ImportPcs, FromMemory, FromGovernance, Remembering
  <2>7. Lone(run[p]) => Followed(run[p])'
    BY <1>1, <2>2, <2>4, AtWork DEF Moves, Followed, FromGovernance
  <2> QED
    BY <1>1, <2>4, <2>5, <2>6, <2>7, FirstRunMoves, RunPcsListed
     DEF PolicyPcs, ImportPcs
<1> QED
  BY <1>2, <1>3 DEF FR!AskModel

LEMMA SetupInitKeeps ==
    ASSUME FirstRunInv, NEW p \in Processes, FR!SetupInit(p)
    PROVE  FirstRunInv'
<1>1. /\ run[p].pc = "setup"
      /\ UNCHANGED <<config, tmp, policyFile, hermes, updates, keys, installed, models>>
  BY DEF FR!SetupInit, FR!At, FR!configVars, FR!stateVars, FR!countVars
<1>2. CASE FR!Stop(p)
  BY <1>1, <1>2, FirstRunStops
<1>3. ASSUME NEW pc \in {"start", "doctor"}, FR!Go(p, pc) PROVE FirstRunInv'
  <2>1. Moves(p, pc) /\ pc \in RunPcs
    BY <1>3, GoMovesRun, RunPcsListed DEF FirstRunInv
  <2>2. Provided(run[p])'
    BY <1>1, <2>1, AtWork
       DEF Moves, Provided, ImportPcs, FromMemory, FromGovernance, Remembering
  <2>3. Lone(run[p]) => Followed(run[p])'
    BY <1>1, <2>1, AtWork DEF Moves, Followed, FromGovernance
  <2> QED
    BY <1>1, <2>1, <2>2, <2>3, GoesOn
     DEF PolicyPcs, ImportPcs
<1> QED
  BY <1>2, <1>3 DEF FR!SetupInit

LEMMA ServeKeeps ==
    ASSUME FirstRunInv, NEW p \in Processes, FR!Serve(p)
    PROVE  FirstRunInv'
<1>1. /\ run[p].pc = "start"
      /\ UNCHANGED <<config, tmp, policyFile, hermes, updates, keys, installed, models>>
  BY DEF FR!Serve, FR!At, FR!configVars, FR!stateVars, FR!countVars
<1>2. CASE FR!Stop(p)
  BY <1>1, <1>2, FirstRunStops
<1>3. CASE config \in FR!Configs /\ config.model # 0 /\ FR!Read(p, "serving")
  <2>1. Moves(p, "serving") /\ run'[p].seen = config
    BY <1>3, ReadMovesRun, RunPcsListed DEF FirstRunInv
  <2>2. Grows
    BY <1>1, StillGrows DEF FirstRunInv
  <2>3. Provided(run[p])' /\ (Lone(run[p]) => Followed(run[p])')
    BY <1>1, <1>3, <2>1, AtWork
       DEF Moves, Provided, Followed, ImportPcs, FromMemory, FromGovernance, Remembering
  <2>4. Served(run[p])'
    BY <1>1, <1>3, <2>1, AtWork DEF Moves, Served, Followed, Lone
  <2> QED
    BY <1>1, <2>1, <2>2, <2>3, <2>4, FirstRunMoves, RunPcsListed
     DEF PolicyPcs, ImportPcs
<1>4. FR!Whole(config) => config \in FR!Configs
  BY AtWork DEF FR!Whole
<1> QED
  BY <1>2, <1>3, <1>4 DEF FR!Serve

LEMMA ReadImportKeeps ==
    ASSUME FirstRunInv, NEW p \in Processes, FR!ReadImport(p)
    PROVE  FirstRunInv'
<1>1. /\ run[p].pc = "import"
      /\ UNCHANGED <<config, tmp, policyFile, hermes, updates, keys, installed, models>>
  BY DEF FR!ReadImport, FR!At, FR!configVars, FR!stateVars, FR!countVars
<1>2. CASE FR!Stop(p)
  BY <1>1, <1>2, FirstRunStops
<1>3. CASE \E c \in Imports : run' = [run EXCEPT ![p].pc = "import_write", ![p].seen = c]
  <2>1. PICK c \in Imports : run' = [run EXCEPT ![p].pc = "import_write", ![p].seen = c]
    BY <1>3
  <2>2. c \in FR!Configs
    BY FirstRunConstants
  <2>3. /\ run' = [q \in Processes |-> run'[q]]
        /\ \A q \in Processes \ {p} : run'[q] = run[q]
        /\ run'[p] = [run[p] EXCEPT !.pc = "import_write", !.seen = c]
    BY <2>1 DEF FirstRunInv, FirstRunTypes, RunRows
  <2>4. Moves(p, "import_write") /\ run'[p].seen = c
    BY <2>2, <2>3, AtWork, RunPcsListed DEF Moves, RunRows
  <2>5. run[p].kind = "import"
    BY <1>1, AtWork DEF Provided, ImportPcs
  <2>6. Provided(run[p])' /\ (Lone(run[p]) => Followed(run[p])')
    BY <1>1, <2>2, <2>4, <2>5, AtWork
       DEF Moves, Provided, Followed, ImportPcs, FromMemory, FromGovernance, Remembering
  <2> QED
    BY <1>1, <2>4, <2>6, GoesOn, RunPcsListed
     DEF PolicyPcs, ImportPcs
<1> QED
  BY <1>2, <1>3 DEF FR!ReadImport

LEMMA LaunchKeeps ==
    ASSUME FirstRunInv, NEW p \in Processes,
           NEW kind \in {"setup", "start", "doctor", "import"}, FR!Launch(p, kind)
    PROVE  FirstRunInv'
<1> DEFINE lone == \A q \in Processes : run[q].pc \in {"idle", "serving"}
           sole == \A q \in Processes : run[q].pc \in {"idle", "serving"} \/ run[q].kind = "import"
<1>1. /\ UNCHANGED <<config, tmp, policyFile, hermes, updates, keys, installed, models>>
      /\ run' = [q \in Processes |->
              IF q = p THEN [kind |-> kind, seen |-> None, file |-> 1, alone |-> lone,
                             fresh |-> sole,
                             pc |-> IF kind = "import" THEN "import" ELSE "config"]
              ELSE [run[q] EXCEPT !.alone = @ /\ run[q].pc = "serving",
                                  !.fresh = @ /\ kind = "import"]]
      /\ run[p].pc = "idle"
  BY DEF FR!Launch, FR!Active, FR!At, FR!Quiet, FR!configVars, FR!stateVars
<1>2. lone \in BOOLEAN /\ sole \in BOOLEAN
  OBVIOUS
<1> HIDE DEF lone, sole
<1>3. /\ run'[p] \in RunRows /\ (run'[p].alone <=> lone) /\ (run'[p].fresh <=> sole)
      /\ run'[p].kind = kind /\ run'[p].file = 1
      /\ run'[p].pc = IF kind = "import" THEN "import" ELSE "config"
  <2> DEFINE pc == IF kind = "import" THEN "import" ELSE "config"
             row == [kind |-> kind, seen |-> None, file |-> 1, alone |-> lone, fresh |-> sole,
                     pc |-> pc]
  <2>1. run'[p] = row
    BY <1>1
  <2>2. row \in RunRows
    BY <1>2, RunPcsListed DEF RunRows
  <2>3. (row.alone <=> lone) /\ (row.fresh <=> sole)
    BY Zenon
  <2>4. row.kind = kind /\ row.file = 1 /\ row.pc = pc
    OBVIOUS
  <2> HIDE DEF row
  <2> QED
    BY <2>1, <2>2, <2>3, <2>4
<1>4. ASSUME NEW q \in Processes \ {p}
      PROVE  /\ run'[q] \in RunRows /\ run'[q].kind = run[q].kind /\ run'[q].pc = run[q].pc
             /\ run'[q].seen = run[q].seen /\ run'[q].file = run[q].file
             /\ (run'[q].fresh <=> run[q].fresh /\ kind = "import")
             /\ (run'[q].alone <=> run[q].alone /\ run[q].pc = "serving")
  BY <1>1, AtWork DEF RunRows
<1>5. FirstRunTypes'
  <2>1. run' \in [Processes -> RunRows]
    BY <1>1, <1>3, <1>4
  <2> QED
    BY <1>1, <2>1 DEF FirstRunInv, FirstRunTypes
<1>6. ASSUME NEW q \in Processes PROVE Provided(run[q])' /\ Served(run[q])' /\ Copied(run[q])'
  <2>1. CASE q = p
    <3>1. Provided(run[q])' /\ Served(run[q])'
      BY <1>3, <2>1
         DEF Provided, Served, ImportPcs, FromMemory, FromGovernance, Remembering
    <3>2. \A f \in DOMAIN UpdateFiles : ~(f < 1)
      BY FirstRunConstants
    <3> QED
      BY <1>3, <2>1, <3>1, <3>2 DEF Copied
  <2>2. CASE q # p
    <3>1. Provided(run[q]) /\ Served(run[q]) /\ Copied(run[q])
      BY DEF FirstRunInv
    <3>2. Provided(run[q])'
      BY <1>1, <1>4, <2>2, <3>1 DEF Provided
    <3>3. Served(run[q])'
      <4>1. run'[q].pc = run[q].pc /\ run'[q].seen = run[q].seen /\ (run'[q].alone => run[q].alone)
        BY <1>4, <2>2
      <4>2. keys' = keys
        BY <1>1
      <4> QED
        BY <3>1, <4>1, <4>2, Zenon DEF Served
    <3>4. Copied(run[q])'
      BY <1>1, <1>4, <2>2, <3>1 DEF Copied
    <3> QED
      BY <3>2, <3>3, <3>4
  <2> QED
    BY <2>1, <2>2
<1>7. ASSUME NEW q \in Processes, Lone(run[q])'
      PROVE  /\ Followed(run[q])'
             /\ \A s \in Processes \ {q} : run'[s].pc \in {"idle", "serving"}
  <2>1. q = p
    BY <1>4, <1>7 DEF Lone
  <2>2. Followed(run[q])'
    BY <1>3, <2>1 DEF Followed, FromGovernance
  <2>3. \A s \in Processes \ {q} : run'[s].pc \in {"idle", "serving"}
    BY <1>3, <1>4, <1>7, <2>1 DEF Lone, lone
  <2> QED
    BY <2>2, <2>3
<1>8. PolicySettled'
  BY <1>1, <1>3, <1>4 DEF FirstRunInv, PolicySettled, PolicyPcs
<1>9. SoleCopier'
  <2> SUFFICES ASSUME NEW q \in Processes, run'[q].fresh, NEW s \in Processes \ {q}
               PROVE  run'[s].pc \in {"idle", "serving"} \cup ImportPcs
    BY DEF SoleCopier
  <2>1. CASE q = p
    <3>1. run'[s].pc = run[s].pc /\ (run[s].pc \in {"idle", "serving"} \/ run[s].kind = "import")
      BY <1>3, <1>4, <2>1 DEF sole
    <3> QED
      BY <3>1 DEF FirstRunInv, Provided
  <2>2. CASE q # p
    <3>1. run[q].fresh /\ kind = "import"
      BY <1>4, <2>2
    <3>2. run[s].pc \in {"idle", "serving"} \cup ImportPcs
      BY <3>1 DEF FirstRunInv, SoleCopier
    <3> QED
      BY <1>3, <1>4, <3>1, <3>2 DEF ImportPcs
  <2> QED
    BY <2>1, <2>2
<1> QED
  BY <1>5, <1>6, <1>7, <1>8, <1>9 DEF FirstRunInv

LEMMA FirstRunAmbient ==
    ASSUME FirstRunInv, UNCHANGED <<tmp, updates, models>>,
           run' = run, config' = config \/ \A p \in Processes : run[p].pc = "idle",
           config' \in FR!Configs \cup {None, Torn}, keys \subseteq keys', installed' = installed,
           hermes' = hermes \/ \A p \in Processes : run[p].pc = "idle",
           policyFile' = policyFile \/ \A p \in Processes : run[p].pc = "idle"
    PROVE  FirstRunInv'
<1>1. FirstRunTypes'
  BY DEF FirstRunInv, FirstRunTypes
<1>2. ASSUME NEW q \in Processes PROVE Provided(run[q])' /\ Served(run[q])'
  BY DEF FirstRunInv, Provided, Served, FromMemory, FromGovernance
<1>3. ASSUME NEW q \in Processes, Lone(run[q])' PROVE Followed(run[q])'
  BY <1>3 DEF FirstRunInv, Lone, Followed
<1>4. \A q, s \in Processes :
         Lone(run[q])' /\ s # q => run'[s].pc \in {"idle", "serving"}
  BY DEF FirstRunInv, Lone
<1>5. \A q \in Processes : Copied(run[q])'
  BY DEF FirstRunInv, Copied
<1>6. PolicySettled' /\ SoleCopier'
  BY DEF FirstRunInv, PolicySettled, SoleCopier
<1> QED
  BY <1>1, <1>2, <1>3, <1>4, <1>5, <1>6 DEF FirstRunInv

LEMMA UpgradeKeeps ==
    ASSUME FirstRunInv, FR!Upgrade
    PROVE  FirstRunInv'
<1>1. /\ UNCHANGED <<config, tmp, policyFile, hermes, updates, keys, models>>
      /\ run' = [p \in Processes |-> [run[p] EXCEPT !.fresh = FALSE]]
  BY DEF FR!Upgrade, FR!configVars, FR!countVars
<1>2. ASSUME NEW q \in Processes
      PROVE  /\ run'[q] \in RunRows /\ run'[q].kind = run[q].kind /\ run'[q].pc = run[q].pc
             /\ run'[q].seen = run[q].seen /\ run'[q].alone = run[q].alone /\ ~run'[q].fresh
             /\ run'[q].file = run[q].file
  BY <1>1, AtWork DEF RunRows
<1>3. FirstRunTypes'
  <2>1. run' \in [Processes -> RunRows]
    BY <1>1, <1>2
  <2> QED
    BY <1>1, <2>1 DEF FirstRunInv, FirstRunTypes
<1>4. ASSUME NEW q \in Processes PROVE Provided(run[q])' /\ Served(run[q])' /\ Copied(run[q])'
  BY <1>1, <1>2 DEF FirstRunInv, Provided, Served, Copied
<1>5. ASSUME NEW q \in Processes, Lone(run[q])'
      PROVE  /\ Followed(run[q])'
             /\ \A s \in Processes \ {q} : run'[s].pc \in {"idle", "serving"}
  <2>1. Lone(run[q])
    BY <1>2, <1>5 DEF Lone
  <2>2. Followed(run[q])'
    BY <1>1, <1>2, <2>1 DEF FirstRunInv, Followed
  <2> QED
    BY <1>2, <2>1, <2>2 DEF FirstRunInv
<1>6. PolicySettled' /\ SoleCopier'
  BY <1>1, <1>2 DEF FirstRunInv, PolicySettled, SoleCopier
<1> QED
  BY <1>3, <1>4, <1>5, <1>6 DEF FirstRunInv

LEMMA FirstRunStep ==
    ASSUME FirstRunInv, FR!Next
    PROVE  FirstRunInv'
<1>1. ASSUME NEW p \in Processes, FR!Step(p) PROVE FirstRunInv'
  <2>1. CASE FR!Leave(p) \/ FR!Kill(p)
    BY <2>1, FirstRunStops DEF FR!Leave, FR!Kill, FR!configVars, FR!stateVars, FR!countVars
  <2>2. CASE FR!PrepareConfig(p) \/ FR!CreateConfig(p) \/ FR!CreateFinish(p) \/ FR!OpenTmp(p)
             \/ FR!WriteTmp(p) \/ FR!ReplaceConfig(p) \/ FR!MakeDirs(p)
             \/ FR!CopyPolicy(p) \/ FR!CopyUpdateMetadata(p) \/ FR!InitializeHermesMemory(p)
    BY <2>2, PrepareConfigKeeps, CreateConfigKeeps, CreateFinishKeeps, OpenTmpKeeps,
       WriteTmpKeeps, ReplaceConfigKeeps, MakeDirsKeeps, CopyPolicyKeeps,
       CopyUpdateMetadataKeeps, InitializeHermesMemoryKeeps
  <2>3. CASE FR!InitializeGovernance(p) \/ FR!InitializeToken(p) \/ FR!ReadCredential(p)
             \/ FR!WriteRef(p) \/ FR!WriteRefFinish(p) \/ FR!StoreKey(p) \/ FR!SelectModel(p)
             \/ FR!AskModel(p) \/ FR!SetupInit(p) \/ FR!Serve(p) \/ FR!ReadImport(p)
    BY <2>3, InitializeGovernanceKeeps, InitializeTokenKeeps, ReadCredentialKeeps, WriteRefKeeps,
       WriteRefFinishKeeps, StoreKeyKeeps, SelectModelKeeps, AskModelKeeps, SetupInitKeeps,
       ServeKeeps, ReadImportKeeps
  <2>4. CASE \E kind \in {"setup", "start", "doctor", "import"} : FR!Launch(p, kind)
    BY <2>4, LaunchKeeps
  <2> QED
    BY <1>1, <2>1, <2>2, <2>3, <2>4 DEF FR!Step
<1>2. ASSUME NEW ref \in Refs, FR!RotateSecret(ref) PROVE FirstRunInv'
  BY <1>2, FirstRunAmbient DEF FR!RotateSecret, FR!configVars, FR!countVars, FirstRunInv,
     FirstRunTypes
<1>3. CASE FR!Upgrade
  BY <1>3, UpgradeKeeps
<1>4. CASE FR!UserClears
  BY <1>4, FirstRunAmbient
     DEF FR!UserClears, FR!Active, FR!countVars, FirstRunInv, FirstRunTypes
<1> QED
  BY <1>1, <1>2, <1>3, <1>4 DEF FR!Next

THEOREM FirstRunInductive == Spec => []FirstRunInv
<1>1. ASSUME FR!Init PROVE FirstRunInv
  <2>1. FR!Idle \in RunRows
    BY RunPcsListed DEF RunRows, FR!Idle
  <2>2. config \in FR!Configs \cup {None}
    BY <1>1, FirstRunConstants DEF FR!Init, FR!Configs
  <2>3. FirstRunTypes
    BY <1>1, <2>1, <2>2, FirstRunConstants DEF FR!Init, FirstRunTypes
  <2>4. \A p \in Processes : run[p] = FR!Idle
    BY <1>1 DEF FR!Init
  <2>5. \A p \in Processes : Provided(run[p]) /\ Served(run[p]) /\ Copied(run[p]) /\ ~Lone(run[p])
    BY <2>4 DEF FR!Idle, Provided, Served, Copied, Lone, ImportPcs, FromMemory, FromGovernance,
       Remembering
  <2>6. PolicySettled /\ SoleCopier
    BY <2>4 DEF FR!Idle, PolicySettled, SoleCopier
  <2> QED
    BY <2>3, <2>5, <2>6 DEF FirstRunInv
<1>2. FirstRunInv /\ [Next]_vars => FirstRunInv'
  <2> SUFFICES ASSUME FirstRunInv, [Next]_vars PROVE FirstRunInv'
    OBVIOUS
  <2>1. CASE FR!Next
    BY <2>1, FirstRunStep
  <2>2. CASE UNCHANGED runVars
    BY <2>2, FirstRunAmbient DEF runVars, FirstRunInv, FirstRunTypes
  <2> QED
    BY <2>1, <2>2 DEF Next, vars
<1> QED
  BY <1>1, <1>2, PTL DEF Init, Spec

\* The server that Start Maya launched by itself keeps what the script checked:
\* a model and its key, a whole policy, Maya's memory in Hermes.  Until the next
\* upgrade or first run the update metadata is that of the payload, although
\* every run copies it in place and any may be killed (maya_first_run.py,
\* serve-local-api).
THEOREM LaunchedServersAreComplete == Spec => []LaunchedIsComplete
<1>1. ASSUME FirstRunInv PROVE LaunchedIsComplete
  <2>1. ASSUME NEW p \in Processes, FR!At(p, "serving")
        PROVE  /\ run[p].alone => /\ run[p].seen.model # 0 /\ run[p].seen.ref \in keys
                                  /\ policyFile = "policy" /\ hermes = "maya"
               /\ run[p].fresh => \A f \in DOMAIN UpdateFiles : updates[f] = installed
    <3>1. run[p].pc = "serving" /\ Provided(run[p]) /\ Served(run[p]) /\ Copied(run[p])
      BY <1>1, <2>1 DEF FR!At, FirstRunInv
    <3>2. run[p].file \notin DOMAIN UpdateFiles /\ run[p].file \in Nat \ {0}
      BY <1>1, <3>1 DEF Provided, FromMemory, FromGovernance, FirstRunInv, FirstRunTypes, RunRows
    <3>3. \A f \in DOMAIN UpdateFiles : f < run[p].file
      BY <3>2, FirstRunConstants
    <3>4. run[p].alone => policyFile = "policy"
      BY <1>1, <3>1 DEF FirstRunInv, PolicySettled
    <3> QED
      BY <3>1, <3>3, <3>4 DEF Served, Provided, Copied, FromGovernance
  <2> QED
    BY <2>1 DEF LaunchedIsComplete, FR!LaunchedIsComplete
<1> QED
  BY <1>1, FirstRunInductive, PTL

-----------------------------------------------------------------------------
\* What the file says, if one process may be writing the reference.
LEMMA SaidByTheFile ==
    ASSUME \A p \in Processes : run[p].pc # "ref_write"
    PROVE  FR!Said = config
  BY DEF FR!Said, FR!Writing, FR!At

LEMMA SaidByTheWriter ==
    ASSUME NEW p \in Processes, run[p].pc = "ref_write",
           \A q \in Processes \ {p} : run[q].pc # "ref_write"
    PROVE  FR!Said = run[p].seen
<1>1. FR!Writing = {p}
  BY DEF FR!Writing, FR!At
<1>2. (CHOOSE q \in {p} : TRUE) = p
  OBVIOUS
<1> QED
  BY <1>1, <1>2 DEF FR!Said

\* A step that neither writes the file nor ends a write leaves what it says.
LEMMA SaidStays ==
    ASSUME config' = config,
           \A p \in Processes : run'[p].pc = "ref_write" <=> run[p].pc = "ref_write",
           \A p \in Processes : run[p].pc = "ref_write" => run'[p].seen = run[p].seen
    PROVE  FR!Said' = FR!Said
<1>1. FR!Writing' = FR!Writing
  BY DEF FR!Writing, FR!At
<1>2. FR!Writing # {} => (CHOOSE p \in FR!Writing : TRUE) \in FR!Writing
  OBVIOUS
<1>3. ASSUME FR!Writing # {}
      PROVE  run'[CHOOSE p \in FR!Writing : TRUE].seen = run[CHOOSE p \in FR!Writing : TRUE].seen
  BY <1>2, <1>3 DEF FR!Writing, FR!At
<1> QED
  BY <1>1, <1>3 DEF FR!Said

\* How one process, alone at work, may change what the file says.
Kept(p) ==
    \/ FR!At(p, "ref_write") /\ run'[p].pc = "idle"
    \/ FR!Whole(FR!Said') /\ FR!Keeps(FR!Said, FR!Said')
    \/ run[p].kind = "import" /\ config' = run[p].seen /\ FR!Whole(config')

\* A write of the reference completes, or a kill tears the file.
LEMMA WriterKeeps ==
    ASSUME FirstRunInv, FirstRunInv', NEW p \in Processes, FR!Step(p), Lone(run[p]),
           run[p].pc = "ref_write"
    PROVE  Kept(p)
<1>1. Followed(run[p]) /\ \A q \in Processes \ {p} : run[q].pc \in {"idle", "serving"}
  BY DEF FirstRunInv
<1>2. FR!Said = run[p].seen /\ run[p].seen \in FR!Configs /\ run[p].seen.ref = NoRef
  BY <1>1, AtWork, SaidByTheWriter DEF Followed, Provided, Remembering
<1>3. CASE FR!Kill(p)
  BY <1>3, AtWork DEF FR!Kill, FR!Stop, FR!Idle, Kept, FR!At, FirstRunInv, FirstRunTypes
<1>4. CASE FR!WriteRefFinish(p)
  <2>1. PICK ref \in Refs :
           /\ config' = [run[p].seen EXCEPT !.ref = ref]
           /\ run' = [run EXCEPT ![p].pc = "key", ![p].seen.ref = ref]
    BY <1>4 DEF FR!WriteRefFinish
  <2>2. config' \in FR!Configs
    BY <1>2, <2>1 DEF FR!Configs
  <2>3. \A q \in Processes : run'[q].pc # "ref_write"
    BY <1>1, <2>1 DEF FirstRunInv, FirstRunTypes, RunRows
  <2>4. FR!Said' = config'
    BY <2>3 DEF FR!Said, FR!Writing, FR!At
  <2>5. FR!Keeps(run[p].seen, config')
    BY <1>2, <2>1 DEF FR!Keeps, FR!Configs
  <2>6. FR!Whole(config')
    BY <2>2, FirstRunConstants DEF FR!Whole
  <2> QED
    BY <1>2, <2>4, <2>5, <2>6 DEF Kept
<1> QED
  BY <1>3, <1>4 DEF FR!Step, FR!At, FR!PrepareConfig, FR!CreateConfig, FR!CreateFinish, FR!OpenTmp,
     FR!WriteTmp, FR!ReplaceConfig, FR!MakeDirs, FR!CopyPolicy, FR!CopyUpdateMetadata,
     FR!InitializeHermesMemory, FR!InitializeGovernance, FR!InitializeToken, FR!ReadCredential,
     FR!WriteRef, FR!StoreKey, FR!SelectModel, FR!AskModel, FR!SetupInit, FR!Serve, FR!Leave,
     FR!ReadImport, FR!Launch, FR!Active

\* An upgrade, a choice and an import replace the file as a whole.
LEMMA ReplacerKeeps ==
    ASSUME FirstRunInv, NEW p \in Processes, FR!ReplaceConfig(p), Lone(run[p]),
           config \in FR!Configs
    PROVE  Kept(p)
<1>1. Followed(run[p]) /\ \A q \in Processes \ {p} : run[q].pc \in {"idle", "serving"}
  BY DEF FirstRunInv
<1>2. run[p].pc \in {"upgrade_replace", "choose_replace", "imported_replace"}
  BY DEF FR!ReplaceConfig
<1>3. FR!Said = config
  BY <1>1, <1>2, SaidByTheFile
<1>4. FR!Said' = config'
  <2>1. \A q \in Processes : run'[q].pc # "ref_write"
    BY <1>1, <1>2
       DEF FR!ReplaceConfig, FR!Go, FR!Stop, FR!Idle, FirstRunInv, FirstRunTypes, RunRows
  <2> QED
    BY <2>1 DEF FR!Said, FR!Writing, FR!At
<1>5. run[p].seen \in FR!Configs
  BY <1>2, AtWork DEF Provided, Remembering
<1>6. config' = config \/ config' = tmp
  BY DEF FR!ReplaceConfig, FR!configVars
<1>7. \A c \in FR!Configs : FR!Whole(c) /\ FR!Keeps(c, c)
  BY FirstRunConstants DEF FR!Whole, FR!Keeps
<1>8. CASE config' = config
  BY <1>3, <1>4, <1>7, <1>8 DEF Kept
<1>9. CASE config' = tmp /\ run[p].pc = "upgrade_replace"
  <2>1. tmp = [config EXCEPT !.retriever = "local_vector"]
    BY <1>1, <1>9 DEF Followed
  <2>2. tmp \in FR!Configs /\ FR!Keeps(config, tmp)
    BY <2>1 DEF FR!Configs, FR!Keeps
  <2> QED
    BY <1>3, <1>4, <1>7, <1>9, <2>2 DEF Kept
<1>10. CASE config' = tmp /\ run[p].pc = "choose_replace"
  <2>1. tmp = run[p].seen /\ FR!Keeps(config, tmp)
    BY <1>1, <1>10 DEF Followed, FR!Keeps
  <2> QED
    BY <1>3, <1>4, <1>5, <1>7, <1>10, <2>1 DEF Kept
<1>11. CASE config' = tmp /\ run[p].pc = "imported_replace"
  <2>1. tmp = run[p].seen /\ run[p].kind = "import"
    BY <1>1, <1>11, AtWork DEF Followed, Provided, ImportPcs
  <2> QED
    BY <1>5, <1>7, <1>11, <2>1 DEF Kept
<1> QED
  BY <1>2, <1>6, <1>8, <1>9, <1>10, <1>11

\* The reference is opened over what the process has read.
LEMMA OpenerKeeps ==
    ASSUME FirstRunInv, NEW p \in Processes, FR!WriteRef(p), Lone(run[p]),
           config \in FR!Configs
    PROVE  Kept(p)
<1>1. Followed(run[p]) /\ \A q \in Processes \ {p} : run[q].pc \in {"idle", "serving"}
  BY DEF FirstRunInv
<1>2. run[p].pc = "ref" /\ run[p].seen = config
  BY <1>1 DEF FR!WriteRef, FR!At, Followed
<1>3. FR!Said = config
  BY <1>1, <1>2, SaidByTheFile
<1>4. /\ run'[p].pc = "ref_write" /\ run'[p].seen = config
      /\ \A q \in Processes \ {p} : run'[q].pc # "ref_write"
  BY <1>1, <1>2 DEF FR!WriteRef, FR!Go, FirstRunInv, FirstRunTypes, RunRows
<1>5. FR!Writing' = {p}
  BY <1>4 DEF FR!Writing, FR!At
<1>6. (CHOOSE q \in {p} : TRUE) = p
  OBVIOUS
<1>7. FR!Said' = config
  BY <1>4, <1>5, <1>6 DEF FR!Said
<1>8. FR!Whole(config) /\ FR!Keeps(config, config)
  BY FirstRunConstants DEF FR!Whole, FR!Keeps
<1> QED
  BY <1>3, <1>7, <1>8 DEF Kept

\* Every other step leaves the file, and the writes under way, alone.
LEMMA OthersLeaveIt ==
    ASSUME FirstRunInv, NEW p \in Processes, FR!Step(p), run[p].pc # "ref_write",
           ~FR!CreateConfig(p), ~FR!CreateFinish(p), ~FR!WriteRef(p), ~FR!ReplaceConfig(p)
    PROVE  FR!Said' = FR!Said
<1>1. ~FR!WriteRefFinish(p)
  BY DEF FR!WriteRefFinish, FR!At
<1>2. config' = config
  BY <1>1 DEF FR!Step, FR!PrepareConfig, FR!OpenTmp, FR!WriteTmp, FR!MakeDirs, FR!CopyPolicy,
     FR!CopyUpdateMetadata, FR!InitializeHermesMemory, FR!InitializeGovernance,
     FR!InitializeToken, FR!ReadCredential, FR!StoreKey, FR!SelectModel, FR!AskModel,
     FR!SetupInit, FR!Serve, FR!Leave, FR!Kill, FR!ReadImport, FR!Launch, FR!configVars
<1>3. \A pc : (FR!Go(p, pc) \/ FR!Read(p, pc)) /\ pc # "ref_write" => run'[p].pc # "ref_write"
  BY DEF FR!Go, FR!Read, FirstRunInv, FirstRunTypes, RunRows
<1>4. /\ \A q \in Processes \ {p} : run'[q].pc = run[q].pc /\ run'[q].seen = run[q].seen
      /\ run'[p].pc # "ref_write"
  <2>1. CASE \E pc : pc # "ref_write" /\ (FR!Go(p, pc) \/ FR!Read(p, pc))
    BY <1>3, <2>1 DEF FR!Go, FR!Read, FirstRunInv, FirstRunTypes, RunRows
  <2>2. CASE FR!Stop(p)
    BY <2>2 DEF FR!Stop, FR!Idle, FirstRunInv, FirstRunTypes, RunRows
  <2>3. CASE FR!CopyUpdateMetadata(p)
    BY <2>3 DEF FR!CopyUpdateMetadata, FR!Go, FirstRunInv, FirstRunTypes, RunRows
  <2>4. CASE FR!AskModel(p) \/ FR!ReadImport(p)
    BY <2>4 DEF FR!AskModel, FR!ReadImport, FR!Stop, FR!Idle, FirstRunInv, FirstRunTypes, RunRows
  <2>5. CASE \E kind \in {"setup", "start", "doctor", "import"} : FR!Launch(p, kind)
    <3>1. PICK kind \in {"setup", "start", "doctor", "import"} : FR!Launch(p, kind)
      BY <2>5
    <3> DEFINE launched(q) ==
           IF q = p THEN [kind |-> kind, seen |-> None, file |-> 1,
                          alone |-> \A o \in Processes : FR!Quiet(o),
                          fresh |-> \A o \in Processes : FR!Quiet(o) \/ run[o].kind = "import",
                          pc |-> IF kind = "import" THEN "import" ELSE "config"]
           ELSE [run[q] EXCEPT !.alone = @ /\ FR!At(q, "serving"), !.fresh = @ /\ kind = "import"]
    <3>2. run' = [q \in Processes |-> launched(q)]
      BY <3>1 DEF FR!Launch
    <3>3. launched(p).pc # "ref_write"
      OBVIOUS
    <3>4. \A q \in Processes \ {p} : launched(q).pc = run[q].pc /\ launched(q).seen = run[q].seen
      BY DEF FirstRunInv, FirstRunTypes, RunRows
    <3> HIDE DEF launched
    <3> QED
      BY <3>2, <3>3, <3>4
  <2>6. CASE FR!OpenTmp(p) \/ FR!WriteTmp(p) \/ FR!PrepareConfig(p) \/ FR!ReadCredential(p)
    <3>1. \E pc : pc # "ref_write" /\ (FR!Go(p, pc) \/ FR!Read(p, pc) \/ FR!Stop(p))
      BY <2>6 DEF FR!OpenTmp, FR!WriteTmp, FR!PrepareConfig, FR!ReadCredential
    <3> QED
      BY <2>1, <2>2, <3>1
  <2>7. CASE FR!MakeDirs(p) \/ FR!CopyPolicy(p) \/ FR!InitializeHermesMemory(p)
             \/ FR!InitializeGovernance(p) \/ FR!InitializeToken(p) \/ FR!StoreKey(p)
    <3>1. \E pc : pc # "ref_write" /\ (FR!Go(p, pc) \/ FR!Stop(p))
      BY <2>7 DEF FR!MakeDirs, FR!CopyPolicy, FR!InitializeHermesMemory,
         FR!InitializeGovernance, FR!InitializeToken, FR!StoreKey
    <3> QED
      BY <2>1, <2>2, <3>1
  <2>8. CASE FR!SelectModel(p) \/ FR!SetupInit(p) \/ FR!Serve(p) \/ FR!Leave(p) \/ FR!Kill(p)
    <3>1. \E pc : pc # "ref_write" /\ (FR!Go(p, pc) \/ FR!Read(p, pc) \/ FR!Stop(p))
      BY <2>8 DEF FR!SelectModel, FR!SetupInit, FR!Serve, FR!Leave, FR!Kill
    <3> QED
      BY <2>1, <2>2, <3>1
  <2> QED
    BY <1>1, <2>3, <2>4, <2>5, <2>6, <2>7, <2>8 DEF FR!Step
<1> QED
  BY <1>2, <1>4, SaidStays

LEMMA StepKeeps ==
    ASSUME FirstRunInv, FirstRunInv', NEW p \in Processes, FR!Step(p), FR!Whole(FR!Said),
           ~FR!Overlap
    PROVE  Kept(p)
<1>1. FR!Keeps(FR!Said, FR!Said)
  BY DEF FR!Keeps
<1>2. run[p].pc \notin {"idle", "serving"} => Lone(run[p])
  BY DEF FR!Overlap, FR!Quiet, Lone
<1>3. CASE run[p].pc = "ref_write"
  BY <1>2, <1>3, WriterKeeps
<1>4. CASE FR!CreateConfig(p) \/ FR!CreateFinish(p) \/ FR!WriteRef(p) \/ FR!ReplaceConfig(p)
  <2>1. run[p].pc \notin {"idle", "serving", "ref_write"}
    BY <1>4 DEF FR!CreateConfig, FR!CreateFinish, FR!WriteRef, FR!ReplaceConfig, FR!At
  <2>2. Lone(run[p]) /\ Followed(run[p])
    BY <1>2, <2>1 DEF FirstRunInv
  <2>3. FR!Said = config
    BY <2>1, <2>2, SaidByTheFile DEF FirstRunInv
  <2>4. config \in FR!Configs
    BY <2>3 DEF FirstRunInv, FirstRunTypes, FR!Whole
  <2>5. ~FR!CreateConfig(p) /\ ~FR!CreateFinish(p)
    BY <2>2, <2>3 DEF FR!CreateConfig, FR!CreateFinish, FR!At, Followed, FR!Whole
  <2> QED
    BY <1>4, <2>2, <2>4, <2>5, OpenerKeeps, ReplacerKeeps
<1>5. CASE run[p].pc # "ref_write" /\ ~(FR!CreateConfig(p) \/ FR!CreateFinish(p)
           \/ FR!WriteRef(p) \/ FR!ReplaceConfig(p))
  BY <1>1, <1>5, OthersLeaveIt DEF Kept
<1> QED
  BY <1>3, <1>4, <1>5

\* Launched one at a time, first runs and imports lose a configuration in one
\* way: killed while the credential reference is written over it in place.
\* Whatever else they do, the edition, the reference, the model and the local
\* memory that were chosen stay, unless an import puts a whole configuration in
\* their place (maya_first_run.py, import-config).
THEOREM ConfigurationIsKept == Spec => ConfigurationKept
<1> DEFINE Step ==
      FR!Whole(FR!Said) /\ ~FR!Overlap =>
         \/ \E p \in FR!Writing : run'[p].pc = "idle"
         \/ FR!Whole(FR!Said') /\ FR!Keeps(FR!Said, FR!Said')
         \/ \E p \in Processes : run[p].kind = "import" /\ config' = run[p].seen
                                 /\ FR!Whole(config')
<1>1. ASSUME FirstRunInv, FirstRunInv', [Next]_vars PROVE [Step]_(FR!vars)
  <2> SUFFICES ASSUME FR!Whole(FR!Said), ~FR!Overlap, FR!Next PROVE Step
    BY <1>1 DEF Next, vars, runVars, FR!vars
  <2>1. ASSUME NEW p \in Processes, FR!Step(p) PROVE Step
    <3>1. Kept(p)
      BY <1>1, <2>1, StepKeeps
    <3> QED
      BY <2>1, <3>1 DEF Kept, FR!Writing
  <2>2. ASSUME FR!Said' = FR!Said PROVE Step
    BY <2>2 DEF FR!Keeps
  <2>3. CASE (\E ref \in Refs : FR!RotateSecret(ref)) \/ FR!Upgrade
    BY <1>1, <2>2, <2>3, SaidStays
       DEF FR!RotateSecret, FR!Upgrade, FR!configVars, FirstRunInv, FirstRunTypes, RunRows
  <2>4. CASE FR!UserClears
    <3>1. \A p \in Processes : run[p].pc = "idle" /\ run' = run
      BY <2>4 DEF FR!UserClears, FR!Active
    <3>2. FR!Said = config
      BY <3>1, SaidByTheFile
    <3>3. config' = config
      BY <2>4, <3>2 DEF FR!UserClears, FR!Whole
    <3> QED
      BY <2>2, <3>1, <3>3, SaidStays
  <2> QED
    BY <2>1, <2>3, <2>4 DEF FR!Next
<1> QED
  BY <1>1, FirstRunInductive, PTL DEF Spec, ConfigurationKept, FR!ConfigurationKept
=============================================================================
