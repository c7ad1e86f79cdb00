------------------------------- MODULE LocalAPI -------------------------------
(***************************************************************************)
(* The local API of a running Maya (local_api.py): one thread per request, *)
(* a bearer token that is read from the secret store for every request     *)
(* (secrets.py), and behind it the governed runtime (runtime.py), which    *)
(* asks the policy gateway (governance.py) and writes each decision to the *)
(* audit log (audit.py) before Hermes runs.  The token is rotated by       *)
(* `maya rotate-secret` and by every first run while the server goes on;   *)
(* the policy file is edited while the server keeps the rules it loaded.   *)
(* The API has no candidate session binding, as bootstrap.py builds it.    *)
(***************************************************************************)
EXTENDS Naturals, Sequences

CONSTANTS Requests,     \* the requests clients send, one thread each
          Policies,     \* rule sequences the policy file may hold
          Invalid,      \* a policy file that cannot be parsed
          Torn,         \* a secret blob that is truncated or half written
          MaxToken      \* how often the token is rotated

VARIABLES stored,   \* the token in the secret store: 0 for none, or Torn
          issued,   \* how many tokens were made
          writer,   \* the token a rotation is writing, 0 for no rotation
          policy,   \* the policy file
          server,   \* the process: its state, its rules, whether its model is remote
          log,      \* the decisions in the audit log
          req

vars == <<stored, issued, writer, policy, server, log, req>>
tokenVars == <<stored, issued, writer>>

Down == [state |-> "down", rules |-> <<>>, egress |-> FALSE]
Unsent == [pc |-> "unsent", supplied |-> 0, valid |-> {}, status |-> 0]

Init ==
    /\ stored \in {0, 1} /\ issued = 1 /\ writer = 0
    /\ policy \in Policies /\ server = Down
    /\ log = {} /\ req = [r \in Requests |-> Unsent]

At(r, pc) == req[r].pc = pc
Go(r, pc) == req' = [req EXCEPT ![r].pc = pc]
Reply(r, status) == req' = [req EXCEPT ![r].pc = "done", ![r].status = status]
Waiting(r) == req[r].pc \notin {"unsent", "done"}

-----------------------------------------------------------------------------
(* WindowsDPAPISecretStore.write: the blob is written in place; a rotation  *)
(* that dies leaves it torn.  "valid" is what a request that has not been   *)
(* authenticated yet may rightly present.                                   *)
RotateBegin ==
    /\ writer = 0 /\ issued < MaxToken
    /\ issued' = issued + 1 /\ writer' = issued + 1 /\ stored' = Torn
    /\ UNCHANGED <<policy, server, log, req>>

RotateFinish ==
    /\ writer # 0 /\ stored' = writer /\ writer' = 0
    /\ req' = [r \in Requests |-> IF At(r, "arrived") THEN [req[r] EXCEPT !.valid = @ \cup {writer}]
                                                      ELSE req[r]]
    /\ UNCHANGED <<issued, policy, server, log>>

RotateDies ==
    /\ writer # 0 /\ writer' = 0
    /\ UNCHANGED <<stored, issued, policy, server, log, req>>

-----------------------------------------------------------------------------
(* PolicyRule.matches and PolicyAuthorizationGateway.authorize: the first   *)
(* rule that matches decides, and none denies.                              *)
Matches(rule, capability) == rule.capability \in {"*", capability}

Authorize(rules, capability) ==
    LET matching == {i \in DOMAIN rules : Matches(rules[i], capability)}
    IN IF matching = {} THEN "deny"
       ELSE rules[CHOOSE i \in matching : \A j \in matching : i <= j].decision

EditPolicy(p) ==
    /\ policy # p /\ policy' = p
    /\ UNCHANGED <<tokenVars, server, log, req>>

(* load_policy_gateway and _build_model_egress, once, when serve-local-api  *)
(* assembles the product.                                                   *)
ServerStart ==
    /\ server.state = "down" /\ policy # Invalid
    /\ \E egress \in BOOLEAN : server' = [state |-> "up", rules |-> policy, egress |-> egress]
    /\ UNCHANGED <<tokenVars, policy, log, req>>

(* An interrupt: the agent stops first, then the process and its threads.   *)
ServerStop ==
    /\ server.state = "up" /\ server' = [server EXCEPT !.state = "stopping"]
    /\ UNCHANGED <<tokenVars, policy, log, req>>

ServerExit ==
    /\ server.state # "down" /\ server' = Down
    /\ req' = [r \in Requests |-> IF Waiting(r) THEN [req[r] EXCEPT !.pc = "done"] ELSE req[r]]
    /\ UNCHANGED <<tokenVars, policy, log>>

-----------------------------------------------------------------------------
(* The handler of build_local_api_http_server; token 0 is no bearer token.  *)
Arrive(r, token) ==
    /\ At(r, "unsent") /\ server.state = "up"
    /\ req' = [req EXCEPT ![r] = [pc |-> "arrived", supplied |-> token, status |-> 0,
                                  valid |-> {stored} \ {Torn, 0}]]
    /\ UNCHANGED <<tokenVars, policy, server, log>>

(* A path outside /v1/ is refused before authentication.                    *)
RejectPath(r) ==
    /\ At(r, "arrived") /\ Reply(r, 404)
    /\ UNCHANGED <<tokenVars, policy, server, log>>

(* A token stays good for as long as the process knows it.                  *)
AuthenticateEver(r) ==
    /\ At(r, "arrived")
    /\ IF req[r].supplied \in 1..issued THEN Go(r, "authenticated") ELSE Reply(r, 401)
    /\ UNCHANGED <<tokenVars, policy, server, log>>

(* BearerTokenAuthenticator.authenticate: a missing or unreadable secret    *)
(* authenticates nobody.                                                    *)
Authenticate(r) ==
    /\ At(r, "arrived")
    /\ IF req[r].supplied # 0 /\ stored # Torn /\ req[r].supplied = stored
       THEN Go(r, "authenticated") ELSE Reply(r, 401)
    /\ UNCHANGED <<tokenVars, policy, server, log>>

(* A required binding (403), the body's length (413), the route (404) and,  *)
(* per route, the method (405), the body (400), health, which answers at    *)
(* once, and the session binding, which is not there (403).                 *)
Route(r) ==
    /\ At(r, "authenticated")
    /\ \/ \E status \in {403, 413, 404, 405, 400, 200} : Reply(r, status)
       \/ Go(r, "accepted")
    /\ UNCHANGED <<tokenVars, policy, server, log>>

(* Agent.run.                                                               *)
AgentRun(r) ==
    /\ At(r, "accepted")
    /\ IF server.state = "up" THEN Go(r, "runtime.execute") ELSE Reply(r, 409)
    /\ UNCHANGED <<tokenVars, policy, server, log>>

(* The model may always be reached once the request may be executed.        *)
GovernedStepNoEgress(r, capability) ==
    /\ At(r, capability)
    /\ LET decision == Authorize(server.rules, capability)
       IN \/ Reply(r, 500) /\ UNCHANGED log
          \/ /\ log' = log \cup {<<r, capability, decision>>}
             /\ IF decision = "allow" THEN Go(r, "running") ELSE Reply(r, 403)
    /\ UNCHANGED <<tokenVars, policy, server>>

(* GovernedAgentRuntime.run and _authorize: the decision is recorded before *)
(* it is obeyed, and a record that cannot be written fails the request.     *)
GovernedStep(r, capability) ==
    /\ At(r, capability)
    /\ LET decision == Authorize(server.rules, capability)
       IN \/ Reply(r, 500) /\ UNCHANGED log
          \/ /\ log' = log \cup {<<r, capability, decision>>}
             /\ IF decision # "allow" THEN Reply(r, 403)
                ELSE Go(r, IF capability = "runtime.execute" /\ server.egress
                           THEN "model.egress" ELSE "running")
    /\ UNCHANGED <<tokenVars, policy, server>>

(* Hermes answers, is denied something inside, or fails.                    *)
RuntimeReturns(r) ==
    /\ At(r, "running") /\ \E status \in {200, 403, 500} : Reply(r, status)
    /\ UNCHANGED <<tokenVars, policy, server, log>>

Next ==
    \/ RotateBegin \/ RotateFinish \/ RotateDies
    \/ ServerStart \/ ServerStop \/ ServerExit
    \/ \E p \in Policies \cup {Invalid} : EditPolicy(p)
    \/ \E r \in Requests :
          \/ \E token \in 0..issued : Arrive(r, token)
          \/ RejectPath(r) \/ Authenticate(r) \/ Route(r) \/ AgentRun(r) \/ RuntimeReturns(r)
          \/ \E capability \in {"runtime.execute", "model.egress"} : GovernedStep(r, capability)

Spec == Init /\ [][Next]_vars

-----------------------------------------------------------------------------
TypeOK ==
    /\ stored \in 0..MaxToken \cup {Torn} /\ issued \in 0..MaxToken /\ writer \in 0..MaxToken
    /\ \A r \in Requests : req[r].valid \subseteq 1..MaxToken

(* A rotation takes effect for the running server: a request that passed    *)
(* authentication presented a token that the secret store held whole at     *)
(* some moment between its arrival and its authentication, whatever was     *)
(* rotated, torn or half written meanwhile (BearerTokenAuthenticator).      *)
RotationTakesEffect ==
    \A r \in Requests :
        req[r].pc \in {"authenticated", "accepted", "runtime.execute", "model.egress", "running"}
            => req[r].supplied \in req[r].valid

(* Hermes runs a request only if the rules this server loaded allow         *)
(* executing it and, with a remote model, sending it there, and both        *)
(* decisions are in the audit log although its disk may fail in between     *)
(* (GovernedAgentRuntime.run).                                              *)
RuntimeIsAuthorized ==
    \A r \in Requests : At(r, "running") =>
        \A capability \in {"runtime.execute"} \cup (IF server.egress THEN {"model.egress"} ELSE {}) :
            /\ Authorize(server.rules, capability) = "allow"
            /\ <<r, capability, "allow">> \in log
=============================================================================
