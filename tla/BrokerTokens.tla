------------------------------ MODULE BrokerTokens ------------------------------
(***************************************************************************)
(* The local state of broker-assisted OAuth for one provider:              *)
(*   src/src/project_maya/broker.py   sessions, token envelope, metadata   *)
(*   src/src/project_maya/secrets.py  the DPAPI secret store               *)
(*   src/src/project_maya/integrations.py  the reset of local state        *)
(*                                                                         *)
(* Every command is a process of its own.  There is no lock: a command     *)
(* reads, then writes the secret store and then the metadata file, each by *)
(* truncating and filling it, and may die at any point.  Both files of     *)
(* another provider are other files.                                       *)
(***************************************************************************)
EXTENDS Naturals

CONSTANTS Commands,     \* command processes
          Sessions,     \* OAuth sessions of this provider
          MaxRotation,  \* bound on rotation_count
          MaxKeys       \* bound on generated instance keys

ASSUME BrokerConstants == MaxRotation \in Nat /\ MaxKeys \in Nat

VARIABLES
    session,      \* state of each session file
    envelope,     \* the token envelope in the secret store
    status,       \* token-status.json
    private, public, \* the instance key pair in the secret store
    keys,         \* key pairs generated so far
    at, op,       \* where each command stands and what it does
    payload,      \* the session and rotation the command is about to record
    pair,         \* the key pair the command generated
    alone,        \* commands that no other command on the same files overlapped
    settled,      \* files whose last command ran alone and finished
    stored        \* every envelope a command finished writing

tokenVars == <<envelope, status, stored>>
keyVars == <<private, public, keys>>
ghosts == <<alone, settled>>
local == <<payload, pair>>
vars == <<session, tokenVars, keyVars, at, op, local, ghosts>>

NoGrant == [session |-> "none", rotation |-> 0]
Grants == [session : Sessions, rotation : 0..MaxRotation]
File(kind, grant) == [kind |-> kind, grant |-> grant]
Key(kind, number) == [kind |-> kind, number |-> number]

\* The group of files an operation works on.
Operations == {"none", "start", "complete", "refresh", "revoke", "register", "reset"}
Group(o) == IF o = "register" THEN "keys" ELSE IF o = "start" THEN "session" ELSE "token"

Init ==
    /\ session = [s \in Sessions |-> "none"]
    /\ envelope = File("missing", NoGrant) /\ status = File("missing", NoGrant)
    /\ private = Key("missing", 0) /\ public = Key("missing", 0) /\ keys = 0
    /\ at = [c \in Commands |-> "idle"]
    /\ op = [c \in Commands |-> "none"]
    /\ payload = [c \in Commands |-> NoGrant]
    /\ pair = [c \in Commands |-> 0]
    /\ alone = {} /\ settled = {} /\ stored = {}

Goto(c, p) == at' = [at EXCEPT ![c] = p]

\* Commands under way on a group of files.
Busy(g) == {x \in Commands : at[x] # "idle" /\ Group(op[x]) = g}

\* Command c begins operation o at point p.
Enter(c, o, p) ==
    /\ at[c] = "idle"
    /\ Goto(c, p)
    /\ op' = [op EXCEPT ![c] = o]
    /\ alone' = (alone \ Busy(Group(o))) \cup IF Busy(Group(o)) = {} THEN {c} ELSE {}
    /\ settled' = settled \ {Group(o)}

\* Command c ends; result says whether it did all of its work.
Leave(c, finished) ==
    /\ Goto(c, "idle")
    /\ op' = [op EXCEPT ![c] = "none"]
    /\ payload' = [payload EXCEPT ![c] = NoGrant]
    /\ pair' = [pair EXCEPT ![c] = 0]
    /\ alone' = alone \ {c}
    /\ settled' = IF finished /\ c \in alone THEN settled \cup {Group(op[c])} ELSE settled

-----------------------------------------------------------------------------
(* oauth-start: a new session file with a random id.                       *)

StartSession(c, s) ==
    /\ session[s] = "none"
    /\ session' = [session EXCEPT ![s] = "torn"]
    /\ Enter(c, "start", "session")
    /\ payload' = [payload EXCEPT ![c] = [session |-> s, rotation |-> 0]]
    /\ UNCHANGED <<tokenVars, keyVars, pair>>

WriteSession(c) ==
    /\ at[c] = "session"
    /\ session' = [session EXCEPT ![payload[c].session] = "fresh"]
    /\ Leave(c, TRUE)
    /\ UNCHANGED <<tokenVars, keyVars>>

\* Ten minutes pass.
Expire(s) ==
    /\ session[s] = "fresh"
    /\ session' = [session EXCEPT ![s] = "expired"]
    /\ UNCHANGED <<tokenVars, keyVars, at, op, local, ghosts>>

-----------------------------------------------------------------------------
(* oauth-complete, token-refresh and token-revoke read first and refuse    *)
(* without a change when they cannot go on.                                *)

\* The session file is fresh and the callback's state and code are right; it is kept.
BeginComplete(c, s) ==
    /\ session[s] = "fresh"
    /\ Enter(c, "complete", "envelope")
    /\ payload' = [payload EXCEPT ![c] = [session |-> s, rotation |-> 0]]
    /\ UNCHANGED <<session, tokenVars, keyVars, pair>>

\* The envelope is read here and written back later.
Rotated(grant) == [grant EXCEPT !.rotation = @ + 1]

BeginRefresh(c) ==
    /\ envelope.kind = "stored" /\ envelope.grant.rotation < MaxRotation
    /\ Enter(c, "refresh", "envelope")
    /\ payload' = [payload EXCEPT ![c] = Rotated(envelope.grant)]
    /\ UNCHANGED <<session, tokenVars, keyVars, pair>>

BeginRevoke(c) ==
    /\ Enter(c, "revoke", "delete")
    /\ UNCHANGED <<session, tokenVars, keyVars, local>>

\* SecretStore.write: open for writing, then fill.  Overlapping writers may leave a mixture.
TruncateEnvelope(c) ==
    /\ at[c] = "envelope"
    /\ envelope' = File("torn", NoGrant)
    /\ Goto(c, "envelope open")
    /\ UNCHANGED <<session, status, stored, keyVars, op, local, ghosts>>

Whole(c) == {TRUE} \cup IF c \in alone THEN {} ELSE {FALSE}

FillEnvelope(c) ==
    /\ at[c] = "envelope open"
    /\ \E whole \in Whole(c) :
          envelope' = IF whole THEN File("stored", payload[c]) ELSE File("torn", NoGrant)
    /\ stored' = stored \cup {payload[c]}
    /\ Goto(c, "status")
    /\ UNCHANGED <<session, status, keyVars, op, local, ghosts>>

\* SecretStore.delete: a missing file is no error, one that is open cannot be unlinked.
Deleted_Kept == envelope
Deleted == File("missing", NoGrant)

DeleteEnvelope(c) ==
    /\ at[c] = "delete" /\ \A x \in Commands : at[x] # "envelope open"
    /\ envelope' = Deleted
    /\ Goto(c, "status")
    /\ UNCHANGED <<session, status, stored, keyVars, op, local, ghosts>>

\* _write_token_metadata comes last in all three.
StatusPoint == {"status"}

TruncateStatus(c) ==
    /\ at[c] \in StatusPoint
    /\ status' = File("torn", NoGrant)
    /\ Goto(c, "status open")
    /\ UNCHANGED <<session, envelope, stored, keyVars, op, local, ghosts>>

Recorded(c) == IF op[c] = "revoke" THEN File("revoked", NoGrant) ELSE File("active", payload[c])

FillStatus(c) ==
    /\ at[c] = "status open"
    /\ \E whole \in Whole(c) : status' = IF whole THEN Recorded(c) ELSE File("torn", NoGrant)
    /\ Leave(c, TRUE)
    /\ UNCHANGED <<session, envelope, stored, keyVars>>

-----------------------------------------------------------------------------
(* reset-integration --apply removes the provider's directory, which holds  *)
(* the metadata file, and leaves the secret store alone.                    *)

BeginReset(c) ==
    /\ status.kind # "missing"
    /\ Enter(c, "reset", "reset")
    /\ UNCHANGED <<session, tokenVars, keyVars, local>>

\* A file that is open for writing cannot be removed.
ResetIntegrationState(c) ==
    /\ at[c] = "reset" /\ \A x \in Commands : at[x] # "status open"
    /\ status' = File("missing", NoGrant)
    /\ Leave(c, FALSE)
    /\ UNCHANGED <<session, envelope, stored, keyVars>>

-----------------------------------------------------------------------------
(* register: a new key pair, the private key first.                        *)

BeginRegister(c) ==
    /\ keys < MaxKeys
    /\ keys' = keys + 1
    /\ Enter(c, "register", "private")
    /\ pair' = [pair EXCEPT ![c] = keys + 1]
    /\ UNCHANGED <<session, tokenVars, private, public, payload>>

WritePrivate(c) ==
    /\ \/ /\ at[c] = "private"
          /\ private' = Key("torn", 0) /\ Goto(c, "private open")
       \/ /\ at[c] = "private open"
          /\ \E whole \in Whole(c) :
                private' = IF whole THEN Key("stored", pair[c]) ELSE Key("torn", 0)
          /\ Goto(c, "public")
    /\ UNCHANGED <<session, tokenVars, public, keys, op, local, ghosts>>

PublicKey(c) == Key("stored", pair[c])

WritePublic(c) ==
    \/ /\ at[c] = "public"
       /\ public' = Key("torn", 0) /\ Goto(c, "public open")
       /\ UNCHANGED <<session, tokenVars, private, keys, op, local, ghosts>>
    \/ /\ at[c] = "public open"
       /\ \E whole \in Whole(c) : public' = IF whole THEN PublicKey(c) ELSE Key("torn", 0)
       /\ Leave(c, TRUE)
       /\ UNCHANGED <<session, tokenVars, private, keys>>

\* A write raises, the backend is unavailable, or the process dies.
Stop(c) ==
    /\ at[c] # "idle"
    /\ Leave(c, FALSE)
    /\ UNCHANGED <<session, tokenVars, keyVars>>

Next ==
    \/ \E c \in Commands :
          \/ \E s \in Sessions : StartSession(c, s) \/ BeginComplete(c, s)
          \/ WriteSession(c) \/ BeginRefresh(c) \/ BeginRevoke(c) \/ BeginRegister(c)
          \/ TruncateEnvelope(c) \/ FillEnvelope(c) \/ DeleteEnvelope(c)
          \/ TruncateStatus(c) \/ FillStatus(c)
          \/ BeginReset(c) \/ ResetIntegrationState(c)
          \/ WritePrivate(c) \/ WritePublic(c)
          \/ Stop(c)
    \/ \E s \in Sessions : Expire(s)

Spec == Init /\ [][Next]_vars

-----------------------------------------------------------------------------
Points == {"idle", "session", "envelope", "envelope open", "delete", "status", "status open",
           "private", "private open", "public", "public open", "reset"}

\* The shape of the broker's local state.
TypeOK ==
    /\ session \in [Sessions -> {"none", "torn", "fresh", "expired"}]
    /\ envelope \in [kind : {"missing", "torn"}, grant : {NoGrant}]
                   \cup [kind : {"stored"}, grant : Grants]
    /\ status \in [kind : {"missing", "torn", "active", "revoked"}, grant : Grants \cup {NoGrant}]
    /\ private \in [kind : {"missing", "torn", "stored"}, number : 0..MaxKeys]
    /\ public \in [kind : {"missing", "torn", "stored"}, number : 0..MaxKeys]
    /\ keys \in 0..MaxKeys
    /\ at \in [Commands -> Points]
    /\ op \in [Commands -> Operations]
    /\ payload \in [Commands -> Grants \cup {NoGrant}]
    /\ pair \in [Commands -> 0..MaxKeys]
    /\ alone \in SUBSET Commands
    /\ settled \in SUBSET {"session", "token", "keys"}
    /\ stored \in SUBSET Grants

\* The metadata file and the secret store tell the same story.
TokenAgrees ==
    \/ status.kind = "active" /\ envelope = File("stored", status.grant)
    \/ status.kind = "revoked" /\ envelope.kind = "missing"

(***************************************************************************)
(* A token command that ran alone leaves the secret store and the metadata *)
(* in agreement, whatever crashes and races happened before it: an active  *)
(* status has its very envelope, a revoked one has none.  A registration   *)
(* that ran alone leaves a matching key pair.                              *)
(***************************************************************************)
SettledAgrees ==
    /\ "token" \in settled => TokenAgrees
    /\ "keys" \in settled => private.kind = "stored" /\ public = private

(***************************************************************************)
(* The metadata never claims an active token that no command has written   *)
(* to the secret store before, however commands interleave and die.        *)
(***************************************************************************)
NeverAhead == status.kind = "active" => status.grant \in stored

(***************************************************************************)
(* What the status file says of a provider can be relied on: it agrees     *)
(* with the secret store after a token command that ran alone, resets and  *)
(* crashes before it or not, and it is never ahead of the store in between *)
(* (refresh_token, revoke_token, reset_integration_state).                 *)
(***************************************************************************)
StatusIsHonest == SettledAgrees /\ NeverAhead

\* A command that is alone is the only one on its files.
AloneInv ==
    /\ \A c \in alone : at[c] # "idle"
    /\ \A c \in alone, x \in Commands : at[x] # "idle" /\ Group(op[x]) = Group(op[c]) => x = c
    /\ \A c \in Commands : at[c] # "idle" => Group(op[c]) \notin settled

\* What command c has done by the time it stands at a point.
Progress(c) ==
    /\ at[c] = "idle" <=> op[c] = "none"
    /\ at[c] = "session" <=> op[c] = "start"
    /\ at[c] \in {"envelope", "envelope open"} => op[c] \in {"complete", "refresh"}
    /\ at[c] = "delete" => op[c] = "revoke"
    /\ at[c] \in {"status", "status open"} => op[c] \in {"complete", "refresh", "revoke"}
    /\ at[c] = "reset" <=> op[c] = "reset"
    /\ op[c] = "register" <=> at[c] \in {"private", "private open", "public", "public open"}
    /\ op[c] \in {"start", "complete", "refresh"} => payload[c] \in Grants
    /\ at[c] \in {"status", "status open"} /\ op[c] # "revoke" => payload[c] \in stored
    /\ c \in alone /\ at[c] \in {"status", "status open"} =>
          IF op[c] = "revoke" THEN envelope.kind = "missing"
                              ELSE envelope = File("stored", payload[c])
    /\ c \in alone /\ at[c] \in {"public", "public open"} => private = Key("stored", pair[c])

\* The inductive invariant.
IInv == TypeOK /\ AloneInv /\ (\A c \in Commands : Progress(c)) /\ SettledAgrees /\ NeverAhead
=================================================================================
