-------------------------- MODULE BrokerTokens_proofs --------------------------
(***************************************************************************)
(* Proofs about BrokerTokens for any commands, sessions and bounds.        *)
(***************************************************************************)
EXTENDS BrokerTokens, TLAPS

USE BrokerConstants

\* What every operation keeps of the commands other than c.
OthersStay(c) ==
    \A x \in Commands \ {c} :
        at'[x] = at[x] /\ op'[x] = op[x] /\ (x \in alone' => x \in alone)

\* The control state: where the commands stand, what they do and who is alone.
ControlOK ==
    /\ at \in [Commands -> Points] /\ op \in [Commands -> Operations]
    /\ alone \in SUBSET Commands /\ settled \in SUBSET {"session", "token", "keys"}

\* A command that enters was idle, is alone if its files were, and unsettles them.
LEMMA EnterFacts ==
    ASSUME ControlOK, AloneInv, NEW c \in Commands, NEW o \in Operations \ {"none"},
           NEW p \in Points \ {"idle"}, Enter(c, o, p)
    PROVE  /\ ControlOK' /\ AloneInv' /\ OthersStay(c)
           /\ at[c] = "idle" /\ at'[c] = p /\ op'[c] = o
           /\ settled' = settled \ {Group(o)}
<1>1. /\ ControlOK' /\ at[c] = "idle" /\ at'[c] = p /\ op'[c] = o
      /\ settled' = settled \ {Group(o)} /\ c \notin alone
      /\ \A x \in Commands \ {c} : at'[x] = at[x] /\ op'[x] = op[x]
  BY DEF ControlOK, AloneInv, Enter, Goto
<1>2. \A a \in alone' :
        \/ a = c /\ Busy(Group(o)) = {}
        \/ a # c /\ a \in alone /\ a \notin Busy(Group(o))
  <2>1. alone' = (alone \ Busy(Group(o))) \cup IF Busy(Group(o)) = {} THEN {c} ELSE {}
    BY DEF Enter
  <2>2. CASE Busy(Group(o)) = {}
    <3>1. alone' = alone \cup {c}
      BY <2>1, <2>2
    <3> QED
      BY <1>1, <2>2, <3>1
  <2>3. CASE Busy(Group(o)) # {}
    BY <1>1, <2>1, <2>3
  <2> QED
    BY <2>2, <2>3
<1>3. ASSUME NEW a \in alone' PROVE at'[a] # "idle"
  BY <1>1, <1>2 DEF AloneInv, ControlOK
<1>4. ASSUME NEW a \in alone', NEW x \in Commands, at'[x] # "idle",
             Group(op'[x]) = Group(op'[a])
      PROVE  x = a
  BY <1>1, <1>2, <1>4 DEF AloneInv, Busy, ControlOK
<1>5. ASSUME NEW x \in Commands, at'[x] # "idle" PROVE Group(op'[x]) \notin settled'
  BY <1>1, <1>5 DEF AloneInv
<1>6. AloneInv'
  BY <1>3, <1>4, <1>5 DEF AloneInv
<1> QED
  BY <1>1, <1>2, <1>6 DEF OthersStay

\* A command that goes on within its operation disturbs nobody.
LEMMA GotoFacts ==
    ASSUME ControlOK, AloneInv, NEW c \in Commands, NEW p \in Points \ {"idle"}, Goto(c, p),
           at[c] # "idle", UNCHANGED <<op, alone, settled>>
    PROVE  /\ ControlOK' /\ AloneInv' /\ OthersStay(c) /\ at'[c] = p
BY DEF ControlOK, AloneInv, Goto, OthersStay

\* A command that ends is nobody's company, and settles its files if it was alone.
LEMMA LeaveFacts ==
    ASSUME ControlOK, AloneInv, NEW c \in Commands, NEW finished \in BOOLEAN,
           Leave(c, finished), at[c] # "idle"
    PROVE  /\ ControlOK' /\ AloneInv' /\ OthersStay(c) /\ at'[c] = "idle" /\ op'[c] = "none"
           /\ c \notin alone'
           /\ settled' = IF finished /\ c \in alone THEN settled \cup {Group(op[c])} ELSE settled
<1>1. /\ ControlOK' /\ at'[c] = "idle" /\ op'[c] = "none" /\ alone' = alone \ {c}
      /\ settled' = IF finished /\ c \in alone THEN settled \cup {Group(op[c])} ELSE settled
      /\ \A x \in Commands \ {c} : at'[x] = at[x] /\ op'[x] = op[x]
  BY DEF ControlOK, Leave, Goto, Points, Operations, Group
<1>2. AloneInv'
  BY <1>1 DEF AloneInv, ControlOK
<1> QED
  BY <1>1, <1>2 DEF OthersStay

\* Progress of a command survives a step of another one that keeps what it relies on.
LEMMA OthersProgress ==
    ASSUME NEW c \in Commands, NEW x \in Commands \ {c}, Progress(x), OthersStay(c),
           payload'[x] = payload[x], pair'[x] = pair[x], stored \subseteq stored',
           x \in alone /\ Group(op[x]) = "token" /\ at[x] # "idle" => envelope' = envelope,
           x \in alone /\ op[x] = "register" => private' = private
    PROVE  Progress(x)'
BY DEF Progress, OthersStay, Group, File, Key

\* Files nobody settled, or that no step touches, stay in agreement.
LEMMA SettledStays ==
    ASSUME SettledAgrees, settled' \subseteq settled,
           "token" \in settled => UNCHANGED <<envelope, status>>,
           "keys" \in settled => UNCHANGED <<private, public>>
    PROVE  SettledAgrees'
BY DEF SettledAgrees, TokenAgrees, File

\* Before any command: no files.
LEMMA InitIInv == Init => IInv
BY DEF Init, IInv, TypeOK, AloneInv, Progress, SettledAgrees, TokenAgrees, NeverAhead, File, Key,
    NoGrant, Points, Operations

\* oauth-start opens a new session file.
LEMMA StartSessionStep ==
    ASSUME IInv, NEW c \in Commands, NEW s \in Sessions, StartSession(c, s)
    PROVE  IInv'
<1>0. /\ ControlOK /\ TypeOK /\ AloneInv /\ SettledAgrees /\ NeverAhead
      /\ \A x \in Commands : Progress(x)
  BY DEF IInv, ControlOK, TypeOK
<1>1. /\ ControlOK' /\ AloneInv' /\ OthersStay(c)
      /\ at[c] = "idle" /\ at'[c] = "session" /\ op'[c] = "start" /\ settled' \subseteq settled
  BY <1>0, EnterFacts DEF StartSession, Progress, Points, Operations, Group, ghosts
<1>g. [session |-> s, rotation |-> 0] \in Grants
  BY <1>0 DEF Grants
<1>p. payload' \in [Commands -> Grants \cup {NoGrant}] /\ payload'[c] = [session |-> s,
   rotation |-> 0]
  BY <1>0, <1>g DEF StartSession, TypeOK
<1>2. TypeOK'
  BY <1>0, <1>1, <1>p DEF StartSession, TypeOK, ControlOK, tokenVars, keyVars, ghosts, local
<1>3. Progress(c)'
  BY <1>0, <1>1, <1>g, <1>p DEF StartSession, Progress, tokenVars, keyVars, ghosts, local
<1>4. ASSUME NEW x \in Commands \ {c} PROVE Progress(x)'
  <2>1. payload'[x] = payload[x] /\ pair'[x] = pair[x] /\ stored \subseteq stored'
    BY <1>0 DEF StartSession, TypeOK, tokenVars, keyVars, ghosts, local
  <2>2. x \in alone /\ Group(op[x]) = "token" /\ at[x] # "idle" => envelope' = envelope
    BY <1>0 DEF StartSession, AloneInv, Progress, Group, tokenVars, keyVars
  <2>3. x \in alone /\ op[x] = "register" => private' = private
    BY <1>0 DEF StartSession, AloneInv, Progress, Group, tokenVars, keyVars
  <2> QED
    BY <1>0, <1>1, <2>1, <2>2, <2>3, OthersProgress
<1>5. SettledAgrees'
  <2>1. "token" \in settled => UNCHANGED <<envelope, status>>
    BY <1>0 DEF StartSession, AloneInv, Progress, Group, tokenVars, keyVars
  <2>2. "keys" \in settled => UNCHANGED <<private, public>>
    BY <1>0 DEF StartSession, AloneInv, Progress, Group, tokenVars, keyVars
  <2> QED
    BY <1>0, <1>1, <2>1, <2>2, SettledStays DEF StartSession, ghosts
<1>6. NeverAhead'
  BY <1>0 DEF StartSession, NeverAhead, Progress, File, tokenVars
<1> QED
  BY <1>1, <1>2, <1>3, <1>4, <1>5, <1>6 DEF IInv

\* The session file is filled.
LEMMA WriteSessionStep ==
    ASSUME IInv, NEW c \in Commands, WriteSession(c)
    PROVE  IInv'
<1>0. /\ ControlOK /\ TypeOK /\ AloneInv /\ SettledAgrees /\ NeverAhead
      /\ \A x \in Commands : Progress(x)
  BY DEF IInv, ControlOK, TypeOK
<1>1. /\ ControlOK' /\ AloneInv' /\ OthersStay(c)
      /\ at[c] # "idle" /\ at'[c] = "idle" /\ op'[c] = "none" /\ c \notin alone'
      /\ settled' \subseteq settled \cup {"session"}
  BY <1>0, LeaveFacts DEF WriteSession, Progress, Points, Operations, Group, ghosts
<1>v. /\ payload' \in [Commands -> Grants \cup {NoGrant}]
      /\ pair' \in [Commands -> 0..MaxKeys]
  <2>1. /\ payload' = [payload EXCEPT ![c] = NoGrant]
        /\ pair' = [pair EXCEPT ![c] = 0]
    BY DEF WriteSession, Leave
  <2> QED
    BY <1>0, <2>1 DEF TypeOK
<1>2. TypeOK'
  BY <1>0, <1>1, <1>v DEF WriteSession, TypeOK, ControlOK, tokenVars, keyVars, ghosts, local
<1>3. Progress(c)'
  BY <1>0, <1>1 DEF WriteSession, Progress, tokenVars, keyVars, ghosts, local
<1>4. ASSUME NEW x \in Commands \ {c} PROVE Progress(x)'
  <2>1. payload'[x] = payload[x] /\ pair'[x] = pair[x] /\ stored \subseteq stored'
    BY <1>0 DEF WriteSession, Leave, TypeOK, tokenVars, keyVars, ghosts, local
  <2>2. x \in alone /\ Group(op[x]) = "token" /\ at[x] # "idle" => envelope' = envelope
    BY <1>0 DEF WriteSession, AloneInv, Progress, Group, tokenVars, keyVars
  <2>3. x \in alone /\ op[x] = "register" => private' = private
    BY <1>0 DEF WriteSession, AloneInv, Progress, Group, tokenVars, keyVars
  <2> QED
    BY <1>0, <1>1, <2>1, <2>2, <2>3, OthersProgress
<1>5. SettledAgrees'
  <2>1. settled' \subseteq settled \cup {"session"}
    BY <1>1
  <2> QED
    BY <1>0, <2>1 DEF WriteSession, SettledAgrees, TokenAgrees, tokenVars, keyVars, File
<1>6. NeverAhead'
  BY <1>0 DEF WriteSession, NeverAhead, Progress, File, tokenVars
<1> QED
  BY <1>1, <1>2, <1>3, <1>4, <1>5, <1>6 DEF IInv

\* oauth-complete finds its session file fresh.
LEMMA BeginCompleteStep ==
    ASSUME IInv, NEW c \in Commands, NEW s \in Sessions, BeginComplete(c, s)
    PROVE  IInv'
<1>0. /\ ControlOK /\ TypeOK /\ AloneInv /\ SettledAgrees /\ NeverAhead
      /\ \A x \in Commands : Progress(x)
  BY DEF IInv, ControlOK, TypeOK
<1>1. /\ ControlOK' /\ AloneInv' /\ OthersStay(c)
      /\ at[c] = "idle" /\ at'[c] = "envelope" /\ op'[c] = "complete" /\ settled' \subseteq settled
  BY <1>0, EnterFacts DEF BeginComplete, Progress, Points, Operations, Group, ghosts
<1>g. [session |-> s, rotation |-> 0] \in Grants
  BY <1>0 DEF Grants
<1>p. payload' \in [Commands -> Grants \cup {NoGrant}] /\ payload'[c] = [session |-> s,
   rotation |-> 0]
  BY <1>0, <1>g DEF BeginComplete, TypeOK
<1>2. TypeOK'
  BY <1>0, <1>1, <1>p DEF BeginComplete, TypeOK, ControlOK, tokenVars, keyVars, ghosts, local
<1>3. Progress(c)'
  BY <1>0, <1>1, <1>g, <1>p DEF BeginComplete, Progress, tokenVars, keyVars, ghosts, local
<1>4. ASSUME NEW x \in Commands \ {c} PROVE Progress(x)'
  <2>1. payload'[x] = payload[x] /\ pair'[x] = pair[x] /\ stored \subseteq stored'
    BY <1>0 DEF BeginComplete, TypeOK, tokenVars, keyVars, ghosts, local
  <2>2. x \in alone /\ Group(op[x]) = "token" /\ at[x] # "idle" => envelope' = envelope
    BY <1>0 DEF BeginComplete, AloneInv, Progress, Group, tokenVars, keyVars
  <2>3. x \in alone /\ op[x] = "register" => private' = private
    BY <1>0 DEF BeginComplete, AloneInv, Progress, Group, tokenVars, keyVars
  <2> QED
    BY <1>0, <1>1, <2>1, <2>2, <2>3, OthersProgress
<1>5. SettledAgrees'
  <2>1. "token" \in settled => UNCHANGED <<envelope, status>>
    BY <1>0 DEF BeginComplete, AloneInv, Progress, Group, tokenVars, keyVars
  <2>2. "keys" \in settled => UNCHANGED <<private, public>>
    BY <1>0 DEF BeginComplete, AloneInv, Progress, Group, tokenVars, keyVars
  <2> QED
    BY <1>0, <1>1, <2>1, <2>2, SettledStays DEF BeginComplete, ghosts
<1>6. NeverAhead'
  BY <1>0 DEF BeginComplete, NeverAhead, Progress, File, tokenVars
<1> QED
  BY <1>1, <1>2, <1>3, <1>4, <1>5, <1>6 DEF IInv

\* A refresh reads the envelope it will write back rotated.
LEMMA BeginRefreshStep ==
    ASSUME IInv, NEW c \in Commands, BeginRefresh(c)
    PROVE  IInv'
<1>0. /\ ControlOK /\ TypeOK /\ AloneInv /\ SettledAgrees /\ NeverAhead
      /\ \A x \in Commands : Progress(x)
  BY DEF IInv, ControlOK, TypeOK
<1>1. /\ ControlOK' /\ AloneInv' /\ OthersStay(c)
      /\ at[c] = "idle" /\ at'[c] = "envelope" /\ op'[c] = "refresh" /\ settled' \subseteq settled
  BY <1>0, EnterFacts DEF BeginRefresh, Progress, Points, Operations, Group, ghosts
<1>e. envelope.grant \in Grants /\ envelope.grant.rotation < MaxRotation
  BY <1>0 DEF BeginRefresh, TypeOK
<1>g. Rotated(envelope.grant) \in Grants
  BY <1>0, <1>e DEF Rotated, Grants
<1>p. payload' \in [Commands -> Grants \cup {NoGrant}] /\ payload'[c] = Rotated(envelope.grant)
  BY <1>0, <1>g DEF BeginRefresh, TypeOK
<1>2. TypeOK'
  BY <1>0, <1>1, <1>p DEF BeginRefresh, TypeOK, ControlOK, tokenVars, keyVars, ghosts, local
<1>3. Progress(c)'
  BY <1>0, <1>1, <1>g, <1>p DEF BeginRefresh, Progress, tokenVars, keyVars, ghosts, local
<1>4. ASSUME NEW x \in Commands \ {c} PROVE Progress(x)'
  <2>1. payload'[x] = payload[x] /\ pair'[x] = pair[x] /\ stored \subseteq stored'
    BY <1>0 DEF BeginRefresh, TypeOK, tokenVars, keyVars, ghosts, local
  <2>2. x \in alone /\ Group(op[x]) = "token" /\ at[x] # "idle" => envelope' = envelope
    BY <1>0 DEF BeginRefresh, AloneInv, Progress, Group, tokenVars, keyVars
  <2>3. x \in alone /\ op[x] = "register" => private' = private
    BY <1>0 DEF BeginRefresh, AloneInv, Progress, Group, tokenVars, keyVars
  <2> QED
    BY <1>0, <1>1, <2>1, <2>2, <2>3, OthersProgress
<1>5. SettledAgrees'
  <2>1. "token" \in settled => UNCHANGED <<envelope, status>>
    BY <1>0 DEF BeginRefresh, AloneInv, Progress, Group, tokenVars, keyVars
  <2>2. "keys" \in settled => UNCHANGED <<private, public>>
    BY <1>0 DEF BeginRefresh, AloneInv, Progress, Group, tokenVars, keyVars
  <2> QED
    BY <1>0, <1>1, <2>1, <2>2, SettledStays DEF BeginRefresh, ghosts
<1>6. NeverAhead'
  BY <1>0 DEF BeginRefresh, NeverAhead, Progress, File, tokenVars
<1> QED
  BY <1>1, <1>2, <1>3, <1>4, <1>5, <1>6 DEF IInv

\* A revocation reads nothing.
LEMMA BeginRevokeStep ==
    ASSUME IInv, NEW c \in Commands, BeginRevoke(c)
    PROVE  IInv'
<1>0. /\ ControlOK /\ TypeOK /\ AloneInv /\ SettledAgrees /\ NeverAhead
      /\ \A x \in Commands : Progress(x)
  BY DEF IInv, ControlOK, TypeOK
<1>1. /\ ControlOK' /\ AloneInv' /\ OthersStay(c)
      /\ at[c] = "idle" /\ at'[c] = "delete" /\ op'[c] = "revoke" /\ settled' \subseteq settled
  BY <1>0, EnterFacts DEF BeginRevoke, Progress, Points, Operations, Group, ghosts
<1>2. TypeOK'
  BY <1>0, <1>1 DEF BeginRevoke, TypeOK, ControlOK, tokenVars, keyVars, ghosts, local
<1>3. Progress(c)'
  BY <1>0, <1>1 DEF BeginRevoke, Progress, tokenVars, keyVars, ghosts, local
<1>4. ASSUME NEW x \in Commands \ {c} PROVE Progress(x)'
  <2>1. payload'[x] = payload[x] /\ pair'[x] = pair[x] /\ stored \subseteq stored'
    BY <1>0 DEF BeginRevoke, TypeOK, tokenVars, keyVars, ghosts, local
  <2>2. x \in alone /\ Group(op[x]) = "token" /\ at[x] # "idle" => envelope' = envelope
    BY <1>0 DEF BeginRevoke, AloneInv, Progress, Group, tokenVars, keyVars
  <2>3. x \in alone /\ op[x] = "register" => private' = private
    BY <1>0 DEF BeginRevoke, AloneInv, Progress, Group, tokenVars, keyVars
  <2> QED
    BY <1>0, <1>1, <2>1, <2>2, <2>3, OthersProgress
<1>5. SettledAgrees'
  <2>1. "token" \in settled => UNCHANGED <<envelope, status>>
    BY <1>0 DEF BeginRevoke, AloneInv, Progress, Group, tokenVars, keyVars
  <2>2. "keys" \in settled => UNCHANGED <<private, public>>
    BY <1>0 DEF BeginRevoke, AloneInv, Progress, Group, tokenVars, keyVars
  <2> QED
    BY <1>0, <1>1, <2>1, <2>2, SettledStays DEF BeginRevoke, ghosts
<1>6. NeverAhead'
  BY <1>0 DEF BeginRevoke, NeverAhead, Progress, File, tokenVars
<1> QED
  BY <1>1, <1>2, <1>3, <1>4, <1>5, <1>6 DEF IInv

\* The secret store opens the envelope for writing.
LEMMA TruncateEnvelopeStep ==
    ASSUME IInv, NEW c \in Commands, TruncateEnvelope(c)
    PROVE  IInv'
<1>0. /\ ControlOK /\ TypeOK /\ AloneInv /\ SettledAgrees /\ NeverAhead
      /\ \A x \in Commands : Progress(x)
  BY DEF IInv, ControlOK, TypeOK
<1>1. /\ ControlOK' /\ AloneInv' /\ OthersStay(c)
      /\ at[c] # "idle" /\ at'[c] = "envelope open" /\ op' = op /\ settled' = settled
  BY <1>0, GotoFacts DEF TruncateEnvelope, Progress, Points, Operations, Group, ghosts
<1>2. TypeOK'
  BY <1>0, <1>1 DEF TruncateEnvelope, TypeOK, ControlOK, tokenVars, keyVars, ghosts, local, File
<1>3. Progress(c)'
  BY <1>0, <1>1 DEF TruncateEnvelope, Progress, tokenVars, keyVars, ghosts, local
<1>4. ASSUME NEW x \in Commands \ {c} PROVE Progress(x)'
  <2>1. payload'[x] = payload[x] /\ pair'[x] = pair[x] /\ stored \subseteq stored'
    BY <1>0 DEF TruncateEnvelope, TypeOK, tokenVars, keyVars, ghosts, local
  <2>2. x \in alone /\ Group(op[x]) = "token" /\ at[x] # "idle" => envelope' = envelope
    BY <1>0 DEF TruncateEnvelope, AloneInv, Progress, Group, tokenVars, keyVars
  <2>3. x \in alone /\ op[x] = "register" => private' = private
    BY <1>0 DEF TruncateEnvelope, AloneInv, Progress, Group, tokenVars, keyVars
  <2> QED
    BY <1>0, <1>1, <2>1, <2>2, <2>3, OthersProgress
<1>5. SettledAgrees'
  <2>1. "token" \in settled => UNCHANGED <<envelope, status>>
    BY <1>0 DEF TruncateEnvelope, AloneInv, Progress, Group, tokenVars, keyVars
  <2>2. "keys" \in settled => UNCHANGED <<private, public>>
    BY <1>0 DEF TruncateEnvelope, AloneInv, Progress, Group, tokenVars, keyVars
  <2> QED
    BY <1>0, <1>1, <2>1, <2>2, SettledStays DEF TruncateEnvelope, ghosts
<1>6. NeverAhead'
  BY <1>0 DEF TruncateEnvelope, NeverAhead, Progress, File, tokenVars
<1> QED
  BY <1>1, <1>2, <1>3, <1>4, <1>5, <1>6 DEF IInv

\* The envelope is filled, or mixed with another writer's.
LEMMA FillEnvelopeStep ==
    ASSUME IInv, NEW c \in Commands, FillEnvelope(c)
    PROVE  IInv'
<1>0. /\ ControlOK /\ TypeOK /\ AloneInv /\ SettledAgrees /\ NeverAhead
      /\ \A x \in Commands : Progress(x)
  BY DEF IInv, ControlOK, TypeOK
<1>1. /\ ControlOK' /\ AloneInv' /\ OthersStay(c)
      /\ at[c] # "idle" /\ at'[c] = "status" /\ op' = op /\ settled' = settled
  BY <1>0, GotoFacts DEF FillEnvelope, Progress, Points, Operations, Group, ghosts
<1>e. /\ payload[c] \in Grants /\ stored' = stored \cup {payload[c]}
      /\ c \in alone => envelope' = File("stored", payload[c])
      /\ envelope' \in {File("stored", payload[c]), File("torn", NoGrant)}
      /\ op[c] \in {"complete", "refresh"}
  BY <1>0 DEF FillEnvelope, Whole, Progress
<1>f. envelope' \in [kind : {"missing", "torn"}, grant : {NoGrant}]
                   \cup [kind : {"stored"}, grant : Grants]
  BY <1>e DEF File
<1>2. TypeOK'
  BY <1>0, <1>1, <1>e, <1>f DEF FillEnvelope, TypeOK, ControlOK, tokenVars, keyVars, ghosts, local
<1>3. Progress(c)'
  BY <1>0, <1>1, <1>e DEF FillEnvelope, Progress, tokenVars, keyVars, ghosts, local
<1>4. ASSUME NEW x \in Commands \ {c} PROVE Progress(x)'
  <2>1. payload'[x] = payload[x] /\ pair'[x] = pair[x] /\ stored \subseteq stored'
    BY <1>0 DEF FillEnvelope, TypeOK, tokenVars, keyVars, ghosts, local
  <2>2. x \in alone /\ Group(op[x]) = "token" /\ at[x] # "idle" => envelope' = envelope
    BY <1>0 DEF FillEnvelope, AloneInv, Progress, Group, tokenVars, keyVars
  <2>3. x \in alone /\ op[x] = "register" => private' = private
    BY <1>0 DEF FillEnvelope, AloneInv, Progress, Group, tokenVars, keyVars
  <2> QED
    BY <1>0, <1>1, <2>1, <2>2, <2>3, OthersProgress
<1>5. SettledAgrees'
  <2>1. "token" \in settled => UNCHANGED <<envelope, status>>
    BY <1>0 DEF FillEnvelope, AloneInv, Progress, Group, tokenVars, keyVars
  <2>2. "keys" \in settled => UNCHANGED <<private, public>>
    BY <1>0 DEF FillEnvelope, AloneInv, Progress, Group, tokenVars, keyVars
  <2> QED
    BY <1>0, <1>1, <2>1, <2>2, SettledStays DEF FillEnvelope, ghosts
<1>6. NeverAhead'
  BY <1>0 DEF FillEnvelope, NeverAhead, Progress, File, tokenVars
<1> QED
  BY <1>1, <1>2, <1>3, <1>4, <1>5, <1>6 DEF IInv

\* The envelope is deleted.
LEMMA DeleteEnvelopeStep ==
    ASSUME IInv, NEW c \in Commands, DeleteEnvelope(c)
    PROVE  IInv'
<1>0. /\ ControlOK /\ TypeOK /\ AloneInv /\ SettledAgrees /\ NeverAhead
      /\ \A x \in Commands : Progress(x)
  BY DEF IInv, ControlOK, TypeOK
<1>1. /\ ControlOK' /\ AloneInv' /\ OthersStay(c)
      /\ at[c] # "idle" /\ at'[c] = "status" /\ op' = op /\ settled' = settled
  BY <1>0, GotoFacts DEF DeleteEnvelope, Progress, Points, Operations, Group, ghosts
<1>2. TypeOK'
  BY <1>0, <1>1 DEF DeleteEnvelope, TypeOK, ControlOK, tokenVars, keyVars, ghosts, local,
     Deleted, File
<1>3. Progress(c)'
  BY <1>0, <1>1 DEF DeleteEnvelope, Progress, tokenVars, keyVars, ghosts, local, Deleted, File
<1>4. ASSUME NEW x \in Commands \ {c} PROVE Progress(x)'
  <2>1. payload'[x] = payload[x] /\ pair'[x] = pair[x] /\ stored \subseteq stored'
    BY <1>0 DEF DeleteEnvelope, TypeOK, tokenVars, keyVars, ghosts, local
  <2>2. x \in alone /\ Group(op[x]) = "token" /\ at[x] # "idle" => envelope' = envelope
    BY <1>0 DEF DeleteEnvelope, AloneInv, Progress, Group, tokenVars, keyVars
  <2>3. x \in alone /\ op[x] = "register" => private' = private
    BY <1>0 DEF DeleteEnvelope, AloneInv, Progress, Group, tokenVars, keyVars
  <2> QED
    BY <1>0, <1>1, <2>1, <2>2, <2>3, OthersProgress
<1>5. SettledAgrees'
  <2>1. "token" \in settled => UNCHANGED <<envelope, status>>
    BY <1>0 DEF DeleteEnvelope, AloneInv, Progress, Group, tokenVars, keyVars
  <2>2. "keys" \in settled => UNCHANGED <<private, public>>
    BY <1>0 DEF DeleteEnvelope, AloneInv, Progress, Group, tokenVars, keyVars
  <2> QED
    BY <1>0, <1>1, <2>1, <2>2, SettledStays DEF DeleteEnvelope, ghosts
<1>6. NeverAhead'
  BY <1>0 DEF DeleteEnvelope, NeverAhead, Progress, File, tokenVars
<1> QED
  BY <1>1, <1>2, <1>3, <1>4, <1>5, <1>6 DEF IInv

\* token-status.json is opened for writing.
LEMMA TruncateStatusStep ==
    ASSUME IInv, NEW c \in Commands, TruncateStatus(c)
    PROVE  IInv'
<1>0. /\ ControlOK /\ TypeOK /\ AloneInv /\ SettledAgrees /\ NeverAhead
      /\ \A x \in Commands : Progress(x)
  BY DEF IInv, ControlOK, TypeOK
<1>1. /\ ControlOK' /\ AloneInv' /\ OthersStay(c)
      /\ at[c] # "idle" /\ at'[c] = "status open" /\ op' = op /\ settled' = settled
  BY <1>0, GotoFacts DEF TruncateStatus, StatusPoint, Progress, Points, Operations, Group, ghosts
<1>2. TypeOK'
  BY <1>0, <1>1 DEF TruncateStatus, StatusPoint, TypeOK, ControlOK, tokenVars, keyVars, ghosts,
     local, File
<1>3. Progress(c)'
  BY <1>0, <1>1 DEF TruncateStatus, StatusPoint, Progress, tokenVars, keyVars, ghosts, local
<1>4. ASSUME NEW x \in Commands \ {c} PROVE Progress(x)'
  <2>1. payload'[x] = payload[x] /\ pair'[x] = pair[x] /\ stored \subseteq stored'
    BY <1>0 DEF TruncateStatus, StatusPoint, TypeOK, tokenVars, keyVars, ghosts, local
  <2>2. x \in alone /\ Group(op[x]) = "token" /\ at[x] # "idle" => envelope' = envelope
    BY <1>0 DEF TruncateStatus, StatusPoint, AloneInv, Progress, Group, tokenVars, keyVars
  <2>3. x \in alone /\ op[x] = "register" => private' = private
    BY <1>0 DEF TruncateStatus, StatusPoint, AloneInv, Progress, Group, tokenVars, keyVars
  <2> QED
    BY <1>0, <1>1, <2>1, <2>2, <2>3, OthersProgress
<1>5. SettledAgrees'
  <2>1. "token" \in settled => UNCHANGED <<envelope, status>>
    BY <1>0 DEF TruncateStatus, StatusPoint, AloneInv, Progress, Group, tokenVars, keyVars
  <2>2. "keys" \in settled => UNCHANGED <<private, public>>
    BY <1>0 DEF TruncateStatus, StatusPoint, AloneInv, Progress, Group, tokenVars, keyVars
  <2> QED
    BY <1>0, <1>1, <2>1, <2>2, SettledStays DEF TruncateStatus, StatusPoint, ghosts
<1>6. NeverAhead'
  BY <1>0 DEF TruncateStatus, StatusPoint, NeverAhead, Progress, File, tokenVars
<1> QED
  BY <1>1, <1>2, <1>3, <1>4, <1>5, <1>6 DEF IInv

\* token-status.json is filled and the command ends: alone, it leaves both files in agreement.
LEMMA FillStatusStep ==
    ASSUME IInv, NEW c \in Commands, FillStatus(c)
    PROVE  IInv'
<1>0. /\ ControlOK /\ TypeOK /\ AloneInv /\ SettledAgrees /\ NeverAhead
      /\ \A x \in Commands : Progress(x)
  BY DEF IInv, ControlOK, TypeOK
<1>1. /\ ControlOK' /\ AloneInv' /\ OthersStay(c)
      /\ at[c] # "idle" /\ at'[c] = "idle" /\ op'[c] = "none" /\ c \notin alone'
      /\ settled' \subseteq settled \cup {"token"}
      /\ "token" \in settled' => "token" \in settled \/ c \in alone
  BY <1>0, LeaveFacts DEF FillStatus, Progress, Points, Operations, Group, ghosts
<1>v. /\ payload' \in [Commands -> Grants \cup {NoGrant}]
      /\ pair' \in [Commands -> 0..MaxKeys]
  <2>1. /\ payload' = [payload EXCEPT ![c] = NoGrant]
        /\ pair' = [pair EXCEPT ![c] = 0]
    BY DEF FillStatus, Leave
  <2> QED
    BY <1>0, <2>1 DEF TypeOK
<1>s. status' \in [kind : {"missing", "torn", "active", "revoked"}, grant : Grants \cup {NoGrant}]
  <2>1. payload[c] \in Grants \cup {NoGrant}
    BY <1>0 DEF TypeOK
  <2>2. status' \in {File("revoked", NoGrant), File("active", payload[c]), File("torn", NoGrant)}
    BY DEF FillStatus, Recorded
  <2> QED
    BY <2>1, <2>2 DEF File
<1>2. TypeOK'
  BY <1>0, <1>1, <1>v, <1>s DEF FillStatus, TypeOK, ControlOK, tokenVars, keyVars, ghosts, local
<1>3. Progress(c)'
  BY <1>0, <1>1 DEF FillStatus, Progress, tokenVars, keyVars, ghosts, local
<1>4. ASSUME NEW x \in Commands \ {c} PROVE Progress(x)'
  <2>1. payload'[x] = payload[x] /\ pair'[x] = pair[x] /\ stored \subseteq stored'
    BY <1>0 DEF FillStatus, Leave, TypeOK, tokenVars, keyVars, ghosts, local
  <2>2. x \in alone /\ Group(op[x]) = "token" /\ at[x] # "idle" => envelope' = envelope
    BY <1>0 DEF FillStatus, AloneInv, Progress, Group, tokenVars, keyVars
  <2>3. x \in alone /\ op[x] = "register" => private' = private
    BY <1>0 DEF FillStatus, AloneInv, Progress, Group, tokenVars, keyVars
  <2> QED
    BY <1>0, <1>1, <2>1, <2>2, <2>3, OthersProgress
<1>5. SettledAgrees'
  <2>1. "token" \notin settled /\ op[c] \in {"complete", "refresh", "revoke"}
    BY <1>0 DEF FillStatus, AloneInv, Progress, Group
  <2>2. "token" \in settled' => TokenAgrees'
    <3>1. SUFFICES ASSUME c \in alone PROVE TokenAgrees'
      BY <1>1, <2>1
    <3>2. status' = Recorded(c) /\ envelope' = envelope
      BY <3>1 DEF FillStatus, Whole
    <3>3. IF op[c] = "revoke" THEN envelope.kind = "missing"
                              ELSE envelope = File("stored", payload[c])
      BY <1>0, <3>1 DEF FillStatus, Progress
    <3> QED
      BY <3>2, <3>3 DEF TokenAgrees, Recorded, File
  <2>3. "keys" \in settled' => "keys" \in settled /\ UNCHANGED <<private, public>>
    BY <1>1 DEF FillStatus, keyVars
  <2> QED
    BY <1>0, <2>2, <2>3 DEF SettledAgrees
<1>6. NeverAhead'
  <2>1. CASE status' = File("torn", NoGrant)
    BY <2>1 DEF NeverAhead, File
  <2>2. CASE status' = Recorded(c)
    BY <1>0, <2>2 DEF FillStatus, NeverAhead, Progress, Recorded, File
  <2> QED
    BY <2>1, <2>2 DEF FillStatus
<1> QED
  BY <1>1, <1>2, <1>3, <1>4, <1>5, <1>6 DEF IInv

\* register makes a new key pair.
LEMMA BeginRegisterStep ==
    ASSUME IInv, NEW c \in Commands, BeginRegister(c)
    PROVE  IInv'
<1>0. /\ ControlOK /\ TypeOK /\ AloneInv /\ SettledAgrees /\ NeverAhead
      /\ \A x \in Commands : Progress(x)
  BY DEF IInv, ControlOK, TypeOK
<1>1. /\ ControlOK' /\ AloneInv' /\ OthersStay(c)
      /\ at[c] = "idle" /\ at'[c] = "private" /\ op'[c] = "register" /\ settled' \subseteq settled
  BY <1>0, EnterFacts DEF BeginRegister, Progress, Points, Operations, Group, ghosts
<1>k. keys' \in 0..MaxKeys /\ pair' \in [Commands -> 0..MaxKeys]
  BY <1>0 DEF BeginRegister, TypeOK
<1>2. TypeOK'
  BY <1>0, <1>1, <1>k DEF BeginRegister, TypeOK, ControlOK, tokenVars, keyVars, ghosts, local
<1>3. Progress(c)'
  BY <1>0, <1>1 DEF BeginRegister, Progress, tokenVars, keyVars, ghosts, local
<1>4. ASSUME NEW x \in Commands \ {c} PROVE Progress(x)'
  <2>1. payload'[x] = payload[x] /\ pair'[x] = pair[x] /\ stored \subseteq stored'
    BY <1>0 DEF BeginRegister, TypeOK, tokenVars, keyVars, ghosts, local
  <2>2. x \in alone /\ Group(op[x]) = "token" /\ at[x] # "idle" => envelope' = envelope
    BY <1>0 DEF BeginRegister, AloneInv, Progress, Group, tokenVars, keyVars
  <2>3. x \in alone /\ op[x] = "register" => private' = private
    BY <1>0 DEF BeginRegister, AloneInv, Progress, Group, tokenVars, keyVars
  <2> QED
    BY <1>0, <1>1, <2>1, <2>2, <2>3, OthersProgress
<1>5. SettledAgrees'
  <2>1. "token" \in settled => UNCHANGED <<envelope, status>>
    BY <1>0 DEF BeginRegister, AloneInv, Progress, Group, tokenVars, keyVars
  <2>2. "keys" \in settled => UNCHANGED <<private, public>>
    BY <1>0 DEF BeginRegister, AloneInv, Progress, Group, tokenVars, keyVars
  <2> QED
    BY <1>0, <1>1, <2>1, <2>2, SettledStays DEF BeginRegister, ghosts
<1>6. NeverAhead'
  BY <1>0 DEF BeginRegister, NeverAhead, Progress, File, tokenVars
<1> QED
  BY <1>1, <1>2, <1>3, <1>4, <1>5, <1>6 DEF IInv

\* The private key is opened and filled.
LEMMA WritePrivateStep ==
    ASSUME IInv, NEW c \in Commands, WritePrivate(c)
    PROVE  IInv'
<1>0. /\ ControlOK /\ TypeOK /\ AloneInv /\ SettledAgrees /\ NeverAhead
      /\ \A x \in Commands : Progress(x)
  BY DEF IInv, ControlOK, TypeOK
<1>1. /\ ControlOK' /\ AloneInv' /\ OthersStay(c)
      /\ at[c] \in {"private", "private open"} /\ op' = op /\ settled' = settled
      /\ IF at[c] = "private" THEN at'[c] = "private open" ELSE at'[c] = "public"
  BY <1>0, GotoFacts DEF WritePrivate, Progress, Points, Operations, Group, ghosts
<1>k. /\ private' \in [kind : {"missing", "torn", "stored"}, number : 0..MaxKeys]
      /\ c \in alone /\ at'[c] = "public" => private' = Key("stored", pair[c])
      /\ op[c] = "register"
  <2>1. pair[c] \in 0..MaxKeys
    BY <1>0 DEF TypeOK
  <2>2. /\ private' \in {Key("torn", 0), Key("stored", pair[c])}
        /\ op[c] = "register"
    BY <1>0 DEF WritePrivate, Progress
  <2>3. c \in alone /\ at'[c] = "public" => private' = Key("stored", pair[c])
    <3>1. CASE at[c] = "private"
      BY <1>1, <3>1
    <3>2. CASE at[c] = "private open"
      BY <3>2 DEF WritePrivate, Whole
    <3> QED
      BY <1>1, <3>1, <3>2
  <2> QED
    BY <2>1, <2>2, <2>3 DEF Key
<1>2. TypeOK'
  BY <1>0, <1>1, <1>k DEF WritePrivate, TypeOK, ControlOK, tokenVars, keyVars, ghosts, local
<1>3. Progress(c)'
  BY <1>0, <1>1, <1>k DEF WritePrivate, Progress, tokenVars, keyVars, ghosts, local
<1>4. ASSUME NEW x \in Commands \ {c} PROVE Progress(x)'
  <2>1. payload'[x] = payload[x] /\ pair'[x] = pair[x] /\ stored \subseteq stored'
    BY <1>0 DEF WritePrivate, TypeOK, tokenVars, keyVars, ghosts, local
  <2>2. x \in alone /\ Group(op[x]) = "token" /\ at[x] # "idle" => envelope' = envelope
    BY <1>0 DEF WritePrivate, AloneInv, Progress, Group, tokenVars, keyVars
  <2>3. x \in alone /\ op[x] = "register" => private' = private
    BY <1>0 DEF WritePrivate, AloneInv, Progress, Group, tokenVars, keyVars
  <2> QED
    BY <1>0, <1>1, <2>1, <2>2, <2>3, OthersProgress
<1>5. SettledAgrees'
  <2>1. "token" \in settled => UNCHANGED <<envelope, status>>
    BY <1>0 DEF WritePrivate, AloneInv, Progress, Group, tokenVars, keyVars
  <2>2. "keys" \in settled => UNCHANGED <<private, public>>
    BY <1>0 DEF WritePrivate, AloneInv, Progress, Group, tokenVars, keyVars
  <2> QED
    BY <1>0, <1>1, <2>1, <2>2, SettledStays DEF WritePrivate, ghosts
<1>6. NeverAhead'
  BY <1>0 DEF WritePrivate, NeverAhead, Progress, File, tokenVars
<1> QED
  BY <1>1, <1>2, <1>3, <1>4, <1>5, <1>6 DEF IInv

\* The public key is opened and filled, and the registration ends.
LEMMA WritePublicStep ==
    ASSUME IInv, NEW c \in Commands, WritePublic(c)
    PROVE  IInv'
<1>0. /\ ControlOK /\ TypeOK /\ AloneInv /\ SettledAgrees /\ NeverAhead
      /\ \A x \in Commands : Progress(x)
  BY DEF IInv, ControlOK, TypeOK
<1>1. /\ at[c] \in {"public", "public open"} /\ op[c] = "register" /\ "keys" \notin settled
      /\ UNCHANGED <<session, tokenVars, private, keys>>
  BY <1>0 DEF WritePublic, Progress, AloneInv, Group
<1>2. /\ ControlOK' /\ AloneInv' /\ OthersStay(c)
      /\ \/ at[c] = "public" /\ at'[c] = "public open" /\ settled' = settled /\ op' = op
            /\ alone' = alone /\ payload' = payload /\ pair' = pair
         \/ /\ at[c] = "public open" /\ at'[c] = "idle" /\ op'[c] = "none" /\ c \notin alone'
            /\ settled' \subseteq settled \cup {"keys"}
            /\ "keys" \in settled' => c \in alone
            /\ payload' = [payload EXCEPT ![c] = NoGrant] /\ pair' = [pair EXCEPT ![c] = 0]
  <2>1. CASE at[c] = "public"
    BY <1>0, <1>1, <2>1, GotoFacts DEF WritePublic, Points, ghosts, local
  <2>2. CASE at[c] = "public open"
    <3>1. Leave(c, TRUE)
      BY <2>2 DEF WritePublic
    <3> QED
      BY <1>0, <1>1, <2>2, <3>1, LeaveFacts DEF Leave, Group
  <2> QED
    BY <1>1, <2>1, <2>2
<1>3. /\ public' \in {Key("torn", 0), Key("stored", pair[c])}
      /\ c \in alone /\ at[c] = "public open" => public' = Key("stored", pair[c])
  BY DEF WritePublic, Whole, PublicKey
<1>4. TypeOK'
  <2>1. pair[c] \in 0..MaxKeys
    BY <1>0 DEF TypeOK
  <2>2. public' \in [kind : {"missing", "torn", "stored"}, number : 0..MaxKeys]
    <3>1. CASE public' = Key("torn", 0)
      BY <3>1 DEF Key
    <3>2. CASE public' = Key("stored", pair[c])
      BY <2>1, <3>2 DEF Key
    <3> QED
      BY <1>3, <3>1, <3>2
  <2>3. payload' \in [Commands -> Grants \cup {NoGrant}] /\ pair' \in [Commands -> 0..MaxKeys]
    <3>1. CASE payload' = payload /\ pair' = pair
      BY <1>0, <3>1 DEF TypeOK
    <3>2. CASE payload' = [payload EXCEPT ![c] = NoGrant] /\ pair' = [pair EXCEPT ![c] = 0]
      BY <1>0, <3>2 DEF TypeOK
    <3> QED
      BY <1>2, <3>1, <3>2
  <2> QED
    BY <1>0, <1>1, <1>2, <2>2, <2>3 DEF TypeOK, ControlOK, tokenVars
<1>5. Progress(c)'
  BY <1>0, <1>1, <1>2 DEF Progress, local, tokenVars
<1>6. ASSUME NEW x \in Commands \ {c} PROVE Progress(x)'
  <2>1. payload'[x] = payload[x] /\ pair'[x] = pair[x]
    BY <1>0, <1>2 DEF TypeOK, local
  <2> QED
    BY <1>0, <1>1, <1>2, <2>1, OthersProgress DEF tokenVars
<1>7. SettledAgrees'
  <2>1. "token" \in settled' => "token" \in settled
    BY <1>2
  <2>2. "keys" \in settled' => c \in alone /\ at[c] = "public open"
    BY <1>1, <1>2
  <2>3. c \in alone => private = Key("stored", pair[c])
    BY <1>0, <1>1 DEF Progress
  <2>4. "keys" \in settled' => private'.kind = "stored" /\ public' = private'
    <3>1. SUFFICES ASSUME "keys" \in settled'
                   PROVE  private'.kind = "stored" /\ public' = private'
      OBVIOUS
    <3>2. private' = Key("stored", pair[c]) /\ public' = Key("stored", pair[c])
      BY <1>1, <1>3, <2>2, <2>3, <3>1
    <3> QED
      BY <3>2 DEF Key
  <2>5. "token" \in settled' => TokenAgrees'
    BY <1>0, <1>1, <2>1 DEF SettledAgrees, TokenAgrees, tokenVars, File
  <2> QED
    BY <2>4, <2>5 DEF SettledAgrees
<1>8. NeverAhead'
  BY <1>0, <1>1 DEF NeverAhead, tokenVars
<1> QED
  BY <1>2, <1>4, <1>5, <1>6, <1>7, <1>8 DEF IInv

\* A reset finds the metadata file.
LEMMA BeginResetStep ==
    ASSUME IInv, NEW c \in Commands, BeginReset(c)
    PROVE  IInv'
<1>0. /\ ControlOK /\ TypeOK /\ AloneInv /\ SettledAgrees /\ NeverAhead
      /\ \A x \in Commands : Progress(x)
  BY DEF IInv, ControlOK, TypeOK
<1>1. /\ ControlOK' /\ AloneInv' /\ OthersStay(c)
      /\ at[c] = "idle" /\ at'[c] = "reset" /\ op'[c] = "reset" /\ settled' \subseteq settled
  BY <1>0, EnterFacts DEF BeginReset, Progress, Points, Operations, Group, ghosts
<1>2. TypeOK'
  BY <1>0, <1>1 DEF BeginReset, TypeOK, ControlOK, tokenVars, keyVars, ghosts, local
<1>3. Progress(c)'
  BY <1>0, <1>1 DEF BeginReset, Progress, tokenVars, keyVars, ghosts, local
<1>4. ASSUME NEW x \in Commands \ {c} PROVE Progress(x)'
  <2>1. payload'[x] = payload[x] /\ pair'[x] = pair[x] /\ stored \subseteq stored'
    BY <1>0 DEF BeginReset, TypeOK, tokenVars, keyVars, ghosts, local
  <2>2. x \in alone /\ Group(op[x]) = "token" /\ at[x] # "idle" => envelope' = envelope
    BY <1>0 DEF BeginReset, AloneInv, Progress, Group, tokenVars, keyVars
  <2>3. x \in alone /\ op[x] = "register" => private' = private
    BY <1>0 DEF BeginReset, AloneInv, Progress, Group, tokenVars, keyVars
  <2> QED
    BY <1>0, <1>1, <2>1, <2>2, <2>3, OthersProgress
<1>5. SettledAgrees'
  <2>1. "token" \in settled => UNCHANGED <<envelope, status>>
    BY <1>0 DEF BeginReset, AloneInv, Progress, Group, tokenVars, keyVars
  <2>2. "keys" \in settled => UNCHANGED <<private, public>>
    BY <1>0 DEF BeginReset, AloneInv, Progress, Group, tokenVars, keyVars
  <2> QED
    BY <1>0, <1>1, <2>1, <2>2, SettledStays DEF BeginReset, ghosts
<1>6. NeverAhead'
  BY <1>0 DEF BeginReset, NeverAhead, Progress, File, tokenVars
<1> QED
  BY <1>1, <1>2, <1>3, <1>4, <1>5, <1>6 DEF IInv

\* The metadata file is removed, which settles nothing.
LEMMA ResetStep ==
    ASSUME IInv, NEW c \in Commands, ResetIntegrationState(c)
    PROVE  IInv'
<1>0. /\ ControlOK /\ TypeOK /\ AloneInv /\ SettledAgrees /\ NeverAhead
      /\ \A x \in Commands : Progress(x)
  BY DEF IInv, ControlOK, TypeOK
<1>1. /\ ControlOK' /\ AloneInv' /\ OthersStay(c)
      /\ at[c] # "idle" /\ at'[c] = "idle" /\ op'[c] = "none" /\ c \notin alone'
      /\ settled' = settled
  BY <1>0, LeaveFacts DEF ResetIntegrationState, Progress, Points, Operations, Group, ghosts
<1>v. /\ payload' \in [Commands -> Grants \cup {NoGrant}]
      /\ pair' \in [Commands -> 0..MaxKeys]
  <2>1. /\ payload' = [payload EXCEPT ![c] = NoGrant]
        /\ pair' = [pair EXCEPT ![c] = 0]
    BY DEF ResetIntegrationState, Leave
  <2> QED
    BY <1>0, <2>1 DEF TypeOK
<1>2. TypeOK'
  BY <1>0, <1>1, <1>v DEF ResetIntegrationState, TypeOK, ControlOK, tokenVars, keyVars, ghosts,
     local, File
<1>3. Progress(c)'
  BY <1>0, <1>1 DEF ResetIntegrationState, Progress, tokenVars, keyVars, ghosts, local
<1>4. ASSUME NEW x \in Commands \ {c} PROVE Progress(x)'
  <2>1. payload'[x] = payload[x] /\ pair'[x] = pair[x] /\ stored \subseteq stored'
    BY <1>0 DEF ResetIntegrationState, Leave, TypeOK, tokenVars, keyVars, ghosts, local
  <2>2. x \in alone /\ Group(op[x]) = "token" /\ at[x] # "idle" => envelope' = envelope
    BY <1>0 DEF ResetIntegrationState, AloneInv, Progress, Group, tokenVars, keyVars
  <2>3. x \in alone /\ op[x] = "register" => private' = private
    BY <1>0 DEF ResetIntegrationState, AloneInv, Progress, Group, tokenVars, keyVars
  <2> QED
    BY <1>0, <1>1, <2>1, <2>2, <2>3, OthersProgress
<1>5. SettledAgrees'
  <2>1. "token" \notin settled
    BY <1>0 DEF ResetIntegrationState, AloneInv, Progress, Group
  <2> QED
    BY <1>0, <1>1, <2>1 DEF ResetIntegrationState, SettledAgrees, keyVars
<1>6. NeverAhead'
  BY <1>0 DEF ResetIntegrationState, NeverAhead, Progress, File, tokenVars
<1> QED
  BY <1>1, <1>2, <1>3, <1>4, <1>5, <1>6 DEF IInv

\* A write that raises, a missing backend or the end of the process.
LEMMA StopStep ==
    ASSUME IInv, NEW c \in Commands, Stop(c)
    PROVE  IInv'
<1>0. /\ ControlOK /\ TypeOK /\ AloneInv /\ SettledAgrees /\ NeverAhead
      /\ \A x \in Commands : Progress(x)
  BY DEF IInv, ControlOK, TypeOK
<1>1. /\ ControlOK' /\ AloneInv' /\ OthersStay(c)
      /\ at[c] # "idle" /\ at'[c] = "idle" /\ op'[c] = "none" /\ c \notin alone'
      /\ settled' = settled
  BY <1>0, LeaveFacts DEF Stop, Progress, Points, Operations, Group, ghosts
<1>v. /\ payload' \in [Commands -> Grants \cup {NoGrant}]
      /\ pair' \in [Commands -> 0..MaxKeys]
  <2>1. /\ payload' = [payload EXCEPT ![c] = NoGrant]
        /\ pair' = [pair EXCEPT ![c] = 0]
    BY DEF Stop, Leave
  <2> QED
    BY <1>0, <2>1 DEF TypeOK
<1>2. TypeOK'
  BY <1>0, <1>1, <1>v DEF Stop, TypeOK, ControlOK, tokenVars, keyVars, ghosts, local
<1>3. Progress(c)'
  BY <1>0, <1>1 DEF Stop, Progress, tokenVars, keyVars, ghosts, local
<1>4. ASSUME NEW x \in Commands \ {c} PROVE Progress(x)'
  <2>1. payload'[x] = payload[x] /\ pair'[x] = pair[x] /\ stored \subseteq stored'
    BY <1>0 DEF Stop, Leave, TypeOK, tokenVars, keyVars, ghosts, local
  <2>2. x \in alone /\ Group(op[x]) = "token" /\ at[x] # "idle" => envelope' = envelope
    BY <1>0 DEF Stop, AloneInv, Progress, Group, tokenVars, keyVars
  <2>3. x \in alone /\ op[x] = "register" => private' = private
    BY <1>0 DEF Stop, AloneInv, Progress, Group, tokenVars, keyVars
  <2> QED
    BY <1>0, <1>1, <2>1, <2>2, <2>3, OthersProgress
<1>5. SettledAgrees'
  BY <1>0, <1>1 DEF Stop, SettledAgrees, TokenAgrees, tokenVars, keyVars, File
<1>6. NeverAhead'
  BY <1>0 DEF Stop, NeverAhead, Progress, File, tokenVars
<1> QED
  BY <1>1, <1>2, <1>3, <1>4, <1>5, <1>6 DEF IInv

\* Ten minutes pass for a session file.
LEMMA ExpireStep ==
    ASSUME IInv, NEW s \in Sessions, Expire(s)
    PROVE  IInv'
BY DEF Expire, IInv, TypeOK, AloneInv, Progress, SettledAgrees, TokenAgrees, NeverAhead,
   tokenVars,
    keyVars, ghosts, local

\* Every step preserves the invariant.
LEMMA StepIInv == IInv /\ [Next]_vars => IInv'
<1>1. ASSUME IInv, UNCHANGED vars PROVE IInv'
  BY <1>1 DEF vars, IInv, TypeOK, AloneInv, Busy, Progress, SettledAgrees, TokenAgrees,
     NeverAhead,
     tokenVars, keyVars, ghosts, local
<1> QED
  BY <1>1, StartSessionStep, WriteSessionStep, BeginCompleteStep, BeginRefreshStep,
     BeginRevokeStep, TruncateEnvelopeStep, FillEnvelopeStep, DeleteEnvelopeStep,
     TruncateStatusStep, FillStatusStep, BeginRegisterStep, WritePrivateStep, WritePublicStep,
     BeginResetStep, ResetStep, StopStep, ExpireStep DEF Next

(***************************************************************************)
(* The files and the commands under way agree in every run.                *)
(***************************************************************************)
THEOREM Inductive == Spec => []IInv
BY InitIInv, StepIInv, PTL DEF Spec

(***************************************************************************)
(* What token-status.json says can be relied on: it agrees with the secret *)
(* store after a command that ran alone, whatever crashed or raced before, *)
(* and it never reports a token that no command stored (refresh_token,     *)
(* revoke_token, complete_oauth).                                          *)
(***************************************************************************)
THEOREM StatusReliable == Spec => []StatusIsHonest
<1>1. IInv => StatusIsHonest
  BY DEF IInv, StatusIsHonest
<1> QED
  BY <1>1, Inductive, PTL
================================================================================
