----------------------------- MODULE OpenViking ------------------------------
(***************************************************************************)
(* The OpenViking memory provider (plugins/memory/openviking/__init__.py). *)
(* Each agent of the process has a provider object with a session of its   *)
(* own on the server.  Threads post the messages of the session, the end   *)
(* of the session commits what the server then holds, and one reference in *)
(* the module, to the provider initialised last, is what atexit commits.   *)
(***************************************************************************)
EXTENDS Naturals, Sequences, FiniteSets, SequencesExt

CONSTANTS Agents,       \* provider objects of the process
          MaxTurns,     \* bound: turns of one provider
          MaxMessages,  \* bound: messages of a session before another note
          MaxThreads    \* bound: posting threads of one provider at once

VARIABLES connected,    \* "new" | "up" | "down": _client
          turnCount,    \* _turn_count
          threads,      \* per provider, how many messages each thread has still to post
          messages,     \* how many the server holds of the provider's session
          committed,    \* how many of them the last commit covered
          lastActive,   \* _last_active_provider
          started,      \* history: the providers in order of initialize
          shut,         \* history: providers that ran shutdown
          exited,       \* "no" | "atexit" | "killed"
          answer        \* outcome of the step, when it was a tool call or the exit

vars == <<connected, turnCount, threads, messages, committed, lastActive, started,
          shut, exited, answer>>

NoAgent == "none"
NoAnswer == [kind |-> "none"]

Init ==
    /\ connected = [p \in Agents |-> "new"]
    /\ turnCount = [p \in Agents |-> 0]
    /\ threads = [p \in Agents |-> <<>>]
    /\ messages = [p \in Agents |-> 0]
    /\ committed = [p \in Agents |-> 0]
    /\ lastActive = NoAgent /\ started = <<>> /\ shut = {}
    /\ exited = "no" /\ answer = NoAnswer

Ready(p) == exited = "no" /\ connected[p] = "up"

(* initialize: the health check decides whether there is a client; either   *)
(* way the provider becomes the one atexit knows.                           *)
Initialize(p) ==
    /\ exited = "no" /\ connected[p] = "new"
    /\ connected' \in {[connected EXCEPT ![p] = c] : c \in {"up", "down"}}
    /\ turnCount' = [turnCount EXCEPT ![p] = 0]
    /\ lastActive' = p /\ started' = Append(started, p)
    /\ answer' = NoAnswer
    /\ UNCHANGED <<threads, messages, committed, shut, exited>>

(* sync_turn counts the turn and starts a thread that posts the user's and  *)
(* then the assistant's message.  The wait for the previous thread may end  *)
(* before the thread does.                                                  *)
SyncTurn(p) ==
    /\ Ready(p) /\ turnCount[p] < MaxTurns /\ Len(threads[p]) < MaxThreads
    /\ turnCount' = [turnCount EXCEPT ![p] = @ + 1]
    /\ threads' = [threads EXCEPT ![p] = Append(@, 2)]
    /\ answer' = NoAnswer
    /\ UNCHANGED <<connected, messages, committed, lastActive, started, shut, exited>>

(* on_memory_write mirrors an added memory from a thread nobody waits for.  *)
MemoryWrite(p) ==
    /\ Ready(p) /\ Len(threads[p]) < MaxThreads /\ messages[p] < MaxMessages
    /\ threads' = [threads EXCEPT ![p] = Append(@, 1)]
    /\ answer' = NoAnswer
    /\ UNCHANGED <<connected, turnCount, messages, committed, lastActive, started,
                   shut, exited>>

(* A request the server took may still raise in the client: an error status *)
(* or a lost answer.  A thread stops at the first call that raises.         *)
Post(p, i) ==
    /\ exited = "no"
    /\ \E took, answered \in BOOLEAN :
          /\ answered => took
          /\ messages' = IF took THEN [messages EXCEPT ![p] = @ + 1] ELSE messages
          /\ threads' = [threads EXCEPT ![p] = IF answered /\ @[i] > 1
                                               THEN [@ EXCEPT ![i] = @ - 1]
                                               ELSE RemoveAt(@, i)]
    /\ answer' = NoAnswer
    /\ UNCHANGED <<connected, turnCount, committed, lastActive, started, shut, exited>>

(* What on_session_end leaves committed: nothing new without a client or    *)
(* without a turn.  A commit that raises is swallowed, taken or not.        *)
Commit(p, outcome) ==
    LET all == [committed EXCEPT ![p] = messages[p]]
    IN IF connected[p] # "up" \/ turnCount[p] = 0
       THEN outcome = "nothing" /\ UNCHANGED committed
       ELSE \/ outcome = "committed" /\ committed' = all
            \/ outcome = "failed" /\ committed' \in {committed, all}

Outcomes == {"nothing", "committed", "failed"}

SessionEnd(p) ==
    /\ Ready(p)
    /\ \E outcome \in Outcomes : Commit(p, outcome)
    /\ answer' = NoAnswer
    /\ UNCHANGED <<connected, turnCount, threads, messages, lastActive, started,
                   shut, exited>>

(* shutdown clears the reference without comparing it.                      *)
ForgetAlways(p) == NoAgent

Forget(p) == IF lastActive = p THEN NoAgent ELSE lastActive

(* shutdown waits up to five seconds for the threads and takes the provider *)
(* out of atexit's reach, if it is the one atexit knows.                    *)
Shutdown(p) ==
    /\ exited = "no" /\ connected[p] # "new"
    /\ lastActive' = Forget(p)
    /\ shut' = shut \cup {p}
    /\ answer' = NoAnswer
    /\ UNCHANGED <<connected, turnCount, threads, messages, committed, started, exited>>

(* _atexit_commit_sessions, and the end of the process with its threads.    *)
AtExit ==
    /\ exited = "no"
    /\ exited' = "atexit" /\ lastActive' = NoAgent
    /\ \E outcome \in Outcomes :
          /\ IF lastActive = NoAgent THEN outcome = "nothing" /\ UNCHANGED committed
                                     ELSE Commit(lastActive, outcome)
          /\ answer' = [kind |-> "exit", committing |-> lastActive, outcome |-> outcome]
    /\ threads' = [p \in Agents |-> <<>>]
    /\ UNCHANGED <<connected, turnCount, messages, started, shut>>

Killed ==
    /\ exited = "no"
    /\ exited' = "killed"
    /\ threads' = [p \in Agents |-> <<>>]
    /\ answer' = NoAnswer
    /\ UNCHANGED <<connected, turnCount, messages, committed, lastActive, started, shut>>

(* viking_remember posts from the host thread and answers "stored".         *)
Remember(p) ==
    /\ Ready(p) /\ messages[p] < MaxMessages
    /\ \/ messages' = [messages EXCEPT ![p] = @ + 1] /\ answer' = [kind |-> "stored"]
       \/ UNCHANGED messages /\ answer' = [kind |-> "error"]
    /\ UNCHANGED <<connected, turnCount, threads, committed, lastActive, started, shut, exited>>

Levels == {"abstract", "overview", "full"}
Uris == {"file", "directory", "summary"}   \* "summary": a pseudo file of a directory

(* The endpoints as this code uses them: summaries are of directories only. *)
Serves(endpoint, uri) == (endpoint = "read") <=> (uri = "file")

(* fs/stat answers, or the probe itself fails.                              *)
Probe(uri) == {IF uri = "directory" THEN "yes" ELSE "no", "unknown"}

(* The two endpoints viking_read tries, in order: a second one only when a  *)
(* summary of the address itself failed and was not already read as a file. *)
ReadRoute(uri, level, isDirectory) ==
    IF level = "full" THEN <<"read">>
    ELSE IF uri = "summary" THEN <<level>>
    ELSE IF isDirectory = "no" THEN <<"read">>
    ELSE <<level, "read">>

(* viking_read: some endpoint of the route serves the address; a pseudo     *)
(* file is resolved to its directory for the summaries.                     *)
ToolRead(uri, level, isDirectory) ==
    LET resolved == IF uri = "summary" /\ level # "full" THEN "directory" ELSE uri
        route == ReadRoute(uri, level, isDirectory)
    IN \E i \in DOMAIN route : Serves(route[i], resolved)

(* Reading changes nothing on either side.                                  *)
Read(p, uri, level) ==
    /\ Ready(p)
    /\ \E isDirectory \in Probe(uri) :
          answer' = [kind |-> IF ToolRead(uri, level, isDirectory) THEN "content" ELSE "error"]
    /\ UNCHANGED <<connected, turnCount, threads, messages, committed, lastActive, started,
                   shut, exited>>

Next == \/ \E p \in Agents :
              \/ Initialize(p) \/ SyncTurn(p) \/ MemoryWrite(p) \/ SessionEnd(p)
              \/ Shutdown(p) \/ Remember(p)
              \/ \E uri \in Uris, level \in Levels : Read(p, uri, level)
              \/ \E i \in DOMAIN threads[p] : Post(p, i)
        \/ AtExit \/ Killed

Spec == Init /\ [][Next]_vars

-----------------------------------------------------------------------------
(* What the exit handler owes a commit: the provider initialised last, if   *)
(* it was not shut down.                                                    *)
ExitCandidate == IF started = <<>> \/ Last(started) \in shut THEN NoAgent ELSE Last(started)

(* A provider whose session a commit would take: connected, with a turn.    *)
Committable(p) == connected[p] = "up" /\ turnCount[p] # 0

(* Whatever was initialised and shut down before, a normal exit turns to    *)
(* the provider initialised last unless it was shut down, and to no other;  *)
(* if that one has a client and a turn, a commit is sent, and when it is    *)
(* answered it covers every message the server then held of the session,    *)
(* those after an earlier session end too (initialize, shutdown,            *)
(* _atexit_commit_sessions, on_session_end).                                *)
ExitCommitsLast ==
    exited = "atexit" =>
        /\ answer.committing = ExitCandidate
        /\ (answer.outcome = "nothing") <=> ~(answer.committing \in Agents
                                              /\ Committable(answer.committing))
        /\ answer.outcome = "committed" =>
              committed[answer.committing] = messages[answer.committing]

(* The comment above the exit handler: it "ensures pending sessions are     *)
(* committed".  After a normal exit whose commit did not fail, no session   *)
(* of a provider that is up and was not shut down is short of a message.    *)
PendingCommitted ==
    exited = "atexit" /\ answer.outcome # "failed" =>
        \A p \in Agents : Committable(p) /\ p \notin shut => committed[p] = messages[p]

=============================================================================
