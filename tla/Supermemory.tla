---------------------------- MODULE Supermemory ------------------------------
(***************************************************************************)
(* The Supermemory provider (plugins/memory/supermemory/__init__.py): one  *)
(* provider object per profile, all reading supermemory.json, which        *)
(* save_config rewrites.  A container tag is "fixed", the "template" with  *)
(* {identity} in it, or what becomes of a template when it is sanitised    *)
(* unresolved, the word "identity"; a resolved template is the profile.    *)
(***************************************************************************)
EXTENDS Naturals, FiniteSets

CONSTANTS Profiles,     \* agent identities
          Contexts,     \* agent contexts: "main" and the ones that never write
          CustomTags    \* custom_containers of the configuration

VARIABLES savedTag,     \* container_tag in supermemory.json
          custom,       \* enable_custom_container_tags in supermemory.json
          holder,       \* per profile: the provider object's fields
          captures,     \* per profile: captures on their thread
          memories,     \* what the service holds
          toolAnswer    \* outcome of the last tool call

vars == <<savedTag, custom, holder, captures, memories, toolAnswer>>

Tags == {"fixed", "template"}
Absent == [state |-> "new", tag |-> "fixed", allowed |-> {}, custom |-> FALSE,
           writes |-> FALSE, capture |-> "all"]

Init ==
    /\ savedTag = "fixed" /\ custom = FALSE
    /\ holder = [f \in Profiles |-> Absent]
    /\ captures = [f \in Profiles |-> {}]
    /\ memories = {} /\ toolAnswer = "none"

Sanitised(tag) == IF tag = "template" THEN "identity" ELSE tag

(* save_config sanitises the tag, then merges it into the file.             *)
SaveConfig(tag, multi) ==
    /\ savedTag' = Sanitised(tag) /\ custom' = multi
    /\ UNCHANGED <<holder, captures, memories, toolAnswer>>

(* An operator writes the file by hand, as the module's comments tell them. *)
EditConfig(tag) ==
    /\ savedTag' = tag
    /\ UNCHANGED <<custom, holder, captures, memories, toolAnswer>>

Resolved(tag, f) == IF tag = "template" THEN f ELSE Sanitised(tag)

(* initialize: the configuration as it is now, the containers it allows,    *)
(* whether this context writes, and a client if there is a key that works.  *)
Initialize(f, context, capture) ==
    /\ holder[f].state = "new"
    /\ \E works \in BOOLEAN :
          holder' = [holder EXCEPT ![f] =
             [state |-> IF works THEN "active" ELSE "inactive",
              tag |-> Resolved(savedTag, f),
              allowed |-> {Resolved(savedTag, f)} \cup CustomTags,
              custom |-> custom, writes |-> context = "main", capture |-> capture]]
    /\ UNCHANGED <<savedTag, custom, captures, memories, toolAnswer>>

Active(f) == holder[f].state = "active"
Memory(f, tag) == [container |-> tag, by |-> f]

(* sync_turn and on_memory_write capture on a thread; the wait for the one  *)
(* before it may time out.  Short or trivial turns are kept only by the     *)
(* capture mode "everything".                                               *)
SyncTurn(f, trivial) ==
    /\ Active(f) /\ holder[f].writes
    /\ trivial => holder[f].capture = "everything"
    /\ captures' = [captures EXCEPT ![f] = @ \cup {"turn"}]
    /\ UNCHANGED <<savedTag, custom, holder, memories, toolAnswer>>

MemoryWrite(f) ==
    /\ Active(f) /\ holder[f].writes
    /\ captures' = [captures EXCEPT ![f] = @ \cup {"mirror"}]
    /\ UNCHANGED <<savedTag, custom, holder, memories, toolAnswer>>

(* The thread adds the memory to the client's own container, or fails.      *)
Captured(f, kind) ==
    /\ kind \in captures[f]
    /\ memories' \in {memories, memories \cup {Memory(f, holder[f].tag)}}
    /\ captures' = [captures EXCEPT ![f] = @ \ {kind}]
    /\ UNCHANGED <<savedTag, custom, holder, toolAnswer>>

(* on_session_end sends the whole conversation from the host thread.        *)
SessionEnd(f) ==
    /\ Active(f) /\ holder[f].writes
    /\ memories' \in {memories, memories \cup {Memory(f, holder[f].tag)}}
    /\ UNCHANGED <<savedTag, custom, holder, captures, toolAnswer>>

(* _resolve_tool_container_tag: a custom tag counts only in multi-container *)
(* mode, and only when it is allowed.                                       *)
ToolTag(f, tag) ==
    IF ~holder[f].custom \/ tag = "" THEN holder[f].tag
    ELSE IF Sanitised(tag) \in holder[f].allowed THEN Sanitised(tag) ELSE "refused"

ToolStore(f, tag) ==
    /\ Active(f)
    /\ \/ /\ ToolTag(f, tag) # "refused"
          /\ memories' = memories \cup {Memory(f, ToolTag(f, tag))}
          /\ toolAnswer' = "saved"
       \/ UNCHANGED memories /\ toolAnswer' = "error"
    /\ UNCHANGED <<savedTag, custom, holder, captures>>

(* supermemory_forget, by identifier or by the best match of a search.      *)
ToolForget(f, tag) ==
    /\ Active(f)
    /\ \/ /\ ToolTag(f, tag) # "refused"
          /\ \E m \in {x \in memories : x.container = ToolTag(f, tag)} :
                memories' = memories \ {m}
          /\ toolAnswer' = "forgotten"
       \/ UNCHANGED memories /\ toolAnswer' = "error"
    /\ UNCHANGED <<savedTag, custom, holder, captures>>

(* supermemory_search and supermemory_profile read one container.           *)
ToolSearch(f, tag) ==
    /\ Active(f)
    /\ \/ /\ ToolTag(f, tag) # "refused"
          /\ toolAnswer' = ToolTag(f, tag)
       \/ toolAnswer' = "error"
    /\ UNCHANGED <<savedTag, custom, holder, captures, memories>>

(* shutdown waits for the threads and forgets them; the process then ends.  *)
(* It takes a turn's daemon thread with it, and waits for a mirror thread.  *)
Exit(f) ==
    /\ holder[f].state # "new" /\ "mirror" \notin captures[f]
    /\ captures' = [captures EXCEPT ![f] = {}]
    /\ holder' = [holder EXCEPT ![f] = Absent]
    /\ UNCHANGED <<savedTag, custom, memories, toolAnswer>>

ToolTags == {"", "other"} \cup CustomTags

Next == \/ \E t \in Tags : EditConfig(t) \/ \E multi \in BOOLEAN : SaveConfig(t, multi)
        \/ \E f \in Profiles :
              \/ \E c \in Contexts, capture \in {"all", "everything"} : Initialize(f, c, capture)
              \/ \E trivial \in BOOLEAN : SyncTurn(f, trivial)
              \/ MemoryWrite(f) \/ SessionEnd(f) \/ Exit(f)
              \/ \E kind \in {"turn", "mirror"} : Captured(f, kind)
              \/ \E t \in ToolTags : ToolStore(f, t) \/ ToolForget(f, t) \/ ToolSearch(f, t)

Spec == Init /\ [][Next]_vars

=============================================================================
