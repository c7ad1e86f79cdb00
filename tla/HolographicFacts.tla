-------------------------- MODULE HolographicFacts ---------------------------
(***************************************************************************)
(* The holographic fact store (plugins/memory/holographic/store.py and     *)
(* retrieval.py).  A fact, the links to its entities, its vector and the   *)
(* bank of its category are written by commits of their own under one      *)
(* lock: a process that dies, or a bank that cannot be bundled, leaves the *)
(* later ones undone.  Readers take no lock.                               *)
(*                                                                         *)
(* A vector is the content and entities it encodes and its dimension; a    *)
(* bank is the set of the vectors bundled into it.                         *)
(***************************************************************************)
EXTENDS Naturals, SequencesExt

CONSTANTS Contents,     \* texts of facts
          Entities,     \* Entities[c]: what _extract_entities finds in c
          Categories, Dimensions,
          MaxFact       \* bound: facts ever inserted

VARIABLES facts,        \* the rows of facts, by id
          lastId,       \* AUTOINCREMENT
          links,        \* fact_entities
          banks,        \* memory_banks
          dim,          \* hrr_dim of the open store, 0 when it is closed
          work          \* the commits the running operation has still to make

vars == <<facts, lastId, links, banks, dim, work>>

NoVector == [of |-> "none", entities |-> {}, dim |-> 0]
Ids == DOMAIN facts

Init ==
    /\ facts = <<>> /\ lastId = 0 /\ links = {}
    /\ banks = [k \in Categories |-> {}]
    /\ dim = 0 /\ work = <<>>

Idle == dim # 0 /\ work = <<>>

(* MemoryStore.__init__ with the dimension of the configuration.            *)
Open(d) ==
    /\ dim = 0 /\ dim' = d
    /\ UNCHANGED <<facts, lastId, links, banks, work>>

(* The commits of an operation: [do, id, category], made in order.          *)
Do(step, i, k) == [do |-> step, id |-> i, category |-> k]
Encode(i, k) == <<Do("link", i, k), Do("vector", i, k), Do("bank", i, k)>>

(* add_fact: the row of a new text, then links, vector and bank; a text     *)
(* that is already there is left exactly as it is.                          *)
AddFact(c, k) ==
    /\ Idle /\ lastId < MaxFact
    /\ \A i \in Ids : facts[i].content # c
    /\ lastId' = lastId + 1
    /\ facts' = [i \in Ids \cup {lastId + 1} |->
          IF i \in Ids THEN facts[i]
          ELSE [content |-> c, category |-> k, trusted |-> TRUE, vector |-> NoVector]]
    /\ work' = Encode(lastId + 1, k)
    /\ UNCHANGED <<links, banks, dim>>

(* The DELETE of update_fact, then _resolve_entity and _link_fact_entity,   *)
(* one commit per entity.                                                   *)
LinkEntity ==
    LET w == Head(work) wanted == {<<w.id, e>> : e \in Entities[facts[w.id].content]} IN
    /\ work # <<>> /\ w.do \in {"unlink", "link"}
    /\ CASE w.do = "unlink" -> links' = {l \in links : l[1] # w.id} /\ work' = Tail(work)
         [] wanted \subseteq links -> UNCHANGED links /\ work' = Tail(work)
         [] OTHER -> UNCHANGED work /\ \E l \in wanted \ links : links' = links \cup {l}
    /\ UNCHANGED <<facts, lastId, banks, dim>>

(* encode_fact of the text and the entities linked to it at the moment.     *)
VectorOf(i) ==
    [of |-> facts[i].content, entities |-> {l[2] : l \in {m \in links : m[1] = i}}, dim |-> dim]

(* _compute_hrr_vector.                                                     *)
ComputeVector ==
    LET w == Head(work) IN
    /\ work # <<>> /\ w.do = "vector"
    /\ facts' = [facts EXCEPT ![w.id].vector = VectorOf(w.id)]
    /\ work' = Tail(work)
    /\ UNCHANGED <<lastId, links, banks, dim>>

Vectors(k) == {facts[i].vector : i \in {j \in Ids : facts[j].category = k}} \ {NoVector}

(* numpy adds phases of equal length only; anything else raises.            *)
SameLength(vectors, d) == \A v \in vectors : v.dim = d

(* _rebuild_bank: everything that has a vector, or no bank; vectors of      *)
(* different dimensions cannot be bundled, which ends the operation.        *)
RebuildBank ==
    LET k == Head(work).category IN
    /\ work # <<>> /\ Head(work).do = "bank"
    /\ IF \A v \in Vectors(k) : SameLength(Vectors(k), v.dim)
       THEN banks' = [banks EXCEPT ![k] = Vectors(k)] /\ work' = Tail(work)
       ELSE UNCHANGED banks /\ work' = <<>>
    /\ UNCHANGED <<facts, lastId, links, dim>>

(* update_fact: the row; with a text (c # "none") also links and vector;    *)
(* then the bank of the category the fact now has.  A text another fact has *)
(* breaks the constraint and changes nothing.                               *)
UpdateFact(i, c, k) ==
    /\ Idle
    /\ \A j \in Ids \ {i} : facts[j].content # c
    /\ facts' = [facts EXCEPT ![i].content = IF c = "none" THEN @ ELSE c, ![i].category = k]
    /\ work' = IF c = "none" THEN <<Do("bank", i, k)>> ELSE <<Do("unlink", i, k)>> \o Encode(i, k)
    /\ UNCHANGED <<lastId, links, banks, dim>>

(* remove_fact: links and row in one transaction, then the bank.            *)
RemoveFact(i) ==
    /\ Idle
    /\ links' = {l \in links : l[1] # i}
    /\ facts' = [j \in Ids \ {i} |-> facts[j]]
    /\ work' = <<Do("bank", i, facts[i].category)>>
    /\ UNCHANGED <<lastId, banks, dim>>

(* record_feedback moves the trust, which may or may not cross min_trust.   *)
RecordFeedback(i, helpful) ==
    /\ Idle
    /\ \E t \in {facts[i].trusted, helpful} : facts' = [facts EXCEPT ![i].trusted = t]
    /\ UNCHANGED <<lastId, links, banks, dim, work>>

(* The vectors of every fact without the banks.                             *)
RebuildStepsOnlyVectors(ids, kinds) ==
    [n \in 1 .. Len(ids) |-> Do("vector", ids[n], "all")] \o <<Do("rebuilt", 0, "all")>>

RebuildSteps(ids, kinds) ==
    [n \in 1 .. Len(ids) |-> Do("vector", ids[n], "all")]
      \o [n \in 1 .. Len(kinds) |-> Do("bank", 0, kinds[n])] \o <<Do("rebuilt", 0, "all")>>

(* rebuild_all_vectors: every vector again, perhaps in a new dimension,     *)
(* then the bank of every category that has a fact.                         *)
RebuildAll(d) ==
    /\ Idle /\ dim' = d
    /\ work' = RebuildSteps(SetToSeq(Ids), SetToSeq({facts[i].category : i \in Ids}))
    /\ UNCHANGED <<facts, lastId, links, banks>>

Rebuilt ==
    /\ work # <<>> /\ Head(work).do = "rebuilt" /\ work' = <<>>
    /\ UNCHANGED <<facts, lastId, links, banks, dim>>

(* search and _fts_candidates: the words decide, a missing vector counts as *)
(* neutral, one of another length raises (nothing is returned).             *)
Search(k) ==
    LET hits == {i \in Ids : facts[i].category = k /\ facts[i].trusted} IN
    IF SameLength({facts[i].vector : i \in hits} \ {NoVector}, dim) THEN hits ELSE {}

Encoded(k) == {i \in Ids : facts[i].category = k /\ facts[i].vector # NoVector}

(* probe: against the bank of the category when there is one, else against  *)
(* every encoded fact, else the keyword search.                             *)
Probe(k) ==
    IF Encoded(k) = {} /\ banks[k] = {} THEN Search(k)
    ELSE IF SameLength(Vectors(k) \cup banks[k], dim) THEN Encoded(k) ELSE {}

(* related and reason use no bank.                                          *)
Related(k) ==
    IF Encoded(k) = {} THEN Search(k)
    ELSE IF SameLength(Vectors(k), dim) THEN Encoded(k) ELSE {}

(* The other encoded facts of the category that share an entity with i.     *)
Sharing(i, k) ==
    {j \in Encoded(k) \ {i} : \E e \in UNION {Entities[c] : c \in Contents} :
                                 {<<i, e>>, <<j, e>>} \subseteq links}

(* contradict compares the facts whose entities overlap and scores each     *)
(* pair; vectors of different lengths raise.                                *)
Contradict(k) ==
    LET compared == {i \in Encoded(k) : Sharing(i, k) # {}} IN
    IF \A i \in compared :
           SameLength({facts[j].vector : j \in Sharing(i, k)}, facts[i].vector.dim)
    THEN compared ELSE {}

(* The process ends between two commits.                                    *)
Crash ==
    /\ dim # 0 /\ dim' = 0 /\ work' = <<>>
    /\ UNCHANGED <<facts, lastId, links, banks>>

Next == \/ \E d \in Dimensions : Open(d) \/ RebuildAll(d)
        \/ \E c \in Contents, k \in Categories : AddFact(c, k)
        \/ \E i \in Ids, c \in Contents \cup {"none"}, k \in Categories : UpdateFact(i, c, k)
        \/ \E i \in Ids : RemoveFact(i) \/ \E h \in BOOLEAN : RecordFeedback(i, h)
        \/ LinkEntity \/ ComputeVector \/ RebuildBank \/ Rebuilt
        \/ Crash

Spec == Init /\ [][Next]_vars

-----------------------------------------------------------------------------
(* Whatever a crash, a change of dimension or a move between categories     *)
(* left behind, a completed rebuild leaves every fact with the vector of    *)
(* its own text, its category with exactly the bank of its facts, and every *)
(* query able to find it (rebuild_all_vectors, _rebuild_bank, probe,        *)
(* related, contradict).                                                    *)
RebuildRepairs ==
    [][Rebuilt => \A i \in Ids : LET k == facts[i].category IN
                     /\ facts[i].vector = VectorOf(i)
                     /\ banks[k] = Vectors(k)
                     /\ i \in Probe(k) \cap Related(k)
                     /\ Sharing(i, k) # {} => i \in Contradict(k)]_vars
=============================================================================
