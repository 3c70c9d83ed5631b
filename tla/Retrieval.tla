------------------------------ MODULE Retrieval ------------------------------
(***************************************************************************)
(* Reading the fact memory while a worker writes it: HybridRetriever's      *)
(* three searches, their fusion, recency, the flags of changed facts, the   *)
(* rerank, and the handoff that is built from the results.                  *)
(*                                                                         *)
(* Each search is one store call, and nothing holds the facts still between *)
(* two of them.  The rest is local: it is defined from what was found.      *)
(* Lists are shorter than top_k, so that none is cut.  Chunks, which have   *)
(* no key, type or time, are left out.                                      *)
(***************************************************************************)
EXTENDS FactMemory, FiniteSets, Functions

CONSTANTS
    Questions,  \* a namespace; the subjects, predicates and objects that share words with
                \* the question; the subjects and objects that are terms of it, whole; and
                \* whether the facts most similar to it are the newest or the oldest
    MaxOverlap, \* bound on the worker's steps between the first search and the last
    FactType,   \* the fact_type of each predicate, which extractors give with each fact
    Cost,       \* the tokens of a handoff's line, by object
    Budgets     \* what a handoff may take, its header and its changes deducted

\* The fact types of the instances, priorities of which are at least 15 apart.
Types == {"identity", "project_fact", "preference", "other", "credential"}

ASSUME FactTypeAssumption == \A key \in Keys : FactType[key.predicate] \in Types
\* A term is a word of the question: "Ada Lovelace" is none, and shares two of its words.
ASSUME QuestionsAssumption == \A question \in Questions : question.terms \subseteq question.words
ASSUME CostAssumption == Cost \in [Values \cup {Redacted} -> Nat] /\ Budgets \subseteq Nat

VARIABLES
    query,       \* the query in hand
    reading,     \* the search that comes next, "idle" or "done"
    hits,        \* what the searches found, by id, as the first of them found it
    overlap,     \* the worker's steps since the first search
    touched      \* keys of the facts they changed

reader == <<query, reading, hits, overlap, touched>>

Queries == {[asked |-> question, at |-> clock] : question \in Questions}

NoQuery == [at |-> 0]

ReaderInit ==
    /\ query = NoQuery
    /\ reading = "idle"
    /\ hits = [id \in {} |-> 0]
    /\ overlap = 0
    /\ touched = {}

------------------------------------------------------------------------------
(* The searches of the SQLite store *)

InNamespace(q) == {id \in DOMAIN facts : facts[id].key.namespace = q.asked.namespace}

Count(bool) == IF bool THEN 1 ELSE 0

\* How much of a fact shares words with the query: its subject, predicate and object.
Overlap(fact) ==
    Count(fact.key.subject \in query.asked.words)
    + Count(fact.key.predicate \in query.asked.words)
    + Count(fact.value \in query.asked.words)

\* Its subject or its object is a term of the query.
IsSeeded(fact) == {fact.key.subject, fact.value} \cap query.asked.terms # {}

\* The results of a search in the order it puts the facts in, which gives those before each:
\* their ranks.
Ranked(ids, before) == [id \in ids |-> Cardinality(ids \cap before[id]) + 1]

\* The facts most similar to the query are the newest or the oldest.
Closer(q) ==
    [i \in DOMAIN facts |-> {j \in DOMAIN facts : IF q.asked.newest THEN j > i ELSE j < i}]

\* By id.
Earlier == [i \in DOMAIN facts |-> {j \in DOMAIN facts : j < i}]

\* Every embedded fact, closed ones included.
VectorSearch(q) ==
    Ranked({id \in InNamespace(q) : facts[id].embedded}, Closer(q))

\* Every fact that shares a word with the query, closed ones included.
KeywordSearch ==
    Ranked({id \in InNamespace(query) : Overlap(facts[id]) > 0},
           [i \in DOMAIN facts |-> {j \in DOMAIN facts :
               \/ Overlap(facts[j]) > Overlap(facts[i])
               \/ /\ Overlap(facts[j]) = Overlap(facts[i])
                  /\ j \in Closer(query)[i]}])

\* Mutant of GraphNeighbors: without "valid_to IS NULL".
GraphNeighborsEver ==
    Ranked({id \in InNamespace(query) : IsSeeded(facts[id])}, Earlier)

\* Every current fact whose subject or object, whole, is a term of the query.
GraphNeighbors ==
    Ranked({id \in InNamespace(query) : IsSeeded(facts[id]) /\ facts[id].to = Open}, Earlier)

\* What the vector and keyword searches say of a fact, and what the graph's does.
Payload(id) ==
    [key |-> facts[id].key, value |-> facts[id].value, to |-> facts[id].to,
     at |-> facts[id].from, type |-> FactType[facts[id].key.predicate]]

GraphPayload(id) == [Payload(id) EXCEPT !.to = Open, !.at = 0, !.type = "other"]

Payloads == [id \in DOMAIN facts |-> Payload(id)]
GraphPayloads == [id \in DOMAIN facts |-> GraphPayload(id)]

------------------------------------------------------------------------------
(* Fusion, recency, changes, order *)

\* weight / (_RRF_K + rank), in units of 1/5 * 1/lcm(61, 62, 63)
Contribution(weight, rank) == weight * (238266 \div (60 + rank))

\* What the searches before said of a fact, or else what this one says.
Hit(id, payloads) ==
    IF id \in DOMAIN hits THEN hits[id] ELSE [payload |-> payloads[id], score |-> 0]

\* Mutant of Fused: the payload is that of the last search that found the fact.
FusedLast(found, weight, payloads) ==
    [id \in DOMAIN hits \cup DOMAIN found |->
        IF id \notin DOMAIN found THEN hits[id]
        ELSE [payload |-> payloads[id],
              score |-> Hit(id, payloads).score + Contribution(weight, found[id])]]

\* reciprocal_rank_fusion of one more search.
Fused(found, weight, payloads) ==
    [id \in DOMAIN hits \cup DOMAIN found |->
        IF id \notin DOMAIN found THEN hits[id]
        ELSE [Hit(id, payloads) EXCEPT !.score = @ + Contribution(weight, found[id])]]

\* What is left of 4 after some half-lives: in eighths of a score, rounded down.
Halved[age \in Nat] == IF age = 0 THEN 4 ELSE Halved[age - 1] \div 2

\* A fact's score halves towards half of it with every half-life; one that only the graph
\* found has no time, and keeps its score.
Score(id) ==
    LET at == hits[id].payload.at
        age == IF at = 0 \/ at > query.at THEN 0 ELSE query.at - at
    IN hits[id].score * (4 + Halved[age])

\* Mutant of Changed: two windows have to be closed.
ChangedTwice(key) ==
    LET group == {hits[id].payload : id \in {i \in DOMAIN hits : hits[i].payload.key = key}}
    IN Cardinality({p \in group : p.to # Open}) > 1

\* detect_conflicts: several objects, of which one at least is superseded.
Changed(key) ==
    LET group == {hits[id].payload : id \in {i \in DOMAIN hits : hits[i].payload.key = key}}
    IN Cardinality({p.value : p \in group}) > 1 /\ \E p \in group : p.to # Open

\* By fused score; a lexical reranker's score outweighs it.
Above(i, j, rerank) ==
    LET words(id) == IF rerank THEN Overlap(hits[id].payload) ELSE 0
    IN \/ words(i) > words(j)
       \/ words(i) = words(j) /\ Score(i) > Score(j)
       \/ words(i) = words(j) /\ Score(i) = Score(j) /\ i < j

Base(type) ==
    CASE type = "identity" -> 100 [] type = "project_fact" -> 80
      [] type = "preference" -> 70 [] type = "other" -> 30 [] type = "credential" -> 10

\* _priority: types so far apart outweigh confidence and score.
Prior(i, j, rerank) ==
    LET base(id) == Base(hits[id].payload.type)
    IN base(i) > base(j) \/ (base(i) = base(j) /\ Above(i, j, rerank))

------------------------------------------------------------------------------
(* build_handoff *)

Lines(ids) == SumFunctionOnSet([id \in DOMAIN hits |-> Cost[hits[id].payload.value]], ids)

IsCredential(id) == hits[id].payload.type = "credential"

\* Mutant of Take: a line that reaches the budget does not fit.
TakeBelow(budget, included, id) ==
    IF IsCredential(id) \/ (included # {} /\ Lines(included \cup {id}) >= budget)
    THEN included ELSE included \cup {id}

\* A line is taken if it fits, or if it is the first.
Take(budget, included, id) ==
    IF IsCredential(id) \/ (included # {} /\ Lines(included \cup {id}) > budget)
    THEN included ELSE included \cup {id}

LastOf(ids, rerank) == CHOOSE id \in ids : \A j \in ids \ {id} : Prior(j, id, rerank)

\* The lines taken from some hits, in order of priority.
Handoff(budget, rerank) ==
    LET taken[ids \in SUBSET DOMAIN hits] ==
            IF ids = {} THEN {}
            ELSE LET id == LastOf(ids, rerank) IN Take(budget, taken[ids \ {id}], id)
    IN taken[DOMAIN hits]

------------------------------------------------------------------------------

\* The query is embedded, and the vectors are searched.  Bound: a retrieval begins before
\* any failure or erasure; those that come during it are kept.
Retrieve(q) ==
    /\ reading = "idle"
    /\ excused = {} /\ \A w \in Workers : pc[w] # "reembed"
    /\ query' = q
    /\ hits' = Fused(VectorSearch(q), 5, Payloads)
    /\ reading' = "keyword"
    /\ UNCHANGED <<vars, overlap, touched>>

SearchKeywords ==
    /\ reading = "keyword"
    /\ hits' = Fused(KeywordSearch, 3, Payloads)
    /\ reading' = "graph"
    /\ UNCHANGED <<vars, query, overlap, touched>>

SearchGraph ==
    /\ reading = "graph"
    /\ hits' = Fused(GraphNeighbors, 4, GraphPayloads)
    /\ reading' = "done"
    /\ UNCHANGED <<vars, query, overlap, touched>>

\* The embedder or a search raises: nothing is retrieved.
RetrieveFails ==
    /\ reading \in {"keyword", "graph"}
    /\ "embed" \in Faults
    /\ hits' = [id \in {} |-> 0]
    /\ reading' = "done"
    /\ UNCHANGED <<vars, query, overlap, touched>>

\* The results are returned.
Return ==
    /\ reading = "done"
    /\ query' = NoQuery
    /\ reading' = "idle"
    /\ hits' = [id \in {} |-> 0]
    /\ overlap' = 0
    /\ touched' = {}
    /\ UNCHANGED vars

\* The keys of the rows that a step stores, changes or erases.
TouchedKeys ==
    {facts[id].key : id \in {i \in DOMAIN facts :
        i \notin DOMAIN facts' \/ facts'[i] # facts[i]}}
    \cup {facts'[id].key : id \in {i \in DOMAIN facts' :
        i \notin DOMAIN facts \/ facts'[i] # facts[i]}}

\* A worker's step.  Those that come once the searches are over change nothing of what
\* is returned, and wait.
Write ==
    /\ reading = "idle" \/ (reading # "done" /\ overlap < MaxOverlap)
    /\ Next
    /\ overlap' = IF reading = "idle" THEN 0 ELSE overlap + 1
    /\ touched' = IF reading = "idle" THEN {} ELSE touched \cup TouchedKeys
    /\ UNCHANGED <<query, reading, hits>>

ReaderNext ==
    \/ Write
    \/ \E q \in Queries : Retrieve(q)
    \/ SearchKeywords \/ SearchGraph
    \/ RetrieveFails \/ Return

ReaderSpec == Init /\ ReaderInit /\ [][ReaderNext]_<<vars, reader>>

------------------------------------------------------------------------------

\* A subject and predicate that every extraction replaces is never answered with two
\* objects without a flag, unless its facts changed between two searches ("when a fact
\* has changed we mark it, rather than silently serving only the newest value").
ChangeSurfaced ==
    reading = "done" =>
        \A i, j \in DOMAIN hits :
            LET key == hits[i].payload.key
            IN /\ key \in Exclusive \ touched /\ hits[j].payload.key = key
               /\ hits[i].payload.value # hits[j].payload.value
               => Changed(key)

\* Of a subject that is a term of the query, a superseded object never comes before the
\* current one: the graph's weight makes up for any order of the two other lists.  A
\* rerank, a write between two searches or a subject of several words, for which the graph
\* has no vote, can break it ("keeps a stale fact from outranking a newer contradicting
\* one").
CurrentFirst ==
    reading = "done" =>
        \A i, j \in DOMAIN hits :
            LET key == hits[i].payload.key
            IN /\ key = hits[j].payload.key /\ key \notin touched
               /\ key.subject \in query.asked.terms
               /\ hits[i].payload.to = Open /\ hits[j].payload.to # Open
               => Above(i, j, FALSE)

\* The lines of a handoff fit its budget unless there is only one, and nothing that is
\* left out, credentials excepted, would fit.
HandoffFits ==
    reading = "done" => \A budget \in Budgets, rerank \in BOOLEAN :
        LET included == Handoff(budget, rerank)
        IN /\ Lines(included) <= budget \/ Cardinality(included) <= 1
           /\ \A id \in DOMAIN hits \ included :
                 IsCredential(id) \/ Lines(included \cup {id}) > budget

\* A credential is in no handoff, unless it was stored between two searches: only the
\* graph's search has found it then, and says nothing of its type.
CredentialsWithheld ==
    reading = "done" => \A budget \in Budgets, rerank \in BOOLEAN :
        \A id \in Handoff(budget, rerank) :
            LET key == hits[id].payload.key
            IN FactType[key.predicate] = "credential" => key \in touched

==============================================================================
