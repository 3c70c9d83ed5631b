----------------------------- MODULE GraphMemory ------------------------------
(***************************************************************************)
(* Facts in a graph: GraphStore over Neo4j or FalkorDB, KuzuGraphStore, and *)
(* ProStore, which keeps facts in a graph and chunks in pgvector.           *)
(*                                                                         *)
(* A fact is a node with an edge from the entity that is its subject and   *)
(* one to the entity that is its object.  Neo4j and FalkorDB store all that *)
(* in one query, Kuzu in five that are committed one by one under one lock. *)
(* A step is a call of the store, or a query where a call has several that  *)
(* others can come between.  Validity windows are FactMemory's matter: the  *)
(* facts here are current.                                                  *)
(***************************************************************************)
EXTENDS Naturals, Sequences, FiniteSets

CONSTANTS
    Workers,
    Namespaces,
    Names,        \* of entities
    Facts,        \* what can be stored: records with namespace, subject, object
    Setups,       \* records with backend and pro: the configurations
    Faults,       \* failures that happen: "store", "embed" and "crash"
    MaxNodes      \* bound on the nodes of facts and chunks ever created

None == "none"    \* no namespace

Fact == [namespace: Namespaces, subject: Names, object: Names]
Entity == [namespace: Namespaces, name: Names]
Setup == [backend: {"neo4j", "falkordb", "kuzu"}, pro: BOOLEAN]

ASSUME FactsAssumption == Facts \subseteq Fact
ASSUME SetupsAssumption ==
    Setups \subseteq {s \in Setup : s.backend = "kuzu" => ~s.pro}
ASSUME MaxNodesAssumption == MaxNodes \in Nat

VARIABLES
    setup,
    nodes,      \* fact nodes: their ids and facts, by node
    chunks,     \* chunk nodes, or rows of pgvector: their ids and namespaces
    entities,
    asserts,    \* edges from an entity to a fact node
    about,      \* edges from a fact node to an entity
    nextNode,
    pc,         \* "idle", "forget", or "reembed" and then "rechunk"
    left,       \* what a forget has still to delete: a sequence of sets of labels
    forgets,    \* the namespace it forgets
    doomed,     \* ids of what was there when it began, until the worker's next call,
                \* but for what a reembed has brought back since
    listing,    \* fact nodes that a reembed has listed and not rewritten
    relisting,  \* chunk nodes likewise
    torn        \* fact nodes stored in part, or while their entities were deleted

graph == <<nodes, entities, asserts, about, nextNode, torn>>
worker == <<pc, left, forgets, doomed, listing, relisting>>
vars == <<setup, graph, chunks, worker>>

Init ==
    /\ setup \in Setups
    /\ nodes = [k \in {} |-> 0]
    /\ chunks = [k \in {} |-> 0]
    /\ entities = {} /\ asserts = {} /\ about = {}
    /\ nextNode = 1
    /\ pc = [w \in Workers |-> "idle"]
    /\ left = [w \in Workers |-> <<>>]
    /\ forgets = [w \in Workers |-> None]
    /\ doomed = [w \in Workers |-> {}]
    /\ listing = [w \in Workers |-> [k \in {} |-> 0]]
    /\ relisting = [w \in Workers |-> [k \in {} |-> 0]]
    /\ torn = {}

------------------------------------------------------------------------------
(* Storing facts and chunks *)

NodesOf(id) == {k \in DOMAIN nodes : nodes[k].id = id}
CopiesOf(id) == {k \in DOMAIN chunks : chunks[k].id = id}

\* Mutant of EntityOf: entities are merged by name alone.
EntityByName(namespace, name) ==
    LET same == {e \in entities : e.name = name}
    IN IF same = {} THEN [namespace |-> namespace, name |-> name]
       ELSE CHOOSE e \in same : TRUE

\* The entity that MERGE finds or creates.
EntityOf(namespace, name) == [namespace |-> namespace, name |-> name]

\* Mutant of NodeFor: a node is created every time.
NodeCreated(id) == nextNode

\* The node that an upsert writes: Kuzu merges by id, the others create.
NodeFor(id) ==
    IF setup.backend = "kuzu" /\ NodesOf(id) # {}
    THEN CHOOSE k \in NodesOf(id) : TRUE
    ELSE nextNode

\* The first n statements of upsert_fact, five in all: the node, the two entities,
\* the two edges.
Upsert(id, fact, n) ==
    LET k == NodeFor(id)
        subject == EntityOf(fact.namespace, fact.subject)
        object == EntityOf(fact.namespace, fact.object)
    IN /\ k <= MaxNodes
       /\ nodes' = [i \in DOMAIN nodes \cup {k} |->
                       IF i = k THEN [id |-> id, fact |-> fact] ELSE nodes[i]]
       /\ entities' = entities \cup (IF n >= 2 THEN {subject} ELSE {})
                               \cup (IF n >= 3 THEN {object} ELSE {})
       /\ asserts' = asserts \cup (IF n >= 4 THEN {<<subject, k>>} ELSE {})
       /\ about' = about \cup (IF n >= 5 THEN {<<k, object>>} ELSE {})
       /\ nextNode' = IF k = nextNode THEN nextNode + 1 ELSE nextNode
       /\ torn' = IF n = 5 THEN torn \ {k}
                  ELSE torn \cup ({k} \ DOMAIN nodes)

\* An ingestion reaches the store.  Equal facts may be there: the engine looks for
\* them in an earlier call, and two workers can both find none.
New(w) ==
    /\ pc[w] = "idle"
    /\ doomed' = [doomed EXCEPT ![w] = {}]
    /\ UNCHANGED <<setup, chunks, pc, left, forgets, listing, relisting>>

StoreFact(w, fact) == New(w) /\ Upsert(nextNode, fact, 5)

\* A statement of Kuzu's raises: those before it stay.
StoreFactInPart(w, fact) ==
    /\ "store" \in Faults
    /\ setup.backend = "kuzu"
    /\ New(w)
    /\ \E n \in 1..4 : Upsert(nextNode, fact, n)

\* The row that a chunk is written to: Kuzu and pgvector go by its id, a graph
\* database creates a node.
CopyFor(id) ==
    IF (setup.backend = "kuzu" \/ setup.pro) /\ CopiesOf(id) # {}
    THEN CHOOSE k \in CopiesOf(id) : TRUE
    ELSE nextNode

UpsertChunk(id, namespace) ==
    LET k == CopyFor(id)
    IN /\ k <= MaxNodes
       /\ chunks' = [i \in DOMAIN chunks \cup {k} |->
                        IF i = k THEN [id |-> id, namespace |-> namespace] ELSE chunks[i]]
       /\ nextNode' = IF k = nextNode THEN nextNode + 1 ELSE nextNode
       /\ UNCHANGED <<nodes, entities, asserts, about, torn>>

StoreChunk(w, namespace) ==
    /\ pc[w] = "idle"
    /\ UpsertChunk(nextNode, namespace)
    /\ doomed' = [doomed EXCEPT ![w] = {}]
    /\ UNCHANGED <<setup, pc, left, forgets, listing, relisting>>

------------------------------------------------------------------------------
(* Forgetting *)

\* Mutant of Detach: the edges to objects stay.
DetachInPart(ks) ==
    /\ nodes' = [k \in DOMAIN nodes \ ks |-> nodes[k]]
    /\ asserts' = {edge \in asserts : edge[2] \notin ks}
    /\ torn' = torn \ ks
    /\ UNCHANGED about

\* DETACH DELETE of fact nodes: their edges go, entities stay.
Detach(ks) ==
    /\ nodes' = [k \in DOMAIN nodes \ ks |-> nodes[k]]
    /\ asserts' = {edge \in asserts : edge[2] \notin ks}
    /\ about' = {edge \in about : edge[1] \notin ks}
    /\ torn' = torn \ ks

FactIds(ks) == {nodes[k].id : k \in ks}
ChunkIds(ks) == {chunks[k].id : k \in ks}

ForgetFact(w, id) ==
    /\ pc[w] = "idle"
    /\ Detach(NodesOf(id))
    /\ doomed' = [doomed EXCEPT ![w] = {id}]
    /\ UNCHANGED <<setup, chunks, entities, nextNode, pc, left, forgets, listing, relisting>>

\* forget_matching by subject.
ForgetSubject(w, namespace, name) ==
    LET ks == {k \in DOMAIN nodes : /\ nodes[k].fact.namespace = namespace
                                    /\ nodes[k].fact.subject = name}
    IN /\ pc[w] = "idle"
       /\ Detach(ks)
       /\ doomed' = [doomed EXCEPT ![w] = FactIds(ks)]
       /\ UNCHANGED <<setup, chunks, entities, nextNode, pc, left, forgets, listing,
                      relisting>>

\* The queries of delete_namespace and the labels that each deletes.
Deletions ==
    IF setup.backend = "kuzu" THEN <<{"Fact"}, {"Chunk"}, {"Entity"}>>
    ELSE IF setup.pro THEN <<{"Fact", "Entity"}, {"Chunk"}>>
    ELSE <<{"Fact", "Entity", "Chunk"}>>

FactsOf(namespace) == {k \in DOMAIN nodes : nodes[k].fact.namespace = namespace}
ChunksOf(namespace) == {k \in DOMAIN chunks : chunks[k].namespace = namespace}

ForgetNamespace(w, namespace) ==
    /\ pc[w] = "idle"
    /\ pc' = [pc EXCEPT ![w] = "forget"]
    /\ forgets' = [forgets EXCEPT ![w] = namespace]
    /\ left' = [left EXCEPT ![w] = Deletions]
    /\ doomed' = [doomed EXCEPT
          ![w] = FactIds(FactsOf(namespace)) \cup ChunkIds(ChunksOf(namespace))]
    /\ UNCHANGED <<setup, graph, chunks, listing, relisting>>

\* One query: the nodes of the namespace that bear one of the labels.
Delete(namespace, labels) ==
    LET ks == IF "Fact" \in labels THEN FactsOf(namespace) ELSE {}
        cs == IF "Chunk" \in labels THEN ChunksOf(namespace) ELSE {}
        es == IF "Entity" \in labels THEN {e \in entities : e.namespace = namespace} ELSE {}
    IN /\ nodes' = [k \in DOMAIN nodes \ ks |-> nodes[k]]
       /\ chunks' = [k \in DOMAIN chunks \ cs |-> chunks[k]]
       /\ entities' = entities \ es
       /\ asserts' = {edge \in asserts : edge[1] \notin es /\ edge[2] \notin ks}
       /\ about' = {edge \in about : edge[1] \notin ks /\ edge[2] \notin es}
       /\ torn' = (torn \cup (IF es = {} THEN {} ELSE FactsOf(namespace))) \ ks

\* Mutant of DeleteNext: a query that finds nothing ends the call.
DeleteUntilNone(w) ==
    /\ pc[w] = "forget"
    /\ Delete(forgets[w], Head(left[w]))
    /\ left' = [left EXCEPT ![w] = IF nodes' = nodes /\ chunks' = chunks THEN <<>>
                                   ELSE Tail(@)]
    /\ pc' = [pc EXCEPT ![w] = IF left'[w] = <<>> THEN "idle" ELSE @]
    /\ forgets' = [forgets EXCEPT ![w] = IF pc'[w] = "idle" THEN None ELSE @]
    /\ UNCHANGED <<setup, nextNode, doomed, listing, relisting>>

DeleteNext(w) ==
    /\ pc[w] = "forget"
    /\ Delete(forgets[w], Head(left[w]))
    /\ left' = [left EXCEPT ![w] = Tail(@)]
    /\ pc' = [pc EXCEPT ![w] = IF Len(left[w]) = 1 THEN "idle" ELSE @]
    /\ forgets' = [forgets EXCEPT ![w] = IF pc'[w] = "idle" THEN None ELSE @]
    /\ UNCHANGED <<setup, nextNode, doomed, listing, relisting>>

------------------------------------------------------------------------------
(* Re-embedding *)

ListFacts(w) ==
    /\ pc[w] = "idle"
    /\ pc' = [pc EXCEPT ![w] = "reembed"]
    /\ listing' = [listing EXCEPT ![w] = nodes]
    /\ doomed' = [doomed EXCEPT ![w] = {}]
    /\ UNCHANGED <<setup, graph, chunks, left, forgets, relisting>>

\* Neo4j's constraint keeps a second node of one id from being created.
Refuses(id) == setup.backend = "neo4j" /\ NodesOf(id) # {}

\* What is written from a listing although it is not there any more has been
\* forgotten since: it is back, and no forget has to answer for it.
Spare(id, gone) ==
    doomed' = [w \in Workers |-> IF gone THEN doomed[w] \ {id} ELSE doomed[w]]

RewriteFact(w, k) ==
    /\ pc[w] = "reembed"
    /\ k \in DOMAIN listing[w]
    /\ ~Refuses(listing[w][k].id)
    /\ Upsert(listing[w][k].id, listing[w][k].fact, 5)
    /\ Spare(listing[w][k].id, NodesOf(listing[w][k].id) = {})
    /\ listing' = [listing EXCEPT ![w] = [i \in DOMAIN @ \ {k} |-> @[i]]]
    /\ UNCHANGED <<setup, chunks, pc, left, forgets, relisting>>

\* A statement of Kuzu's raises out of reembed.
RewriteFactInPart(w, k) ==
    /\ "store" \in Faults
    /\ setup.backend = "kuzu"
    /\ pc[w] = "reembed"
    /\ k \in DOMAIN listing[w]
    /\ \E n \in 1..4 : Upsert(listing[w][k].id, listing[w][k].fact, n)
    /\ Spare(listing[w][k].id, NodesOf(listing[w][k].id) = {})
    /\ pc' = [pc EXCEPT ![w] = "idle"]
    /\ listing' = [listing EXCEPT ![w] = [i \in {} |-> 0]]
    /\ UNCHANGED <<setup, chunks, left, forgets, relisting>>

\* The facts are rewritten, and the chunks are listed.
ListChunks(w) ==
    /\ pc[w] = "reembed"
    /\ DOMAIN listing[w] = {}
    /\ pc' = [pc EXCEPT ![w] = "rechunk"]
    /\ relisting' = [relisting EXCEPT ![w] = chunks]
    /\ UNCHANGED <<setup, graph, chunks, left, forgets, doomed, listing>>

RewriteChunk(w, k) ==
    /\ pc[w] = "rechunk"
    /\ k \in DOMAIN relisting[w]
    /\ UpsertChunk(relisting[w][k].id, relisting[w][k].namespace)
    /\ Spare(relisting[w][k].id, CopiesOf(relisting[w][k].id) = {})
    /\ relisting' = [relisting EXCEPT ![w] = [i \in DOMAIN @ \ {k} |-> @[i]]]
    /\ UNCHANGED <<setup, pc, left, forgets, listing>>

EndReembed(w) ==
    /\ pc[w] = "rechunk"
    /\ DOMAIN relisting[w] = {}
    /\ pc' = [pc EXCEPT ![w] = "idle"]
    /\ UNCHANGED <<setup, graph, chunks, left, forgets, doomed, listing, relisting>>

------------------------------------------------------------------------------
(* Failures *)

\* The call of these workers ends where it is.
Abandon(ws) ==
    /\ pc' = [w \in Workers |-> IF w \in ws THEN "idle" ELSE pc[w]]
    /\ left' = [w \in Workers |-> IF w \in ws THEN <<>> ELSE left[w]]
    /\ doomed' = [w \in Workers |-> IF w \in ws THEN {} ELSE doomed[w]]
    /\ listing' = [w \in Workers |-> IF w \in ws THEN [k \in {} |-> 0] ELSE listing[w]]
    /\ relisting' = [w \in Workers |->
                       IF w \in ws THEN [k \in {} |-> 0] ELSE relisting[w]]
    /\ forgets' = [w \in Workers |-> IF w \in ws THEN None ELSE forgets[w]]
    /\ UNCHANGED <<setup, graph, chunks>>

\* A database fails between two queries of delete_namespace or of reembed, or the
\* embedder or Neo4j's constraint raises out of reembed.
CallRaises(w) ==
    /\ \/ "store" \in Faults /\ pc[w] # "idle"
       \/ "embed" \in Faults /\ DOMAIN listing[w] \cup DOMAIN relisting[w] # {}
       \/ \E k \in DOMAIN listing[w] : Refuses(listing[w][k].id)
    /\ Abandon({w})

Crash ==
    /\ "crash" \in Faults
    /\ \E w \in Workers : pc[w] # "idle"
    /\ Abandon(Workers)

Next ==
    \/ Crash
    \/ \E w \in Workers :
          \/ \E fact \in Facts : StoreFact(w, fact) \/ StoreFactInPart(w, fact)
          \/ \E namespace \in Namespaces :
                \/ StoreChunk(w, namespace)
                \/ \E name \in Names : ForgetSubject(w, namespace, name)
                \/ ForgetNamespace(w, namespace)
          \/ \E k \in DOMAIN nodes : ForgetFact(w, nodes[k].id)
          \/ DeleteNext(w)
          \/ ListFacts(w) \/ ListChunks(w) \/ EndReembed(w)
          \/ \E k \in DOMAIN listing[w] : RewriteFact(w, k) \/ RewriteFactInPart(w, k)
          \/ \E k \in DOMAIN relisting[w] : RewriteChunk(w, k)
          \/ CallRaises(w)

Spec == Init /\ [][Next]_vars

------------------------------------------------------------------------------

\* The state is well formed, and every edge has both its ends.
TypeOK ==
    /\ setup \in Setups
    /\ nextNode \in 1..(MaxNodes + 1)
    /\ DOMAIN nodes \cup DOMAIN chunks \subseteq 1..(nextNode - 1)
    /\ nodes \in [DOMAIN nodes -> [id: Nat, fact: Facts]]
    /\ chunks \in [DOMAIN chunks -> [id: Nat, namespace: Namespaces]]
    /\ entities \subseteq Entity
    /\ asserts \subseteq entities \X (DOMAIN nodes)
    /\ about \subseteq (DOMAIN nodes) \X entities
    /\ pc \in [Workers -> {"idle", "forget", "reembed", "rechunk"}]
    /\ left \in [Workers -> Seq(SUBSET {"Fact", "Chunk", "Entity"})]
    /\ \A w \in Workers : left[w] # <<>> <=> pc[w] = "forget"
    /\ forgets \in [Workers -> Namespaces \cup {None}]
    /\ doomed \in [Workers -> SUBSET Nat]
    /\ \A w \in Workers : DOMAIN listing[w] # {} => pc[w] = "reembed"
    /\ \A w \in Workers : DOMAIN relisting[w] # {} => pc[w] = "rechunk"
    /\ torn \subseteq DOMAIN nodes

\* graph_neighbors at one hop: fact nodes that an edge joins to the entity.
Neighbors(namespace, name) ==
    {k \in DOMAIN nodes : \E e \in entities :
        /\ e.namespace = namespace /\ e.name = name
        /\ <<e, k>> \in asserts \/ <<k, e>> \in about}

\* The graph says what the facts say: an entity's neighbors are the facts of its
\* namespace that name it, and no other tenant's, although facts share entities and
\* entities outlive facts.  Only a fact that a failed call stored in part, or that
\* was stored while its namespace was forgotten, may be missing from them.
NeighborsAgree ==
    \A namespace \in Namespaces, name \in Names :
        LET meant == {k \in FactsOf(namespace) :
                         name \in {nodes[k].fact.subject, nodes[k].fact.object}}
        IN /\ Neighbors(namespace, name) \subseteq meant
           /\ meant \ torn \subseteq Neighbors(namespace, name)

\* When a forget has returned, nothing that was there when it began is there under
\* its id, in any of the databases, in any copy, whatever was stored meanwhile and
\* whatever call failed before: only a re-embedding that had listed it may bring it
\* back.
ForgottenIsGone ==
    \A w \in Workers :
        pc[w] = "idle" =>
            doomed[w] \cap (FactIds(DOMAIN nodes) \cup ChunkIds(DOMAIN chunks)) = {}

\* A fact that is stored again is the same node, in the stores that see to it.
OneNodePerFact ==
    setup.backend # "falkordb" =>
        \A id \in 1..MaxNodes : Cardinality(NodesOf(id)) <= 1

==============================================================================
