-------------------------- MODULE GraphMemory_proofs --------------------------
(***************************************************************************)
(* Proofs about GraphMemory: type correctness, the agreement of the edges  *)
(* with the facts, forgetting, and one node for each fact.                 *)
(***************************************************************************)
EXTENDS GraphMemory, FiniteSetTheorems, SequenceTheorems, TLAPS

Labels == {"Fact", "Chunk", "Entity"}

\* The records of facts in the graph and in the listings of reembed.
Listed(w) == {listing[w][k] : k \in DOMAIN listing[w]}
Records == {nodes[k] : k \in DOMAIN nodes} \cup UNION {Listed(w) : w \in Workers}

\* An id is given once, so that it means one fact, and so is a node.
RecordsInv ==
    /\ \A r \in Records : r.id \in 1..(nextNode - 1) /\ r \in [id: Nat, fact: Facts]
    /\ \A r, s \in Records : r.id = s.id => r = s
    /\ listing = [w \in Workers |-> listing[w]]
    /\ \A w \in Workers : doomed[w] \subseteq 1..(nextNode - 1)

\* The same of chunks; no fact has the id of a chunk.
ChunkRecord == [id: Nat, namespace: Namespaces]
Relisted(w) == {relisting[w][k] : k \in DOMAIN relisting[w]}
ChunkRecords == {chunks[k] : k \in DOMAIN chunks} \cup UNION {Relisted(w) : w \in Workers}

ChunksInv ==
    /\ \A q \in ChunkRecords : q.id \in 1..(nextNode - 1) /\ q \in ChunkRecord
    /\ \A q, t \in ChunkRecords : q.id = t.id => q = t
    /\ \A q \in ChunkRecords, r \in Records : q.id # r.id
    /\ relisting = [w \in Workers |-> relisting[w]]

TypeInv == TypeOK /\ RecordsInv /\ ChunksInv

SubjectOf(fact) == [namespace |-> fact.namespace, name |-> fact.subject]
ObjectOf(fact) == [namespace |-> fact.namespace, name |-> fact.object]

\* Every edge is that of its fact, and every fact that is not torn has both.
EdgesInv ==
    /\ \A edge \in asserts : edge[1] = SubjectOf(nodes[edge[2]].fact)
    /\ \A edge \in about : edge[2] = ObjectOf(nodes[edge[1]].fact)
    /\ \A k \in DOMAIN nodes \ torn :
          /\ <<SubjectOf(nodes[k].fact), k>> \in asserts
          /\ <<k, ObjectOf(nodes[k].fact)>> \in about

\* The labels that a forget has still to delete.
Pending(w) == UNION {left[w][n] : n \in DOMAIN left[w]}

\* What a forget found is there only while a query that deletes it is to come.
Doomed(w) ==
    /\ pc[w] = "idle" =>
          /\ \A k \in DOMAIN nodes : nodes[k].id \notin doomed[w]
          /\ \A k \in DOMAIN chunks : chunks[k].id \notin doomed[w]
    /\ pc[w] \in {"reembed", "rechunk"} => doomed[w] = {}
    /\ pc[w] = "forget" =>
          /\ \A k \in DOMAIN nodes : nodes[k].id \in doomed[w] =>
                "Fact" \in Pending(w) /\ nodes[k].fact.namespace = forgets[w]
          /\ \A k \in DOMAIN chunks : chunks[k].id \in doomed[w] =>
                "Chunk" \in Pending(w) /\ chunks[k].namespace = forgets[w]

DoomedInv == \A w \in Workers : Doomed(w)

\* Kuzu merges the node of a fact, and Neo4j refuses a second one.
OneNode ==
    setup.backend # "falkordb" =>
        \A i, j \in DOMAIN nodes : nodes[i].id = nodes[j].id => i = j

------------------------------------------------------------------------------
(* Storing a fact *)

\* An upsert creates a node ...
Creates(k, r) ==
    /\ k = nextNode /\ k \in 1..MaxNodes /\ nextNode' = k + 1
    /\ nodes' \in [DOMAIN nodes \cup {k} -> [id: Nat, fact: Facts]]
    /\ nodes'[k] = r
    /\ \A i \in DOMAIN nodes : nodes'[i] = nodes[i]
    /\ setup.backend = "kuzu" => NodesOf(r.id) = {}

\* ... or finds the node of the fact, which says the same already.
Merges(k, r) ==
    /\ k \in DOMAIN nodes /\ nodes[k] = r
    /\ nextNode' = nextNode
    /\ nodes' = nodes

\* A record that an upsert writes: of a new fact, or of one that is known.
Writable(r) ==
    /\ r \in [id: Nat, fact: Facts]
    /\ r.id = nextNode \/ r \in Records

LEMMA UpsertCases ==
    ASSUME TypeInv, NEW r, Writable(r), NEW n \in 1..5, Upsert(r.id, r.fact, n)
    PROVE  /\ NodeFor(r.id) \notin DOMAIN nodes => Creates(NodeFor(r.id), r)
           /\ NodeFor(r.id) \in DOMAIN nodes => Merges(NodeFor(r.id), r)
           /\ r.id = nextNode => NodeFor(r.id) \notin DOMAIN nodes
<1>0. TypeOK /\ RecordsInv /\ r = [id |-> r.id, fact |-> r.fact]
  BY DEF TypeInv, Writable
<1>1. /\ nextNode \in Nat \ {0} /\ nextNode \notin DOMAIN nodes
      /\ \A k \in DOMAIN nodes : nodes[k] \in Records
  BY <1>0, MaxNodesAssumption DEF TypeOK, Records
<1>2. \A k \in NodesOf(r.id) : k \in DOMAIN nodes /\ nodes[k] = r /\ r.id # nextNode
  BY <1>0, <1>1 DEF NodesOf, RecordsInv, Writable
<1>3. PICK k : k = NodeFor(r.id)
  OBVIOUS
<1>4. /\ k <= MaxNodes
      /\ nodes' = [i \in DOMAIN nodes \cup {k} |-> IF i = k THEN r ELSE nodes[i]]
      /\ nextNode' = IF k = nextNode THEN nextNode + 1 ELSE nextNode
  BY <1>0, <1>3 DEF Upsert
<1>5. CASE setup.backend = "kuzu" /\ NodesOf(r.id) # {}
  <2>1. k \in NodesOf(r.id)
    BY <1>3, <1>5 DEF NodeFor
  <2>2. k \in DOMAIN nodes /\ nodes[k] = r /\ r.id # nextNode /\ k # nextNode
    BY <1>1, <1>2, <2>1
  <2>3. nodes = [i \in DOMAIN nodes |-> nodes[i]]
    BY <1>0 DEF TypeOK
  <2>4. nodes' = nodes
    BY <1>4, <2>2, <2>3
  <2>5. QED
    BY <1>3, <1>4, <2>2, <2>4 DEF Merges
<1>6. CASE ~(setup.backend = "kuzu" /\ NodesOf(r.id) # {})
  <2>1. k = nextNode
    BY <1>3, <1>6 DEF NodeFor
  <2>2. Creates(k, r)
    BY <1>0, <1>1, <1>4, <1>6, <2>1, MaxNodesAssumption DEF Creates, Writable, TypeOK
  <2>3. QED
    BY <1>1, <1>3, <2>1, <2>2
<1>7. QED
  BY <1>5, <1>6

\* What an upsert does to the edges.
LEMMA UpsertEdges ==
    ASSUME TypeInv, NEW r, Writable(r), NEW n \in 1..5, Upsert(r.id, r.fact, n),
           NEW k, k = NodeFor(r.id)
    PROVE  /\ entities' \subseteq Entity /\ entities \subseteq entities'
           /\ asserts' \subseteq entities' \X (DOMAIN nodes')
           /\ about' \subseteq (DOMAIN nodes') \X entities'
           /\ asserts' \subseteq asserts \cup {<<SubjectOf(r.fact), k>>}
           /\ about' \subseteq about \cup {<<k, ObjectOf(r.fact)>>}
           /\ asserts \subseteq asserts' /\ about \subseteq about'
           /\ n = 5 => /\ <<SubjectOf(r.fact), k>> \in asserts'
                       /\ <<k, ObjectOf(r.fact)>> \in about'
           /\ torn' = IF n = 5 THEN torn \ {k} ELSE torn \cup ({k} \ DOMAIN nodes)
<1>0. TypeOK /\ r.fact \in Fact
  BY FactsAssumption DEF TypeInv, Writable
<1> DEFINE subject == SubjectOf(r.fact)
           object == ObjectOf(r.fact)
<1>1. subject \in Entity /\ object \in Entity
  BY <1>0 DEF SubjectOf, ObjectOf, Fact, Entity
<1>2. /\ DOMAIN nodes' = DOMAIN nodes \cup {k}
      /\ entities' = entities \cup (IF n >= 2 THEN {subject} ELSE {})
                              \cup (IF n >= 3 THEN {object} ELSE {})
      /\ asserts' = asserts \cup (IF n >= 4 THEN {<<subject, k>>} ELSE {})
      /\ about' = about \cup (IF n >= 5 THEN {<<k, object>>} ELSE {})
      /\ torn' = IF n = 5 THEN torn \ {k} ELSE torn \cup ({k} \ DOMAIN nodes)
  BY DEF Upsert, EntityOf, SubjectOf, ObjectOf
<1> HIDE DEF subject, object
<1>3. asserts \subseteq entities \X (DOMAIN nodes) /\ about \subseteq (DOMAIN nodes) \X entities
  BY <1>0 DEF TypeOK
<1>4. /\ n >= 4 => subject \in entities'
      /\ n >= 5 => object \in entities'
  BY <1>2
<1>5. QED
  BY <1>0, <1>1, <1>2, <1>3, <1>4 DEF subject, object, TypeOK

\* The nodes after an upsert.
LEMMA UpsertNodes ==
    ASSUME TypeInv, NEW r, Writable(r), NEW n \in 1..5, Upsert(r.id, r.fact, n)
    PROVE  /\ nextNode' \in 1..(MaxNodes + 1) /\ nextNode <= nextNode'
           /\ DOMAIN nodes' \subseteq DOMAIN nodes \cup {nextNode}
           /\ DOMAIN nodes \subseteq DOMAIN nodes'
           /\ DOMAIN nodes' \subseteq 1..(nextNode' - 1)
           /\ nodes' \in [DOMAIN nodes' -> [id: Nat, fact: Facts]]
           /\ \A i \in DOMAIN nodes : nodes'[i] = nodes[i]
           /\ \A i \in DOMAIN nodes' : nodes'[i] \in Records \cup {r}
           /\ r.id = nextNode => nextNode' = nextNode + 1
           /\ torn' \subseteq DOMAIN nodes'
<1>0. TypeOK
  BY DEF TypeInv
<1>1. PICK k : k = NodeFor(r.id)
  OBVIOUS
<1>2. torn' \subseteq torn \cup {k}
  <2>1. torn' = IF n = 5 THEN torn \ {k} ELSE torn \cup ({k} \ DOMAIN nodes)
    BY <1>1, UpsertEdges
  <2>2. QED
    BY <2>1
<1>3. CASE k \in DOMAIN nodes
  <2>1. Merges(k, r) /\ r.id # nextNode
    BY <1>1, <1>3, UpsertCases
  <2>2. QED
    BY <1>0, <1>2, <2>1 DEF Merges, TypeOK, Records
<1>4. CASE k \notin DOMAIN nodes
  <2>1. Creates(k, r)
    BY <1>1, <1>4, UpsertCases
  <2>2. DOMAIN nodes' = DOMAIN nodes \cup {k}
    BY <2>1 DEF Creates
  <2>3. \A i \in DOMAIN nodes : nodes'[i] \in Records
    BY <2>1 DEF Creates, Records
  <2>4. QED
    BY <1>0, <1>2, <2>1, <2>2, <2>3, MaxNodesAssumption DEF Creates, TypeOK
<1>5. QED
  BY <1>3, <1>4

------------------------------------------------------------------------------
(* Type correctness *)

LEMMA TypeInit == Init => TypeInv
<1> SUFFICES ASSUME Init
             PROVE  TypeInv
  OBVIOUS
<1>1. TypeOK
  BY MaxNodesAssumption DEF Init, TypeOK
<1>2. RecordsInv
  BY DEF Init, RecordsInv, Records, Listed
<1>3. ChunksInv
  BY DEF Init, ChunksInv, ChunkRecords, Relisted
<1>4. QED
  BY <1>1, <1>2, <1>3 DEF TypeInv

\* Records stay as they are when no step but a new fact adds one.
LEMMA RecordsStep ==
    ASSUME TypeInv, nextNode' \in Nat, nextNode <= nextNode',
           NEW r, Records' \subseteq Records \cup {r}, Writable(r),
           r.id = nextNode => nextNode' = nextNode + 1 \/ Records' \subseteq Records,
           listing' = [w \in Workers |-> listing'[w]],
           \A w \in Workers : doomed'[w] \subseteq 1..(nextNode' - 1)
    PROVE  RecordsInv'
<1>0. nextNode \in Nat \ {0} /\ RecordsInv
  BY MaxNodesAssumption DEF TypeInv, TypeOK
<1>1. CASE Records' \subseteq Records
  BY <1>0, <1>1 DEF RecordsInv
<1>2. CASE ~(Records' \subseteq Records)
  <2>1. r.id = nextNode /\ nextNode' = nextNode + 1
    BY <1>2 DEF Writable
  <2>2. \A q \in Records : q.id # nextNode
    BY <1>0 DEF RecordsInv
  <2>3. \A q \in Records' : q \in Records \/ q = r
    OBVIOUS
  <2>4. \A q \in Records' : q.id \in 1..(nextNode' - 1) /\ q \in [id: Nat, fact: Facts]
    BY <1>0, <2>1, <2>3 DEF RecordsInv, Writable
  <2>5. \A q, t \in Records' : q.id = t.id => q = t
    BY <1>0, <2>1, <2>2, <2>3 DEF RecordsInv
  <2>6. QED
    BY <2>4, <2>5 DEF RecordsInv
<1>3. QED
  BY <1>1, <1>2

\* ... in particular when no step adds one.
LEMMA RecordsShrink ==
    ASSUME TypeInv, nextNode' \in Nat, nextNode <= nextNode',
           Records' \subseteq Records,
           listing' = [w \in Workers |-> listing'[w]],
           \A w \in Workers : doomed'[w] \subseteq 1..(nextNode' - 1)
    PROVE  RecordsInv'
  BY MaxNodesAssumption DEF TypeInv, TypeOK, RecordsInv

\* Chunks stay as they are when no step but a new chunk adds one.
LEMMA ChunksShrink ==
    ASSUME TypeInv, nextNode' \in Nat, nextNode <= nextNode',
           ChunkRecords' \subseteq ChunkRecords,
           \A q \in Records' : q \in Records \/ q.id = nextNode,
           relisting' = [w \in Workers |-> relisting'[w]]
    PROVE  ChunksInv'
<1>1. nextNode \in Nat \ {0} /\ ChunksInv
  BY MaxNodesAssumption DEF TypeInv, TypeOK
<1>2. \A q \in ChunkRecords : q.id # nextNode
  BY <1>1 DEF ChunksInv
<1>3. QED
  BY <1>1, <1>2 DEF ChunksInv, ChunkRecord

LEMMA ChunksGrow ==
    ASSUME TypeInv, nextNode' = nextNode + 1,
           NEW q \in ChunkRecord, q.id = nextNode \/ q \in ChunkRecords,
           ChunkRecords' \subseteq ChunkRecords \cup {q},
           Records' \subseteq Records,
           relisting' = [w \in Workers |-> relisting'[w]]
    PROVE  ChunksInv'
<1>1. nextNode \in Nat \ {0} /\ ChunksInv /\ RecordsInv
  BY MaxNodesAssumption DEF TypeInv, TypeOK
<1>2. /\ \A t \in ChunkRecords : t.id # nextNode
      /\ \A t \in Records : t.id # nextNode
  BY <1>1 DEF ChunksInv, RecordsInv
<1>3. \A t \in ChunkRecords' : t \in ChunkRecords \/ t = q
  OBVIOUS
<1>4. \A t \in ChunkRecords' : t.id \in 1..(nextNode' - 1) /\ t \in ChunkRecord
  BY <1>1, <1>3 DEF ChunksInv
<1>5. \A t, u \in ChunkRecords' : t.id = u.id => t = u
  BY <1>1, <1>2, <1>3 DEF ChunksInv
<1>6. \A t \in ChunkRecords', u \in Records' : t.id # u.id
  BY <1>1, <1>2, <1>3 DEF ChunksInv
<1>7. QED
  BY <1>4, <1>5, <1>6 DEF ChunksInv, ChunkRecord

\* What a step that writes a fact keeps.
LEMMA UpsertType ==
    ASSUME TypeInv, NEW r, Writable(r), NEW n \in 1..5, Upsert(r.id, r.fact, n),
           UNCHANGED <<setup, chunks, left, forgets, relisting>>,
           listing' = [w \in Workers |-> listing'[w]],
           \A w \in Workers : Listed(w)' \subseteq Listed(w),
           \A w \in Workers : doomed'[w] \subseteq doomed[w],
           doomed' \in [Workers -> SUBSET Nat],
           pc' \in [Workers -> {"idle", "forget", "reembed", "rechunk"}],
           \A w \in Workers : pc'[w] = "forget" <=> pc[w] = "forget",
           \A w \in Workers : DOMAIN listing'[w] # {} => pc'[w] = "reembed",
           \A w \in Workers : DOMAIN relisting'[w] # {} => pc'[w] = "rechunk"
    PROVE  TypeInv'
<1>0. TypeOK /\ RecordsInv /\ ChunksInv
  BY DEF TypeInv
<1>1. /\ nextNode' \in 1..(MaxNodes + 1) /\ nextNode <= nextNode'
      /\ DOMAIN nodes' \subseteq DOMAIN nodes \cup {nextNode}
      /\ DOMAIN nodes' \subseteq 1..(nextNode' - 1)
      /\ nodes' \in [DOMAIN nodes' -> [id: Nat, fact: Facts]]
      /\ \A i \in DOMAIN nodes' : nodes'[i] \in Records \cup {r}
      /\ r.id = nextNode => nextNode' = nextNode + 1
      /\ torn' \subseteq DOMAIN nodes'
  BY UpsertNodes
<1>2. /\ entities' \subseteq Entity
      /\ asserts' \subseteq entities' \X (DOMAIN nodes')
      /\ about' \subseteq (DOMAIN nodes') \X entities'
  <2>1. PICK k : k = NodeFor(r.id)
    OBVIOUS
  <2>2. QED
    BY <2>1, UpsertEdges
<1>3. DOMAIN chunks \subseteq 1..(nextNode - 1) /\ nextNode \in Nat /\ nextNode' \in Nat
  BY <1>0, <1>1, MaxNodesAssumption DEF TypeOK
<1>4. TypeOK'
  <2>1. DOMAIN nodes' \cup DOMAIN chunks' \subseteq 1..(nextNode' - 1)
    BY <1>1, <1>3
  <2>2. QED
    BY <1>0, <1>1, <1>2, <2>1 DEF TypeOK
<1>5. Records' \subseteq Records \cup {r}
  BY <1>1 DEF Records
<1>6. ChunksInv'
  <2>1. ChunkRecords' = ChunkRecords
    BY DEF ChunkRecords, Relisted
  <2>2. \A q \in Records' : q \in Records \/ q.id = nextNode
    BY <1>5 DEF Writable
  <2>3. QED
    BY <1>0, <1>1, <1>3, <2>1, <2>2, ChunksShrink DEF ChunksInv
<1>7. \A w \in Workers : doomed'[w] \subseteq 1..(nextNode' - 1)
  BY <1>0, <1>1, <1>3 DEF RecordsInv
<1>8. RecordsInv'
  BY <1>1, <1>3, <1>5, <1>7, RecordsStep
<1>9. QED
  BY <1>4, <1>6, <1>8 DEF TypeInv

\* What a step keeps that stores nothing.
LEMMA RemoveType ==
    ASSUME TypeInv, TypeOK', nextNode' = nextNode,
           \A k \in DOMAIN nodes' : k \in DOMAIN nodes /\ nodes'[k] = nodes[k],
           \A k \in DOMAIN chunks' : k \in DOMAIN chunks /\ chunks'[k] = chunks[k],
           listing' = [w \in Workers |-> listing'[w]],
           \A w \in Workers : Listed(w)' \subseteq Listed(w),
           relisting' = [w \in Workers |-> relisting'[w]],
           \A w \in Workers : Relisted(w)' \subseteq Relisted(w),
           \A w \in Workers : doomed'[w] \subseteq 1..(nextNode - 1)
    PROVE  TypeInv'
<1>1. Records' \subseteq Records
  BY DEF Records
<1>2. ChunkRecords' \subseteq ChunkRecords
  BY DEF ChunkRecords
<1>3. nextNode \in Nat /\ nextNode <= nextNode'
  BY MaxNodesAssumption DEF TypeInv, TypeOK
<1>4. RecordsInv'
  BY <1>1, <1>3, RecordsShrink
<1>5. ChunksInv'
  BY <1>1, <1>2, <1>3, ChunksShrink
<1>6. QED
  BY <1>4, <1>5 DEF TypeInv

\* A chunk that is written is found by its id, or makes a row of its own.
LEMMA UpsertChunkCases ==
    ASSUME TypeInv, NEW q \in ChunkRecord, q.id = nextNode \/ q \in ChunkRecords,
           UpsertChunk(q.id, q.namespace)
    PROVE  /\ UNCHANGED <<nodes, entities, asserts, about, torn>>
           /\ \/ chunks' = chunks /\ nextNode' = nextNode
              \/ /\ nextNode \in 1..MaxNodes /\ nextNode' = nextNode + 1
                 /\ DOMAIN chunks' = DOMAIN chunks \cup {nextNode}
                 /\ chunks'[nextNode] = q
                 /\ \A k \in DOMAIN chunks : chunks'[k] = chunks[k]
                 /\ chunks' \in [DOMAIN chunks' -> ChunkRecord]
<1>0. TypeOK /\ ChunksInv /\ q = [id |-> q.id, namespace |-> q.namespace]
  BY DEF TypeInv, ChunkRecord
<1>1. /\ nextNode \in Nat \ {0} /\ nextNode \notin DOMAIN chunks
      /\ \A k \in DOMAIN chunks : chunks[k] \in ChunkRecords
  BY <1>0, MaxNodesAssumption DEF TypeOK, ChunkRecords
<1>2. \A k \in CopiesOf(q.id) : k \in DOMAIN chunks /\ chunks[k] = q
  BY <1>0, <1>1 DEF CopiesOf, ChunksInv
<1>3. PICK k : k = CopyFor(q.id)
  OBVIOUS
<1>4. /\ k <= MaxNodes
      /\ chunks' = [i \in DOMAIN chunks \cup {k} |-> IF i = k THEN q ELSE chunks[i]]
      /\ nextNode' = IF k = nextNode THEN nextNode + 1 ELSE nextNode
      /\ UNCHANGED <<nodes, entities, asserts, about, torn>>
  BY <1>0, <1>3 DEF UpsertChunk
<1>5. chunks = [i \in DOMAIN chunks |-> chunks[i]]
  BY <1>0 DEF TypeOK
<1>6. CASE k \in CopiesOf(q.id)
  BY <1>1, <1>2, <1>4, <1>5, <1>6
<1>7. CASE k = nextNode
  <2>1. \A i \in DOMAIN chunks : chunks[i] \in ChunkRecord
    BY <1>0, <1>1 DEF ChunksInv
  <2>2. QED
    BY <1>1, <1>4, <1>7, <2>1, MaxNodesAssumption
<1>8. QED
  BY <1>3, <1>6, <1>7 DEF CopyFor

\* What a step that writes a chunk keeps.
LEMMA UpsertChunkType ==
    ASSUME TypeInv, NEW q \in ChunkRecord, q.id = nextNode \/ q \in ChunkRecords,
           UpsertChunk(q.id, q.namespace),
           UNCHANGED <<setup, left, forgets, listing, pc>>,
           relisting' = [w \in Workers |-> relisting'[w]],
           \A w \in Workers : Relisted(w)' \subseteq Relisted(w),
           \A w \in Workers : DOMAIN relisting'[w] # {} => pc'[w] = "rechunk",
           \A w \in Workers : doomed'[w] \subseteq doomed[w],
           doomed' \in [Workers -> SUBSET Nat]
    PROVE  TypeInv'
<1>0. TypeOK /\ RecordsInv /\ ChunksInv /\ nextNode \in Nat \ {0}
  BY MaxNodesAssumption DEF TypeInv, TypeOK
<1>1. Records' = Records
  BY UpsertChunkCases DEF Records, Listed
<1>2. /\ UNCHANGED <<nodes, entities, asserts, about, torn>>
      /\ \/ chunks' = chunks /\ nextNode' = nextNode
         \/ /\ nextNode \in 1..MaxNodes /\ nextNode' = nextNode + 1
            /\ DOMAIN chunks' = DOMAIN chunks \cup {nextNode}
            /\ chunks'[nextNode] = q
            /\ \A k \in DOMAIN chunks : chunks'[k] = chunks[k]
            /\ chunks' \in [DOMAIN chunks' -> ChunkRecord]
  BY UpsertChunkCases
<1>3. TypeOK'
  <2>1. CASE chunks' = chunks /\ nextNode' = nextNode
    BY <1>0, <1>2, <2>1 DEF TypeOK
  <2>2. CASE /\ nextNode \in 1..MaxNodes /\ nextNode' = nextNode + 1
             /\ DOMAIN chunks' = DOMAIN chunks \cup {nextNode}
             /\ chunks' \in [DOMAIN chunks' -> ChunkRecord]
    <3>1. /\ nextNode' \in 1..(MaxNodes + 1)
          /\ DOMAIN nodes' \cup DOMAIN chunks' \subseteq 1..(nextNode' - 1)
      BY <1>0, <1>2, <2>2, MaxNodesAssumption DEF TypeOK
    <3>2. QED
      BY <1>0, <1>2, <2>2, <3>1 DEF TypeOK, ChunkRecord
  <2>3. QED
    BY <1>2, <2>1, <2>2
<1>4. nextNode' \in Nat /\ nextNode <= nextNode'
  BY <1>0, <1>2
<1>5. RecordsInv'
  <2>1. \A w \in Workers : doomed'[w] \subseteq 1..(nextNode' - 1)
    BY <1>0, <1>4 DEF RecordsInv
  <2>2. QED
    BY <1>0, <1>1, <1>4, <2>1, RecordsShrink DEF RecordsInv
<1>6. ChunksInv'
  <2>1. CASE chunks' = chunks /\ nextNode' = nextNode
    <3>1. ChunkRecords' \subseteq ChunkRecords
      BY <2>1 DEF ChunkRecords
    <3>2. QED
      BY <1>1, <1>4, <3>1, ChunksShrink
  <2>2. CASE nextNode' = nextNode + 1 /\ ~(chunks' = chunks /\ nextNode' = nextNode)
    <3>1. ChunkRecords' \subseteq ChunkRecords \cup {q}
      BY <1>2, <2>2 DEF ChunkRecords
    <3>2. QED
      BY <1>1, <2>2, <3>1, ChunksGrow
  <2>3. QED
    BY <1>2, <2>1, <2>2
<1>7. QED
  BY <1>3, <1>5, <1>6 DEF TypeInv

LEMMA DeletionsType ==
    Deletions \in Seq(SUBSET Labels) /\ Deletions # <<>>
<1>1. /\ <<{"Fact"}, {"Chunk"}, {"Entity"}>> \in Seq(SUBSET Labels)
      /\ <<{"Fact", "Entity"}, {"Chunk"}>> \in Seq(SUBSET Labels)
      /\ <<{"Fact", "Entity", "Chunk"}>> \in Seq(SUBSET Labels)
  <2>1. /\ {"Fact"} \in SUBSET Labels /\ {"Chunk"} \in SUBSET Labels
        /\ {"Entity"} \in SUBSET Labels /\ {"Fact", "Entity"} \in SUBSET Labels
        /\ {"Fact", "Entity", "Chunk"} \in SUBSET Labels
    BY DEF Labels
  <2>2. \A a, b, c \in SUBSET Labels :
           /\ <<a, b, c>> \in Seq(SUBSET Labels)
           /\ <<a, b>> \in Seq(SUBSET Labels)
           /\ <<a>> \in Seq(SUBSET Labels)
    OBVIOUS
  <2>3. QED
    BY <2>1, <2>2
<1>2. \A a, b, c : <<a, b, c>> # <<>> /\ <<a, b>> # <<>> /\ <<a>> # <<>>
  OBVIOUS
<1>3. QED
  BY <1>1, <1>2 DEF Deletions

LEMMA TypeNext == TypeInv /\ [Next]_vars => TypeInv'
<1> SUFFICES ASSUME TypeInv, [Next]_vars
             PROVE  TypeInv'
  OBVIOUS
<1>0. /\ TypeOK /\ RecordsInv /\ ChunksInv /\ nextNode \in Nat \ {0}
      /\ listing = [w \in Workers |-> listing[w]]
      /\ relisting = [w \in Workers |-> relisting[w]]
  BY MaxNodesAssumption DEF TypeInv, RecordsInv, ChunksInv, TypeOK
<1>1. ASSUME NEW w \in Workers, NEW fact \in Facts,
             StoreFact(w, fact) \/ StoreFactInPart(w, fact)
      PROVE  TypeInv'
  <2>1. New(w) /\ \E n \in 1..5 : Upsert(nextNode, fact, n)
    BY <1>1 DEF StoreFact, StoreFactInPart
  <2>2. PICK n \in 1..5 : Upsert(nextNode, fact, n)
    BY <2>1
  <2>3. PICK r : r = [id |-> nextNode, fact |-> fact]
    OBVIOUS
  <2>4. Writable(r) /\ Upsert(r.id, r.fact, n)
    BY <1>0, <2>2, <2>3 DEF Writable
  <2>5. /\ UNCHANGED <<setup, chunks, pc, left, forgets, listing, relisting>>
        /\ doomed' = [doomed EXCEPT ![w] = {}]
    BY <2>1 DEF New
  <2>6. /\ doomed' \in [Workers -> SUBSET Nat]
        /\ \A v \in Workers : doomed'[v] \subseteq doomed[v]
    BY <1>0, <2>5 DEF TypeOK
  <2>7. /\ pc' \in [Workers -> {"idle", "forget", "reembed", "rechunk"}]
        /\ \A v \in Workers : Listed(v)' \subseteq Listed(v)
        /\ \A v \in Workers : DOMAIN listing'[v] # {} => pc'[v] = "reembed"
        /\ \A v \in Workers : DOMAIN relisting'[v] # {} => pc'[v] = "rechunk"
        /\ listing' = [v \in Workers |-> listing'[v]]
    BY <1>0, <2>5 DEF TypeOK, Listed
  <2>8. QED
    BY <2>4, <2>5, <2>6, <2>7, UpsertType
<1>2. ASSUME NEW w \in Workers, NEW namespace \in Namespaces, StoreChunk(w, namespace)
      PROVE  TypeInv'
  <2>1. PICK q : q = [id |-> nextNode, namespace |-> namespace]
    OBVIOUS
  <2>2. q \in ChunkRecord /\ q.id = nextNode /\ UpsertChunk(q.id, q.namespace)
    BY <1>0, <1>2, <2>1 DEF StoreChunk, ChunkRecord
  <2>3. /\ UNCHANGED <<setup, left, forgets, listing, pc, relisting>>
        /\ doomed' = [doomed EXCEPT ![w] = {}]
    BY <1>2 DEF StoreChunk
  <2>4. /\ \A v \in Workers : doomed'[v] \subseteq doomed[v]
        /\ doomed' \in [Workers -> SUBSET Nat]
        /\ \A v \in Workers : DOMAIN relisting'[v] # {} => pc'[v] = "rechunk"
        /\ \A v \in Workers : Relisted(v)' \subseteq Relisted(v)
        /\ relisting' = [v \in Workers |-> relisting'[v]]
    BY <1>0, <2>3 DEF TypeOK, Relisted
  <2>5. QED
    BY <2>2, <2>3, <2>4, UpsertChunkType
<1>3. ASSUME NEW w \in Workers, NEW ks, ks \subseteq DOMAIN nodes, NEW ids,
             ids \subseteq FactIds(DOMAIN nodes) \/ ids = {},
             Detach(ks), doomed' = [doomed EXCEPT ![w] = ids],
             UNCHANGED <<setup, chunks, entities, nextNode, pc, left, forgets, listing,
                         relisting>>
      PROVE  TypeInv'
  <2>1. ids \subseteq 1..(nextNode - 1)
    BY <1>0, <1>3 DEF FactIds, RecordsInv, Records
  <2>2. TypeOK'
    BY <1>0, <1>3, <2>1 DEF Detach, TypeOK
  <2>3. \A v \in Workers : doomed'[v] \subseteq 1..(nextNode - 1)
    BY <1>0, <1>3, <2>1 DEF TypeOK, RecordsInv
  <2>4. \A k \in DOMAIN nodes' : k \in DOMAIN nodes /\ nodes'[k] = nodes[k]
    BY <1>3 DEF Detach
  <2>5. QED
    BY <1>0, <1>3, <2>2, <2>3, <2>4, RemoveType DEF Listed, Relisted
<1>4. ASSUME NEW w \in Workers, NEW i \in DOMAIN nodes, ForgetFact(w, nodes[i].id)
      PROVE  TypeInv'
  BY <1>3, <1>4 DEF ForgetFact, NodesOf, FactIds
<1>5. ASSUME NEW w \in Workers, NEW namespace, NEW name, ForgetSubject(w, namespace, name)
      PROVE  TypeInv'
  <2>1. PICK ks : ks = {k \in DOMAIN nodes : /\ nodes[k].fact.namespace = namespace
                                             /\ nodes[k].fact.subject = name}
    OBVIOUS
  <2>2. /\ ks \subseteq DOMAIN nodes /\ FactIds(ks) \subseteq FactIds(DOMAIN nodes)
        /\ Detach(ks) /\ doomed' = [doomed EXCEPT ![w] = FactIds(ks)]
        /\ UNCHANGED <<setup, chunks, entities, nextNode, pc, left, forgets, listing,
                       relisting>>
    BY <1>5, <2>1 DEF ForgetSubject, FactIds
  <2>3. QED
    BY <1>3, <2>2
<1>6. ASSUME NEW w \in Workers, NEW namespace \in Namespaces, ForgetNamespace(w, namespace)
      PROVE  TypeInv'
  <2> DEFINE ids == FactIds(FactsOf(namespace)) \cup ChunkIds(ChunksOf(namespace))
  <2>0. /\ ids \subseteq 1..(nextNode - 1)
        /\ doomed' = [doomed EXCEPT ![w] = ids]
    BY <1>0, <1>6 DEF ForgetNamespace, FactsOf, ChunksOf, FactIds, ChunkIds, RecordsInv,
                      ChunksInv, Records, ChunkRecords
  <2> HIDE DEF ids
  <2>1. /\ UNCHANGED <<setup, nodes, chunks, entities, asserts, about, nextNode, torn,
                       listing, relisting>>
        /\ left' = [left EXCEPT ![w] = Deletions]
        /\ pc' = [pc EXCEPT ![w] = "forget"]
        /\ forgets' = [forgets EXCEPT ![w] = namespace]
        /\ pc[w] = "idle"
    BY <1>6 DEF ForgetNamespace, graph
  <2>2. TypeOK'
    BY <1>0, <1>6, <2>0, <2>1, DeletionsType DEF TypeOK, Labels
  <2>3. \A v \in Workers : doomed'[v] \subseteq 1..(nextNode - 1)
    BY <1>0, <2>0 DEF TypeOK, RecordsInv
  <2>4. QED
    BY <1>0, <2>1, <2>2, <2>3, RemoveType DEF Listed, Relisted
<1>7. ASSUME NEW w \in Workers, DeleteNext(w)
      PROVE  TypeInv'
  <2>1. /\ left[w] \in Seq(SUBSET Labels) /\ left[w] # <<>>
        /\ Tail(left[w]) \in Seq(SUBSET Labels)
        /\ Tail(left[w]) = <<>> <=> Len(left[w]) = 1
    <3>1. left[w] \in Seq(SUBSET Labels) /\ left[w] # <<>>
      BY <1>0, <1>7 DEF DeleteNext, TypeOK, Labels
    <3>2. /\ Tail(left[w]) \in Seq(SUBSET Labels)
          /\ Len(Tail(left[w])) = Len(left[w]) - 1 /\ Len(left[w]) \in Nat
      BY <3>1, HeadTailProperties, LenProperties
    <3>3. Tail(left[w]) = <<>> <=> Len(Tail(left[w])) = 0
      BY <3>2, EmptySeq
    <3>4. QED
      BY <3>1, <3>2, <3>3
  <2>2. /\ \A k \in DOMAIN nodes' : k \in DOMAIN nodes /\ nodes'[k] = nodes[k]
        /\ nodes' \in [DOMAIN nodes' -> [id: Nat, fact: Facts]]
        /\ \A k \in DOMAIN chunks' : k \in DOMAIN chunks /\ chunks'[k] = chunks[k]
        /\ chunks' \in [DOMAIN chunks' -> [id: Nat, namespace: Namespaces]]
        /\ entities' \subseteq Entity
        /\ asserts' \subseteq entities' \X (DOMAIN nodes')
        /\ about' \subseteq (DOMAIN nodes') \X entities'
        /\ torn' \subseteq DOMAIN nodes'
    <3>1. PICK namespace, labels : Delete(namespace, labels)
      BY <1>7 DEF DeleteNext
    <3>2. QED
      BY <1>0, <3>1 DEF Delete, FactsOf, TypeOK
  <2>3. /\ UNCHANGED <<setup, nextNode, doomed, listing, relisting>>
        /\ left' = [left EXCEPT ![w] = Tail(@)]
        /\ pc' = [pc EXCEPT ![w] = IF Len(left[w]) = 1 THEN "idle" ELSE @]
        /\ forgets' = [forgets EXCEPT ![w] = IF pc'[w] = "idle" THEN None ELSE @]
        /\ pc[w] = "forget"
    BY <1>7 DEF DeleteNext
  <2>4. TypeOK'
    <3>1. /\ left' \in [Workers -> Seq(SUBSET {"Fact", "Chunk", "Entity"})]
          /\ \A v \in Workers : left'[v] # <<>> <=> pc'[v] = "forget"
          /\ pc' \in [Workers -> {"idle", "forget", "reembed", "rechunk"}]
          /\ \A v \in Workers : DOMAIN listing'[v] # {} => pc'[v] = "reembed"
          /\ \A v \in Workers : DOMAIN relisting'[v] # {} => pc'[v] = "rechunk"
      BY <1>0, <2>1, <2>3 DEF TypeOK, Labels
    <3>2. forgets' \in [Workers -> Namespaces \cup {None}]
      BY <1>0, <2>3 DEF TypeOK
    <3>3. QED
      BY <1>0, <2>2, <2>3, <3>1, <3>2 DEF TypeOK
  <2>5. QED
    BY <1>0, <2>2, <2>3, <2>4, RemoveType DEF Listed, Relisted, RecordsInv
<1>8. ASSUME NEW w \in Workers, ListFacts(w)
      PROVE  TypeInv'
  <2>1. TypeOK'
    BY <1>0, <1>8 DEF ListFacts, TypeOK, graph
  <2>2. /\ nextNode' = nextNode /\ nodes' = nodes /\ chunks' = chunks
        /\ relisting' = relisting
        /\ listing' = [listing EXCEPT ![w] = nodes]
        /\ listing' = [v \in Workers |-> listing'[v]]
        /\ \A v \in Workers : doomed'[v] \subseteq doomed[v]
    BY <1>0, <1>8 DEF ListFacts, TypeOK, graph
  <2>3. \A v \in Workers : listing'[v] = IF v = w THEN nodes ELSE listing[v]
    BY <1>0, <2>2
  <2>4. Records' \subseteq Records
    BY <2>2, <2>3 DEF Records, Listed
  <2>5. RecordsInv'
    BY <1>0, <2>2, <2>4, RecordsShrink DEF RecordsInv
  <2>6. ChunksInv'
    BY <1>0, <2>2, <2>4, ChunksShrink DEF ChunkRecords, Relisted
  <2>7. QED
    BY <2>1, <2>5, <2>6 DEF TypeInv
<1>9. ASSUME NEW w \in Workers, NEW k \in DOMAIN listing[w],
             RewriteFact(w, k) \/ RewriteFactInPart(w, k)
      PROVE  TypeInv'
  <2>1. PICK r : r = listing[w][k]
    OBVIOUS
  <2>2. Writable(r)
    BY <1>0, <2>1 DEF Writable, Records, Listed, RecordsInv
  <2>3. PICK n \in 1..5 : Upsert(r.id, r.fact, n)
    BY <1>9, <2>1 DEF RewriteFact, RewriteFactInPart
  <2>4. PICK kept \in SUBSET DOMAIN listing[w] :
           /\ listing' = [listing EXCEPT ![w] = [i \in kept |-> listing[w][i]]]
           /\ pc' = pc \/ (kept = {} /\ pc' = [pc EXCEPT ![w] = "idle"])
    <3>1. CASE RewriteFact(w, k)
      BY <3>1 DEF RewriteFact
    <3>2. CASE RewriteFactInPart(w, k)
      <4>1. [i \in {} |-> 0] = [i \in {} |-> listing[w][i]]
        OBVIOUS
      <4>2. QED
        BY <3>2, <4>1 DEF RewriteFactInPart
    <3>3. QED
      BY <1>9, <3>1, <3>2
  <2>5. /\ UNCHANGED <<setup, chunks, left, forgets, relisting>> /\ pc[w] = "reembed"
        /\ \E gone \in BOOLEAN : Spare(r.id, gone)
    BY <1>9, <2>1 DEF RewriteFact, RewriteFactInPart
  <2>6. \A v \in Workers : listing'[v] = IF v = w THEN [i \in kept |-> listing[w][i]]
                                         ELSE listing[v]
    BY <1>0, <2>4
  <2>7. /\ listing' = [v \in Workers |-> listing'[v]]
        /\ \A v \in Workers : Listed(v)' \subseteq Listed(v)
    BY <1>0, <2>4, <2>6 DEF Listed
  <2>8. /\ pc' \in [Workers -> {"idle", "forget", "reembed", "rechunk"}]
        /\ \A v \in Workers : pc'[v] = "forget" <=> pc[v] = "forget"
        /\ \A v \in Workers : DOMAIN listing'[v] # {} => pc'[v] = "reembed"
        /\ \A v \in Workers : DOMAIN relisting'[v] # {} => pc'[v] = "rechunk"
        /\ doomed' \in [Workers -> SUBSET Nat]
        /\ \A v \in Workers : doomed'[v] \subseteq doomed[v]
    <3>1. \A v \in Workers : DOMAIN relisting[v] # {} => pc'[v] = "rechunk"
      BY <1>0, <2>4, <2>5 DEF TypeOK
    <3>2. /\ doomed' \in [Workers -> SUBSET Nat]
          /\ \A v \in Workers : doomed'[v] \subseteq doomed[v]
      BY <1>0, <2>5 DEF TypeOK, Spare
    <3>3. QED
      BY <1>0, <2>4, <2>5, <2>6, <3>1, <3>2 DEF TypeOK
  <2>9. QED
    BY <2>2, <2>3, <2>5, <2>7, <2>8, UpsertType
<1>10. ASSUME NEW w \in Workers, EndReembed(w)
       PROVE  TypeInv'
  <2>1. TypeOK'
    BY <1>0, <1>10 DEF EndReembed, TypeOK, graph
  <2>2. UNCHANGED <<nodes, nextNode, chunks, listing, relisting, doomed>>
    BY <1>10 DEF EndReembed, graph
  <2>3. QED
    BY <1>0, <2>1, <2>2, RemoveType DEF Listed, Relisted, RecordsInv
<1>14. ASSUME NEW w \in Workers, ListChunks(w)
       PROVE  TypeInv'
  <2>1. TypeOK'
    BY <1>0, <1>14 DEF ListChunks, TypeOK, graph
  <2>2. /\ UNCHANGED <<nodes, nextNode, chunks, listing, doomed>>
        /\ relisting' = [relisting EXCEPT ![w] = chunks]
        /\ relisting' = [v \in Workers |-> relisting'[v]]
    BY <1>0, <1>14 DEF ListChunks, graph
  <2>3. \A v \in Workers : relisting'[v] = IF v = w THEN chunks ELSE relisting[v]
    BY <1>0, <2>2
  <2>4. ChunkRecords' \subseteq ChunkRecords /\ Records' = Records
    BY <2>2, <2>3 DEF ChunkRecords, Relisted, Records, Listed
  <2>5. RecordsInv'
    BY <1>0, <2>2, <2>4, RecordsShrink DEF RecordsInv
  <2>6. ChunksInv'
    BY <1>0, <2>2, <2>4, ChunksShrink
  <2>7. QED
    BY <2>1, <2>5, <2>6 DEF TypeInv
<1>15. ASSUME NEW w \in Workers, NEW k \in DOMAIN relisting[w], RewriteChunk(w, k)
       PROVE  TypeInv'
  <2>1. PICK q : q = relisting[w][k]
    OBVIOUS
  <2>2. q \in ChunkRecords /\ q \in ChunkRecord
    BY <1>0, <2>1 DEF ChunkRecords, Relisted, ChunksInv
  <2>3. /\ UpsertChunk(q.id, q.namespace) /\ pc[w] = "rechunk"
        /\ \E gone \in BOOLEAN : Spare(q.id, gone)
        /\ relisting' = [relisting EXCEPT
              ![w] = [i \in DOMAIN relisting[w] \ {k} |-> relisting[w][i]]]
        /\ UNCHANGED <<setup, left, forgets, listing, pc>>
    BY <1>15, <2>1 DEF RewriteChunk
  <2>4. /\ \A v \in Workers : doomed'[v] \subseteq doomed[v]
        /\ doomed' \in [Workers -> SUBSET Nat]
    BY <1>0, <2>3 DEF Spare, TypeOK
  <2>5. /\ \A v \in Workers : DOMAIN relisting'[v] # {} => pc'[v] = "rechunk"
        /\ \A v \in Workers : Relisted(v)' \subseteq Relisted(v)
        /\ relisting' = [v \in Workers |-> relisting'[v]]
    <3>1. \A v \in Workers : relisting'[v] =
             IF v = w THEN [i \in DOMAIN relisting[w] \ {k} |-> relisting[w][i]]
             ELSE relisting[v]
      BY <1>0, <2>3
    <3>2. relisting' = [v \in Workers |-> relisting'[v]]
      BY <1>0, <2>3
    <3>3. \A v \in Workers : DOMAIN relisting'[v] # {} => pc'[v] = "rechunk"
      BY <1>0, <2>3, <3>1 DEF TypeOK
    <3>4. \A v \in Workers : Relisted(v)' \subseteq Relisted(v)
      BY <3>1 DEF Relisted
    <3>5. QED
      BY <3>2, <3>3, <3>4
  <2>6. QED
    BY <2>2, <2>3, <2>4, <2>5, UpsertChunkType
<1>11. ASSUME NEW ws, Abandon(ws)
       PROVE  TypeInv'
  <2>1. TypeOK'
    BY <1>0, <1>11 DEF Abandon, TypeOK, graph
  <2>2. /\ UNCHANGED <<nodes, nextNode, chunks>>
        /\ \A v \in Workers : doomed'[v] = IF v \in ws THEN {} ELSE doomed[v]
        /\ \A v \in Workers : listing'[v] = IF v \in ws THEN [k \in {} |-> 0] ELSE listing[v]
        /\ listing' = [v \in Workers |-> listing'[v]]
        /\ \A v \in Workers :
              relisting'[v] = IF v \in ws THEN [k \in {} |-> 0] ELSE relisting[v]
        /\ relisting' = [v \in Workers |-> relisting'[v]]
    BY <1>11 DEF Abandon, graph
  <2>3. \A v \in Workers : Listed(v)' \subseteq Listed(v) /\ Relisted(v)' \subseteq Relisted(v)
    BY <2>2 DEF Listed, Relisted
  <2>4. QED
    BY <1>0, <2>1, <2>2, <2>3, RemoveType DEF RecordsInv
<1>12. CASE UNCHANGED vars
  <2>1. TypeOK'
    BY <1>0, <1>12 DEF vars, graph, worker, TypeOK
  <2>2. QED
    BY <1>0, <1>12, <2>1, RemoveType DEF vars, graph, worker, Listed, Relisted, RecordsInv
<1>13. QED
  BY <1>1, <1>2, <1>4, <1>5, <1>6, <1>7, <1>8, <1>9, <1>10, <1>11, <1>12, <1>14, <1>15
  DEF Next, CallRaises, Crash

\* The graph is well formed whatever calls interleave and fail: no edge is left without
\* one of its ends, and a forget's queries are left exactly while it is under way.
THEOREM GraphTypeCorrect == Spec => []TypeOK
<1>1. TypeInv => TypeOK
  BY DEF TypeInv
<1>2. QED
  BY <1>1, TypeInit, TypeNext, PTL DEF Spec

------------------------------------------------------------------------------
(* The writes of a step, for the invariants below *)

\* Every step that writes a fact upserts a record that is new or known; where a second
\* node of one id is refused, there is none yet, and where it had been forgotten no
\* forget has to answer for it.
LEMMA StoreWrites ==
    ASSUME TypeInv, NEW w \in Workers, NEW fact \in Facts,
           StoreFact(w, fact) \/ StoreFactInPart(w, fact)
    PROVE  /\ \E r : /\ Writable(r) /\ r.id = nextNode
                     /\ \E n \in 1..5 : Upsert(r.id, r.fact, n)
           /\ pc[w] = "idle" /\ doomed' = [doomed EXCEPT ![w] = {}]
           /\ UNCHANGED <<setup, chunks, pc, left, forgets, listing, relisting>>
<1>1. New(w) /\ \E n \in 1..5 : Upsert(nextNode, fact, n)
  BY DEF StoreFact, StoreFactInPart
<1>2. PICK r : r = [id |-> nextNode, fact |-> fact]
  OBVIOUS
<1>3. Writable(r) /\ r.id = nextNode /\ r.fact = fact
  BY <1>2, MaxNodesAssumption DEF TypeInv, TypeOK, Writable
<1>4. QED
  BY <1>1, <1>3 DEF New

LEMMA RewriteWrites ==
    ASSUME TypeInv, NEW w \in Workers, NEW k \in DOMAIN listing[w],
           RewriteFact(w, k) \/ RewriteFactInPart(w, k)
    PROVE  /\ \E r : /\ Writable(r) /\ ~Refuses(r.id)
                     /\ \E n \in 1..5 : Upsert(r.id, r.fact, n)
                     /\ Spare(r.id, NodesOf(r.id) = {})
           /\ pc[w] = "reembed" /\ pc' \in {pc, [pc EXCEPT ![w] = "idle"]}
           /\ UNCHANGED <<setup, chunks, left, forgets, relisting>>
<1>1. PICK r : r = listing[w][k]
  OBVIOUS
<1>2. Writable(r)
  BY <1>1 DEF TypeInv, Writable, Records, Listed, RecordsInv
<1>3. /\ ~Refuses(r.id) /\ \E n \in 1..5 : Upsert(r.id, r.fact, n)
      /\ Spare(r.id, NodesOf(r.id) = {})
  BY <1>1 DEF RewriteFact, RewriteFactInPart, Refuses
<1>4. QED
  BY <1>2, <1>3 DEF RewriteFact, RewriteFactInPart

\* Every step that writes a chunk, likewise.
LEMMA ChunkWrites ==
    ASSUME TypeInv, NEW w \in Workers,
           \/ \E namespace \in Namespaces : StoreChunk(w, namespace)
           \/ \E k \in DOMAIN relisting[w] : RewriteChunk(w, k)
    PROVE  /\ \E q \in ChunkRecord :
                 /\ UpsertChunk(q.id, q.namespace)
                 /\ \/ q.id = nextNode /\ doomed' = [doomed EXCEPT ![w] = {}]
                    \/ q \in ChunkRecords /\ Spare(q.id, CopiesOf(q.id) = {})
           /\ pc[w] \in {"idle", "rechunk"}
           /\ UNCHANGED <<setup, nodes, entities, asserts, about, torn, pc, left, forgets>>
<1>0. nextNode \in Nat /\ ChunksInv
  BY MaxNodesAssumption DEF TypeInv, TypeOK
<1>1. ASSUME NEW namespace \in Namespaces, StoreChunk(w, namespace)
      PROVE  \E q \in ChunkRecord :
                 /\ UpsertChunk(q.id, q.namespace)
                 /\ q.id = nextNode /\ doomed' = [doomed EXCEPT ![w] = {}]
  <2>1. PICK q : q = [id |-> nextNode, namespace |-> namespace]
    OBVIOUS
  <2>2. q \in ChunkRecord /\ q.id = nextNode /\ q.namespace = namespace
    BY <1>0, <2>1 DEF ChunkRecord
  <2>3. QED
    BY <1>1, <2>2 DEF StoreChunk
<1>2. ASSUME NEW k \in DOMAIN relisting[w], RewriteChunk(w, k)
      PROVE  \E q \in ChunkRecord :
                 /\ UpsertChunk(q.id, q.namespace)
                 /\ q \in ChunkRecords /\ Spare(q.id, CopiesOf(q.id) = {})
  <2>1. relisting[w][k] \in ChunkRecords /\ relisting[w][k] \in ChunkRecord
    BY <1>0 DEF ChunksInv, ChunkRecords, Relisted
  <2>2. QED
    BY <1>2, <2>1 DEF RewriteChunk
<1>3. QED
  BY <1>1, <1>2 DEF StoreChunk, RewriteChunk, UpsertChunk

\* Forgetting by id or by subject ...
ForgetsFacts(w) ==
    \/ \E k \in DOMAIN nodes : ForgetFact(w, nodes[k].id)
    \/ \E namespace \in Namespaces, name \in Names : ForgetSubject(w, namespace, name)

\* ... removes some facts, with every node that has their ids.
LEMMA DetachRemoves ==
    ASSUME TypeInv, NEW w \in Workers, ForgetsFacts(w)
    PROVE  /\ \E ks \in SUBSET DOMAIN nodes, ids \in SUBSET FactIds(DOMAIN nodes) :
                 /\ Detach(ks) /\ doomed' = [doomed EXCEPT ![w] = ids]
                 /\ \A k \in DOMAIN nodes : nodes[k].id \in ids <=> k \in ks
           /\ pc[w] = "idle"
           /\ UNCHANGED <<setup, chunks, entities, nextNode, pc, left, forgets, listing,
                          relisting>>
<1>1. ASSUME NEW i \in DOMAIN nodes, ForgetFact(w, nodes[i].id)
      PROVE  \E ks \in SUBSET DOMAIN nodes, ids \in SUBSET FactIds(DOMAIN nodes) :
                 /\ Detach(ks) /\ doomed' = [doomed EXCEPT ![w] = ids]
                 /\ \A k \in DOMAIN nodes : nodes[k].id \in ids <=> k \in ks
  <2>1. PICK id : id = nodes[i].id
    OBVIOUS
  <2>2. /\ \A k \in DOMAIN nodes : nodes[k].id \in {id} <=> k \in NodesOf(id)
        /\ NodesOf(id) \in SUBSET DOMAIN nodes /\ {id} \in SUBSET FactIds(DOMAIN nodes)
    BY <2>1 DEF NodesOf, FactIds
  <2>3. Detach(NodesOf(id)) /\ doomed' = [doomed EXCEPT ![w] = {id}]
    BY <1>1, <2>1 DEF ForgetFact
  <2>4. QED
    BY <2>2, <2>3
<1>2. ASSUME NEW namespace, NEW name, ForgetSubject(w, namespace, name)
      PROVE  \E ks \in SUBSET DOMAIN nodes, ids \in SUBSET FactIds(DOMAIN nodes) :
                 /\ Detach(ks) /\ doomed' = [doomed EXCEPT ![w] = ids]
                 /\ \A k \in DOMAIN nodes : nodes[k].id \in ids <=> k \in ks
  <2>1. PICK ks : ks = {k \in DOMAIN nodes : /\ nodes[k].fact.namespace = namespace
                                             /\ nodes[k].fact.subject = name}
    OBVIOUS
  <2>2. \A k, i \in DOMAIN nodes : nodes[k].id = nodes[i].id => nodes[k] = nodes[i]
    BY DEF TypeInv, RecordsInv, Records
  <2>3. \A k \in DOMAIN nodes : nodes[k].id \in FactIds(ks) <=> k \in ks
    BY <2>1, <2>2 DEF FactIds
  <2>4. /\ ks \in SUBSET DOMAIN nodes /\ FactIds(ks) \in SUBSET FactIds(DOMAIN nodes)
        /\ Detach(ks) /\ doomed' = [doomed EXCEPT ![w] = FactIds(ks)]
    BY <1>2, <2>1 DEF ForgetSubject, FactIds
  <2>5. QED
    BY <2>3, <2>4
<1>3. CASE \E i \in DOMAIN nodes : ForgetFact(w, nodes[i].id)
  <2>1. PICK i \in DOMAIN nodes : ForgetFact(w, nodes[i].id)
    BY <1>3
  <2>2. /\ pc[w] = "idle"
        /\ UNCHANGED <<setup, chunks, entities, nextNode, pc, left, forgets, listing,
                       relisting>>
    BY <2>1 DEF ForgetFact
  <2>3. QED
    BY <2>1, <2>2, <1>1
<1>4. CASE \E namespace \in Namespaces, name \in Names : ForgetSubject(w, namespace, name)
  <2>1. PICK namespace \in Namespaces, name \in Names : ForgetSubject(w, namespace, name)
    BY <1>4
  <2>2. /\ pc[w] = "idle"
        /\ UNCHANGED <<setup, chunks, entities, nextNode, pc, left, forgets, listing,
                       relisting>>
    BY <2>1 DEF ForgetSubject
  <2>3. QED
    BY <2>1, <2>2, <1>2
<1>5. QED
  BY <1>3, <1>4 DEF ForgetsFacts

------------------------------------------------------------------------------
(* The edges agree with the facts *)

LEMMA UpsertKeepsEdges ==
    ASSUME TypeInv, EdgesInv, NEW r, Writable(r), NEW n \in 1..5, Upsert(r.id, r.fact, n)
    PROVE  EdgesInv'
<1>1. PICK k : k = NodeFor(r.id)
  OBVIOUS
<1>2. /\ \A i \in DOMAIN nodes : nodes'[i] = nodes[i]
      /\ nodes'[k].fact = r.fact
      /\ DOMAIN nodes' = DOMAIN nodes \cup {k}
  BY <1>1, UpsertCases DEF Creates, Merges
<1>3. /\ asserts' \subseteq asserts \cup {<<SubjectOf(r.fact), k>>}
      /\ about' \subseteq about \cup {<<k, ObjectOf(r.fact)>>}
      /\ asserts \subseteq asserts' /\ about \subseteq about'
      /\ n = 5 => /\ <<SubjectOf(r.fact), k>> \in asserts'
                  /\ <<k, ObjectOf(r.fact)>> \in about'
      /\ torn' = IF n = 5 THEN torn \ {k} ELSE torn \cup ({k} \ DOMAIN nodes)
  BY <1>1, UpsertEdges
<1>4. /\ \A edge \in asserts : edge[2] \in DOMAIN nodes
      /\ \A edge \in about : edge[1] \in DOMAIN nodes
  BY DEF TypeInv, TypeOK
<1>5. /\ \A edge \in asserts' : edge[1] = SubjectOf(nodes'[edge[2]].fact)
      /\ \A edge \in about' : edge[2] = ObjectOf(nodes'[edge[1]].fact)
  BY <1>2, <1>3, <1>4 DEF EdgesInv
<1>6. ASSUME NEW i \in DOMAIN nodes' \ torn'
      PROVE  /\ <<SubjectOf(nodes'[i].fact), i>> \in asserts'
             /\ <<i, ObjectOf(nodes'[i].fact)>> \in about'
  <2>1. CASE i = k /\ n = 5
    BY <1>2, <1>3, <2>1
  <2>2. CASE ~(i = k /\ n = 5)
    <3>1. i \in DOMAIN nodes \ torn
      BY <1>2, <1>3, <1>6, <2>2
    <3>2. QED
      BY <1>2, <1>3, <3>1 DEF EdgesInv
  <2>3. QED
    BY <2>1, <2>2
<1>7. QED
  BY <1>5, <1>6 DEF EdgesInv, SubjectOf, ObjectOf

LEMMA EdgesNext == TypeInv /\ EdgesInv /\ [Next]_vars => EdgesInv'
<1> SUFFICES ASSUME TypeInv, EdgesInv, [Next]_vars
             PROVE  EdgesInv'
  OBVIOUS
<1>0. TypeOK
  BY DEF TypeInv
<1>1. ASSUME NEW w \in Workers, NEW fact \in Facts,
             StoreFact(w, fact) \/ StoreFactInPart(w, fact)
      PROVE  EdgesInv'
  BY <1>1, StoreWrites, UpsertKeepsEdges
<1>2. ASSUME NEW w \in Workers, NEW k \in DOMAIN listing[w],
             RewriteFact(w, k) \/ RewriteFactInPart(w, k)
      PROVE  EdgesInv'
  BY <1>2, RewriteWrites, UpsertKeepsEdges
<1>3. ASSUME NEW w \in Workers, ForgetsFacts(w)
      PROVE  EdgesInv'
  <2>1. PICK ks \in SUBSET DOMAIN nodes : Detach(ks)
    BY <1>3, DetachRemoves
  <2>2. /\ \A k \in DOMAIN nodes' : k \in DOMAIN nodes /\ k \notin ks /\ nodes'[k] = nodes[k]
        /\ \A k \in DOMAIN nodes \ ks : k \in DOMAIN nodes'
        /\ asserts' = {edge \in asserts : edge[2] \notin ks}
        /\ about' = {edge \in about : edge[1] \notin ks}
        /\ torn' = torn \ ks
    BY <2>1 DEF Detach
  <2>3. /\ \A edge \in asserts' : edge[2] \in DOMAIN nodes'
        /\ \A edge \in about' : edge[1] \in DOMAIN nodes'
    BY <1>0, <2>2 DEF TypeOK
  <2>4. QED
    BY <2>2, <2>3 DEF EdgesInv, SubjectOf, ObjectOf
<1>4. ASSUME NEW w \in Workers, DeleteNext(w)
      PROVE  EdgesInv'
  <2>1. PICK namespace, labels : Delete(namespace, labels)
    BY <1>4 DEF DeleteNext
  <2> DEFINE ks == IF "Fact" \in labels THEN FactsOf(namespace) ELSE {}
             es == IF "Entity" \in labels THEN {e \in entities : e.namespace = namespace}
                   ELSE {}
  <2>2. /\ \A k \in DOMAIN nodes' : k \in DOMAIN nodes /\ k \notin ks /\ nodes'[k] = nodes[k]
        /\ asserts' = {edge \in asserts : edge[1] \notin es /\ edge[2] \notin ks}
        /\ about' = {edge \in about : edge[1] \notin ks /\ edge[2] \notin es}
        /\ torn' = (torn \cup (IF es = {} THEN {} ELSE FactsOf(namespace))) \ ks
        /\ \A k \in DOMAIN nodes \ ks : k \in DOMAIN nodes'
    BY <2>1 DEF Delete
  <2>3. /\ \A edge \in asserts' : edge[2] \in DOMAIN nodes'
        /\ \A edge \in about' : edge[1] \in DOMAIN nodes'
    BY <1>0, <2>2 DEF TypeOK
  <2>4. \A e \in es : e.namespace = namespace
    OBVIOUS
  <2> HIDE DEF ks, es
  <2>5. ASSUME NEW k \in DOMAIN nodes' \ torn'
        PROVE  /\ <<SubjectOf(nodes[k].fact), k>> \in asserts'
               /\ <<k, ObjectOf(nodes[k].fact)>> \in about'
    <3>1. /\ k \in DOMAIN nodes /\ k \notin ks /\ k \notin torn
          /\ es # {} => k \notin FactsOf(namespace)
      BY <2>2
    <3>2. es # {} => nodes[k].fact.namespace # namespace
      BY <3>1 DEF FactsOf
    <3>3. SubjectOf(nodes[k].fact) \notin es /\ ObjectOf(nodes[k].fact) \notin es
      BY <2>4, <3>2 DEF SubjectOf, ObjectOf
    <3>4. QED
      BY <2>2, <3>1, <3>3 DEF EdgesInv
  <2>6. QED
    BY <2>2, <2>3, <2>5 DEF EdgesInv, SubjectOf, ObjectOf
<1>5. ASSUME UNCHANGED <<nodes, asserts, about, torn>>
      PROVE  EdgesInv'
  BY <1>5 DEF EdgesInv, SubjectOf, ObjectOf
<1>6. ASSUME NEW w \in Workers, NEW namespace,
             \/ StoreChunk(w, namespace) \/ ForgetNamespace(w, namespace)
             \/ ListFacts(w) \/ ListChunks(w) \/ EndReembed(w) \/ CallRaises(w)
             \/ \E k \in DOMAIN relisting[w] : RewriteChunk(w, k)
      PROVE  EdgesInv'
  BY <1>5, <1>6 DEF StoreChunk, UpsertChunk, ForgetNamespace, ListFacts, ListChunks,
                    RewriteChunk, EndReembed, CallRaises, Abandon, graph
<1>7. CASE Crash \/ UNCHANGED vars
  BY <1>5, <1>7 DEF Crash, Abandon, vars, graph
<1>8. QED
  BY <1>1, <1>2, <1>3, <1>4, <1>6, <1>7 DEF Next, ForgetsFacts

\* An entity's neighbors in the graph are the facts of its namespace that name it, and
\* no other's, although facts share entities, entities outlive facts, calls fail between
\* two statements and forgets run beside stores; only torn facts may be missing.
THEOREM NeighborsTheorem == Spec => []NeighborsAgree
<1>1. Init => EdgesInv
  BY DEF Init, EdgesInv
<1>2. TypeInv /\ EdgesInv => NeighborsAgree
  <2> SUFFICES ASSUME TypeInv, EdgesInv, NEW namespace \in Namespaces, NEW name \in Names
               PROVE  LET meant == {k \in FactsOf(namespace) :
                                      name \in {nodes[k].fact.subject, nodes[k].fact.object}}
                      IN /\ Neighbors(namespace, name) \subseteq meant
                         /\ meant \ torn \subseteq Neighbors(namespace, name)
    BY DEF NeighborsAgree
  <2>1. ASSUME NEW k \in Neighbors(namespace, name)
        PROVE  /\ k \in FactsOf(namespace)
               /\ name \in {nodes[k].fact.subject, nodes[k].fact.object}
    <3>1. PICK e \in entities : /\ e.namespace = namespace /\ e.name = name
                                /\ <<e, k>> \in asserts \/ <<k, e>> \in about
      BY <2>1 DEF Neighbors
    <3>2. e = SubjectOf(nodes[k].fact) \/ e = ObjectOf(nodes[k].fact)
      BY <3>1 DEF EdgesInv
    <3>3. k \in DOMAIN nodes
      BY <2>1 DEF Neighbors
    <3>4. QED
      BY <3>1, <3>2, <3>3 DEF FactsOf, SubjectOf, ObjectOf
  <2>2. ASSUME NEW k \in FactsOf(namespace), k \notin torn,
               name \in {nodes[k].fact.subject, nodes[k].fact.object}
        PROVE  k \in Neighbors(namespace, name)
    <3>1. /\ k \in DOMAIN nodes /\ nodes[k].fact.namespace = namespace
          /\ <<SubjectOf(nodes[k].fact), k>> \in asserts
          /\ <<k, ObjectOf(nodes[k].fact)>> \in about
      BY <2>2 DEF FactsOf, EdgesInv
    <3>2. SubjectOf(nodes[k].fact) \in entities /\ ObjectOf(nodes[k].fact) \in entities
      BY <3>1 DEF TypeInv, TypeOK
    <3>3. QED
      BY <2>2, <3>1, <3>2 DEF Neighbors, SubjectOf, ObjectOf
  <2>3. QED
    BY <2>1, <2>2
<1>3. QED
  BY <1>1, <1>2, TypeInit, TypeNext, EdgesNext, PTL DEF Spec

------------------------------------------------------------------------------
(* Forgetting *)

\* No fact and no chunk that a worker's forget answers for comes to be there.
FactsKept(w) ==
    \A k \in DOMAIN nodes' :
        nodes'[k].id \in doomed'[w] =>
            \/ nodes'[k].id = nextNode
            \/ \E i \in DOMAIN nodes : nodes'[k] = nodes[i]

ChunksKept(w) ==
    \A k \in DOMAIN chunks' :
        chunks'[k].id \in doomed'[w] =>
            \/ chunks'[k].id = nextNode
            \/ \E i \in DOMAIN chunks : chunks'[k] = chunks[i]

Kept(w) == FactsKept(w) /\ ChunksKept(w) /\ doomed'[w] \subseteq doomed[w]

\* What others do leaves what a worker has forgotten, and has still to forget, alone.
LEMMA DoomedKept ==
    ASSUME TypeInv, NEW w \in Workers, Doomed(w), Kept(w),
           UNCHANGED <<pc[w], left[w], forgets[w]>>
    PROVE  Doomed(w)'
<1>1. /\ nextNode \notin doomed[w] /\ doomed'[w] \subseteq doomed[w]
      /\ pc[w] \in {"idle", "forget", "reembed", "rechunk"}
  BY MaxNodesAssumption DEF TypeInv, TypeOK, RecordsInv, Kept
<1>2. /\ \A k \in DOMAIN nodes' : nodes'[k].id \in doomed'[w] =>
            \E i \in DOMAIN nodes : nodes'[k] = nodes[i]
      /\ \A k \in DOMAIN chunks' : chunks'[k].id \in doomed'[w] =>
            \E i \in DOMAIN chunks : chunks'[k] = chunks[i]
  BY <1>1 DEF Kept, FactsKept, ChunksKept
<1>3. Pending(w)' = Pending(w)
  BY DEF Pending
<1>4. CASE pc[w] = "idle"
  BY <1>1, <1>2, <1>4 DEF Doomed
<1>5. CASE pc[w] \in {"reembed", "rechunk"}
  BY <1>1, <1>5 DEF Doomed
<1>6. CASE pc[w] = "forget"
  BY <1>1, <1>2, <1>3, <1>6 DEF Doomed
<1>7. QED
  BY <1>1, <1>4, <1>5, <1>6

\* A fact that is stored is new, was there, or is answered for by nobody.
LEMMA UpsertKeeps ==
    ASSUME TypeInv, NEW r, Writable(r), NEW n \in 1..5, Upsert(r.id, r.fact, n),
           NEW w \in Workers,
           r.id = nextNode \/ NodesOf(r.id) # {} \/ r.id \notin doomed'[w]
    PROVE  FactsKept(w)
<1>0. RecordsInv /\ TypeOK
  BY DEF TypeInv
<1>1. PICK k : k = NodeFor(r.id)
  OBVIOUS
<1>2. CASE k \in DOMAIN nodes
  BY <1>1, <1>2, UpsertCases DEF Merges, FactsKept
<1>3. CASE k \notin DOMAIN nodes
  <2>1. /\ nodes' \in [DOMAIN nodes \cup {k} -> [id: Nat, fact: Facts]]
        /\ nodes'[k] = r /\ \A i \in DOMAIN nodes : nodes'[i] = nodes[i]
    BY <1>1, <1>3, UpsertCases DEF Creates
  <2>2. ASSUME NodesOf(r.id) # {}, r.id # nextNode
        PROVE  \E i \in DOMAIN nodes : r = nodes[i]
    <3>1. PICK i \in DOMAIN nodes : nodes[i].id = r.id
      BY <2>2 DEF NodesOf
    <3>2. r \in Records /\ nodes[i] \in Records
      BY <2>2 DEF Writable, Records
    <3>3. QED
      BY <1>0, <3>1, <3>2 DEF RecordsInv
  <2>3. QED
    BY <2>1, <2>2 DEF FactsKept
<1>4. QED
  BY <1>2, <1>3

\* Likewise a chunk.
LEMMA UpsertChunkKeeps ==
    ASSUME TypeInv, NEW q \in ChunkRecord, q.id = nextNode \/ q \in ChunkRecords,
           UpsertChunk(q.id, q.namespace), NEW w \in Workers,
           q.id = nextNode \/ CopiesOf(q.id) # {} \/ q.id \notin doomed'[w]
    PROVE  ChunksKept(w)
<1>1. CASE chunks' = chunks
  BY <1>1 DEF ChunksKept
<1>2. CASE ~(chunks' = chunks)
  <2>1. /\ DOMAIN chunks' = DOMAIN chunks \cup {nextNode}
        /\ chunks'[nextNode] = q /\ \A k \in DOMAIN chunks : chunks'[k] = chunks[k]
    BY <1>2, UpsertChunkCases
  <2>2. ASSUME CopiesOf(q.id) # {}, q.id # nextNode
        PROVE  \E i \in DOMAIN chunks : q = chunks[i]
    <3>1. PICK i \in DOMAIN chunks : chunks[i].id = q.id
      BY <2>2 DEF CopiesOf
    <3>2. q \in ChunkRecords /\ chunks[i] \in ChunkRecords
      BY <2>2 DEF ChunkRecords
    <3>3. QED
      BY <3>1, <3>2 DEF TypeInv, ChunksInv
  <2>3. QED
    BY <2>1, <2>2 DEF ChunksKept
<1>3. QED
  BY <1>1, <1>2

LEMMA DoomedNext == TypeInv /\ DoomedInv /\ [Next]_vars => DoomedInv'
<1> SUFFICES ASSUME TypeInv, DoomedInv, [Next]_vars
             PROVE  DoomedInv'
  OBVIOUS
<1>0. TypeOK /\ RecordsInv /\ ChunksInv /\ nextNode \in Nat \ {0}
  BY MaxNodesAssumption DEF TypeInv, TypeOK
<1>a. ASSUME NEW w \in Workers, Doomed(w)',
             \A v \in Workers \ {w} :
                Kept(v) /\ UNCHANGED <<pc[v], left[v], forgets[v]>>
      PROVE  DoomedInv'
  BY <1>a, DoomedKept DEF DoomedInv
<1>b. ASSUME NEW v \in Workers, doomed'[v] \subseteq doomed[v],
             \A k \in DOMAIN nodes' : k \in DOMAIN nodes /\ nodes'[k] = nodes[k],
             \A k \in DOMAIN chunks' : k \in DOMAIN chunks /\ chunks'[k] = chunks[k]
      PROVE  Kept(v)
  BY <1>b DEF Kept, FactsKept, ChunksKept
<1>1. ASSUME NEW w \in Workers, NEW fact \in Facts,
             StoreFact(w, fact) \/ StoreFactInPart(w, fact)
      PROVE  DoomedInv'
  <2>1. /\ pc[w] = "idle" /\ doomed' = [doomed EXCEPT ![w] = {}]
        /\ UNCHANGED <<chunks, pc, left, forgets>>
    BY <1>1, StoreWrites
  <2>2. PICK r : /\ Writable(r) /\ r.id = nextNode
                 /\ \E n \in 1..5 : Upsert(r.id, r.fact, n)
    BY <1>1, StoreWrites
  <2>3. doomed'[w] = {} /\ \A v \in Workers \ {w} : doomed'[v] = doomed[v]
    BY <1>0, <2>1 DEF TypeOK
  <2>4. \A v \in Workers : FactsKept(v)
    BY <2>2, UpsertKeeps
  <2>5. \A v \in Workers \ {w} : Kept(v)
    BY <2>1, <2>3, <2>4 DEF Kept, ChunksKept
  <2>6. Doomed(w)'
    BY <2>1, <2>3 DEF Doomed
  <2>7. QED
    BY <1>a, <2>1, <2>5, <2>6
<1>2. ASSUME NEW w \in Workers, NEW k \in DOMAIN listing[w],
             RewriteFact(w, k) \/ RewriteFactInPart(w, k)
      PROVE  DoomedInv'
  <2>1. /\ pc[w] = "reembed" /\ pc' \in {pc, [pc EXCEPT ![w] = "idle"]}
        /\ UNCHANGED <<chunks, left, forgets>>
    BY <1>2, RewriteWrites
  <2>2. PICK r : /\ Writable(r) /\ \E n \in 1..5 : Upsert(r.id, r.fact, n)
                 /\ Spare(r.id, NodesOf(r.id) = {})
    BY <1>2, RewriteWrites
  <2>3. \A v \in Workers : /\ doomed'[v] \subseteq doomed[v]
                           /\ NodesOf(r.id) = {} => r.id \notin doomed'[v]
    BY <2>2 DEF Spare
  <2>4. \A v \in Workers : FactsKept(v)
    BY <2>2, <2>3, UpsertKeeps
  <2>5. \A v \in Workers \ {w} : Kept(v)
    BY <2>1, <2>3, <2>4 DEF Kept, ChunksKept
  <2>6. /\ pc'[w] \in {"reembed", "idle"} /\ doomed'[w] = {}
        /\ \A v \in Workers \ {w} : pc'[v] = pc[v]
    BY <1>0, <2>1, <2>3 DEF TypeOK, DoomedInv, Doomed
  <2>7. Doomed(w)'
    BY <2>6 DEF Doomed
  <2>8. QED
    BY <1>a, <2>1, <2>5, <2>6, <2>7
<1>3. ASSUME NEW w \in Workers,
             \/ \E namespace \in Namespaces : StoreChunk(w, namespace)
             \/ \E k \in DOMAIN relisting[w] : RewriteChunk(w, k)
      PROVE  DoomedInv'
  <2>1. pc[w] \in {"idle", "rechunk"} /\ UNCHANGED <<nodes, pc, left, forgets>>
    BY <1>3, ChunkWrites
  <2>2. PICK q \in ChunkRecord :
           /\ UpsertChunk(q.id, q.namespace)
           /\ \/ q.id = nextNode /\ doomed' = [doomed EXCEPT ![w] = {}]
              \/ q \in ChunkRecords /\ Spare(q.id, CopiesOf(q.id) = {})
    BY <1>3, ChunkWrites
  <2>3. \A v \in Workers :
           /\ doomed'[v] \subseteq doomed[v]
           /\ q.id = nextNode \/ CopiesOf(q.id) # {} \/ q.id \notin doomed'[v]
    BY <1>0, <2>2 DEF Spare, TypeOK
  <2>4. \A v \in Workers : ChunksKept(v)
    BY <2>2, <2>3, UpsertChunkKeeps
  <2>5. \A v \in Workers : Kept(v)
    BY <2>1, <2>3, <2>4 DEF Kept, FactsKept
  <2>6. QED
    BY <2>1, <2>5, DoomedKept DEF DoomedInv
<1>4. ASSUME NEW w \in Workers, ForgetsFacts(w)
      PROVE  DoomedInv'
  <2>1. PICK ks \in SUBSET DOMAIN nodes, ids \in SUBSET FactIds(DOMAIN nodes) :
           /\ Detach(ks) /\ doomed' = [doomed EXCEPT ![w] = ids]
           /\ \A k \in DOMAIN nodes : nodes[k].id \in ids <=> k \in ks
    BY <1>4, DetachRemoves
  <2>2. pc[w] = "idle" /\ UNCHANGED <<chunks, pc, left, forgets>>
    BY <1>4, DetachRemoves
  <2>3. /\ \A k \in DOMAIN nodes' : k \in DOMAIN nodes \ ks /\ nodes'[k] = nodes[k]
        /\ doomed'[w] = ids /\ \A v \in Workers \ {w} : doomed'[v] = doomed[v]
    BY <1>0, <2>1 DEF Detach, TypeOK
  <2>4. \A k \in DOMAIN chunks : chunks[k].id \notin ids
    BY <1>0, <2>1 DEF ChunksInv, ChunkRecords, Records, FactIds
  <2>5. Doomed(w)'
    BY <2>1, <2>2, <2>3, <2>4 DEF Doomed
  <2>6. \A v \in Workers \ {w} : Kept(v)
    BY <1>b, <2>2, <2>3
  <2>7. QED
    BY <1>a, <2>2, <2>5, <2>6
<1>5. ASSUME NEW w \in Workers, NEW namespace \in Namespaces, ForgetNamespace(w, namespace)
      PROVE  DoomedInv'
  <2>1. /\ pc'[w] = "forget" /\ forgets'[w] = namespace /\ left'[w] = Deletions
        /\ UNCHANGED <<nodes, chunks>>
        /\ \A v \in Workers \ {w} : UNCHANGED <<pc[v], left[v], forgets[v], doomed[v]>>
    BY <1>0, <1>5 DEF ForgetNamespace, graph, TypeOK
  <2>2. doomed'[w] = FactIds(FactsOf(namespace)) \cup ChunkIds(ChunksOf(namespace))
    BY <1>0, <1>5 DEF ForgetNamespace, TypeOK
  <2>3. "Fact" \in Pending(w)' /\ "Chunk" \in Pending(w)'
    <3>1. "Fact" \in UNION {Deletions[n] : n \in DOMAIN Deletions}
      BY DEF Deletions
    <3>2. "Chunk" \in UNION {Deletions[n] : n \in DOMAIN Deletions}
      BY DEF Deletions
    <3>3. QED
      BY <2>1, <3>1, <3>2 DEF Pending
  <2>4. ASSUME NEW k \in DOMAIN nodes, nodes[k].id \in doomed'[w]
        PROVE  nodes[k].fact.namespace = namespace
    <3>1. nodes[k] \in Records /\ \A i \in DOMAIN nodes : nodes[i] \in Records
      BY DEF Records
    <3>2. \A j \in DOMAIN chunks : chunks[j] \in ChunkRecords
      BY DEF ChunkRecords
    <3>3. nodes[k].id \notin ChunkIds(ChunksOf(namespace))
      BY <1>0, <3>1, <3>2 DEF ChunkIds, ChunksOf, ChunksInv
    <3>4. PICK i \in FactsOf(namespace) : nodes[i].id = nodes[k].id
      BY <2>2, <2>4, <3>3 DEF FactIds
    <3>5. QED
      BY <1>0, <3>1, <3>4 DEF FactsOf, RecordsInv
  <2>5. ASSUME NEW k \in DOMAIN chunks, chunks[k].id \in doomed'[w]
        PROVE  chunks[k].namespace = namespace
    <3>1. chunks[k] \in ChunkRecords /\ \A i \in DOMAIN chunks : chunks[i] \in ChunkRecords
      BY DEF ChunkRecords
    <3>2. \A j \in DOMAIN nodes : nodes[j] \in Records
      BY DEF Records
    <3>3. chunks[k].id \notin FactIds(FactsOf(namespace))
      BY <1>0, <3>1, <3>2 DEF FactIds, FactsOf, ChunksInv
    <3>4. PICK i \in ChunksOf(namespace) : chunks[i].id = chunks[k].id
      BY <2>2, <2>5, <3>3 DEF ChunkIds
    <3>5. QED
      BY <1>0, <3>1, <3>4 DEF ChunksOf, ChunksInv
  <2>6. Doomed(w)'
    BY <2>1, <2>3, <2>4, <2>5 DEF Doomed
  <2>7. \A v \in Workers \ {w} : Kept(v)
    BY <1>b, <2>1
  <2>8. QED
    BY <1>a, <2>1, <2>6, <2>7
<1>6. ASSUME NEW w \in Workers, DeleteNext(w)
      PROVE  DoomedInv'
  <2>1. /\ pc[w] = "forget" /\ doomed' = doomed
        /\ left'[w] = Tail(left[w]) /\ left[w] \in Seq(SUBSET Labels) /\ left[w] # <<>>
        /\ pc'[w] = IF Len(left[w]) = 1 THEN "idle" ELSE "forget"
        /\ pc'[w] = "forget" => forgets'[w] = forgets[w]
        /\ \A v \in Workers \ {w} : UNCHANGED <<pc[v], left[v], forgets[v], doomed[v]>>
    BY <1>0, <1>6 DEF DeleteNext, TypeOK, Labels
  <2>2. PICK namespace, labels :
           namespace = forgets[w] /\ labels = Head(left[w]) /\ Delete(namespace, labels)
    BY <1>6 DEF DeleteNext
  <2>3. /\ \A k \in DOMAIN nodes' :
              /\ k \in DOMAIN nodes /\ nodes'[k] = nodes[k]
              /\ "Fact" \in labels => nodes[k].fact.namespace # namespace
        /\ \A k \in DOMAIN chunks' :
              /\ k \in DOMAIN chunks /\ chunks'[k] = chunks[k]
              /\ "Chunk" \in labels => chunks[k].namespace # namespace
    BY <2>2 DEF Delete, FactsOf, ChunksOf
  <2>4. ASSUME NEW label \in Pending(w), label \notin labels
        PROVE  label \in Pending(w)' /\ pc'[w] = "forget"
    <3>1. /\ Len(Tail(left[w])) = Len(left[w]) - 1 /\ Len(left[w]) \in Nat
          /\ \A n \in 1..(Len(left[w]) - 1) : Tail(left[w])[n] = left[w][n + 1]
          /\ Head(left[w]) = left[w][1] /\ Tail(left[w]) \in Seq(SUBSET Labels)
      BY <2>1, HeadTailProperties, LenProperties
    <3>2. PICK n \in DOMAIN left[w] : label \in left[w][n]
      BY <2>4 DEF Pending
    <3>3. n # 1 /\ n \in 1..Len(left[w])
      BY <2>1, <2>2, <2>4, <3>1, <3>2
    <3>4. n - 1 \in DOMAIN Tail(left[w]) /\ label \in Tail(left[w])[n - 1]
      BY <3>1, <3>2, <3>3
    <3>5. QED
      BY <2>1, <3>1, <3>3, <3>4 DEF Pending
  <2>5. /\ \A k \in DOMAIN nodes' : nodes'[k].id \in doomed'[w] =>
              /\ "Fact" \in Pending(w)' /\ pc'[w] = "forget"
              /\ nodes'[k].fact.namespace = forgets[w]
        /\ \A k \in DOMAIN chunks' : chunks'[k].id \in doomed'[w] =>
              /\ "Chunk" \in Pending(w)' /\ pc'[w] = "forget"
              /\ chunks'[k].namespace = forgets[w]
    BY <2>1, <2>2, <2>3, <2>4 DEF DoomedInv, Doomed
  <2>6. Doomed(w)'
    BY <2>1, <2>5 DEF Doomed
  <2>7. \A v \in Workers \ {w} : Kept(v)
    BY <1>b, <2>1, <2>3
  <2>8. QED
    BY <1>a, <2>1, <2>6, <2>7
<1>7. ASSUME NEW w \in Workers, ListFacts(w)
      PROVE  DoomedInv'
  <2>1. /\ pc'[w] = "reembed" /\ doomed'[w] = {} /\ UNCHANGED <<nodes, chunks, left, forgets>>
        /\ \A v \in Workers \ {w} : UNCHANGED <<pc[v], doomed[v]>>
    BY <1>0, <1>7 DEF ListFacts, graph, TypeOK
  <2>2. Doomed(w)'
    BY <2>1 DEF Doomed
  <2>3. QED
    BY <1>a, <1>b, <2>1, <2>2
<1>8. ASSUME NEW w \in Workers, ListChunks(w) \/ EndReembed(w)
      PROVE  DoomedInv'
  <2>1. /\ pc[w] \in {"reembed", "rechunk"} /\ pc'[w] \in {"rechunk", "idle"}
        /\ UNCHANGED <<nodes, chunks, left, forgets, doomed>>
        /\ \A v \in Workers \ {w} : pc'[v] = pc[v]
    <3>1. CASE ListChunks(w)
      BY <1>0, <3>1 DEF ListChunks, graph, TypeOK
    <3>2. CASE EndReembed(w)
      BY <1>0, <3>2 DEF EndReembed, graph, TypeOK
    <3>3. QED
      BY <1>8, <3>1, <3>2
  <2>2. doomed'[w] = {}
    BY <2>1 DEF DoomedInv, Doomed
  <2>3. Doomed(w)'
    BY <2>1, <2>2 DEF Doomed
  <2>4. QED
    BY <1>a, <1>b, <2>1, <2>3
<1>9. ASSUME NEW ws, Abandon(ws)
      PROVE  DoomedInv'
  <2>1. /\ UNCHANGED <<nodes, chunks>>
        /\ \A w \in Workers :
              /\ w \in ws => pc'[w] = "idle" /\ doomed'[w] = {}
              /\ w \notin ws => UNCHANGED <<pc[w], left[w], forgets[w], doomed[w]>>
    BY <1>9 DEF Abandon, graph
  <2>2. ASSUME NEW w \in Workers
        PROVE  Doomed(w)'
    <3>1. CASE w \in ws
      BY <2>1, <3>1 DEF Doomed
    <3>2. CASE w \notin ws
      BY <1>b, <2>1, <3>2, DoomedKept DEF DoomedInv
    <3>3. QED
      BY <3>1, <3>2
  <2>3. QED
    BY <2>2 DEF DoomedInv
<1>10. CASE UNCHANGED vars
  BY <1>10 DEF vars, graph, worker, DoomedInv, Doomed, Pending
<1>11. QED
  BY <1>1, <1>2, <1>3, <1>4, <1>5, <1>6, <1>7, <1>8, <1>9, <1>10
  DEF Next, ForgetsFacts, CallRaises, Crash

\* When a forget has returned, nothing that it found is there under its id, in the
\* graph or in the chunk store, in any copy, whatever was stored or forgotten meanwhile
\* and whatever failed; only a re-embedding that had listed it may have brought it back.
THEOREM ForgottenTheorem == Spec => []ForgottenIsGone
<1>1. Init => DoomedInv
  BY DEF Init, DoomedInv, Doomed
<1>2. DoomedInv => ForgottenIsGone
  BY DEF DoomedInv, Doomed, ForgottenIsGone, FactIds, ChunkIds
<1>3. QED
  BY <1>1, <1>2, TypeInit, TypeNext, DoomedNext, PTL DEF Spec

------------------------------------------------------------------------------
(* One node for each fact *)

LEMMA OneNodeNext == TypeInv /\ OneNode /\ [Next]_vars => OneNode'
<1> SUFFICES ASSUME TypeInv, OneNode, [Next]_vars
             PROVE  OneNode'
  OBVIOUS
<1>0. TypeOK /\ RecordsInv /\ setup.backend \in {"neo4j", "falkordb", "kuzu"}
  BY SetupsAssumption DEF TypeInv, TypeOK, Setup
<1>a. ASSUME setup' = setup,
             \A k \in DOMAIN nodes' : k \in DOMAIN nodes /\ nodes'[k] = nodes[k]
      PROVE  OneNode'
  BY <1>a DEF OneNode
<1>b. ASSUME NEW r, Writable(r), r.id = nextNode \/ ~Refuses(r.id),
             NEW n \in 1..5, Upsert(r.id, r.fact, n), setup' = setup
      PROVE  OneNode'
  <2>1. PICK k : k = NodeFor(r.id)
    OBVIOUS
  <2>2. CASE k \in DOMAIN nodes
    BY <1>a, <1>b, <2>1, <2>2, UpsertCases DEF Merges
  <2>3. CASE k \notin DOMAIN nodes
    <3>1. Creates(k, r)
      BY <1>b, <2>1, <2>3, UpsertCases
    <3>2. SUFFICES ASSUME setup.backend # "falkordb"
                   PROVE  \A i, j \in DOMAIN nodes' : nodes'[i].id = nodes'[j].id => i = j
      BY <1>b DEF OneNode
    <3>3. \A i \in DOMAIN nodes : nodes[i].id # r.id
      <4>1. CASE r.id = nextNode
        <5>1. ASSUME NEW i \in DOMAIN nodes PROVE nodes[i].id \in 1..(nextNode - 1)
          BY <1>0 DEF RecordsInv, Records
        <5>2. QED
          BY <4>1, <5>1, <1>0, MaxNodesAssumption DEF TypeOK
      <4>2. CASE setup.backend = "kuzu" \/ (setup.backend = "neo4j" /\ ~Refuses(r.id))
        BY <3>1, <4>2 DEF Creates, Refuses, NodesOf
      <4>3. QED
        BY <1>0, <1>b, <3>2, <4>1, <4>2
    <3>4. QED
      BY <3>1, <3>2, <3>3 DEF Creates, OneNode
  <2>4. QED
    BY <2>2, <2>3
<1>1. ASSUME NEW w \in Workers, NEW fact \in Facts,
             StoreFact(w, fact) \/ StoreFactInPart(w, fact)
      PROVE  OneNode'
  BY <1>b, <1>1, StoreWrites
<1>2. ASSUME NEW w \in Workers, NEW k \in DOMAIN listing[w],
             RewriteFact(w, k) \/ RewriteFactInPart(w, k)
      PROVE  OneNode'
  BY <1>b, <1>2, RewriteWrites
<1>3. ASSUME NEW w \in Workers, ForgetsFacts(w)
      PROVE  OneNode'
  <2>1. PICK ks \in SUBSET DOMAIN nodes : Detach(ks)
    BY <1>3, DetachRemoves
  <2>2. setup' = setup
    BY <1>3, DetachRemoves
  <2>3. QED
    BY <1>a, <2>1, <2>2 DEF Detach
<1>4. ASSUME NEW w \in Workers, DeleteNext(w)
      PROVE  OneNode'
  <2>1. PICK namespace, labels : Delete(namespace, labels)
    BY <1>4 DEF DeleteNext
  <2>2. QED
    BY <1>a, <1>4, <2>1 DEF Delete, DeleteNext
<1>5. ASSUME NEW w \in Workers, NEW namespace,
             \/ StoreChunk(w, namespace) \/ ForgetNamespace(w, namespace)
             \/ ListFacts(w) \/ ListChunks(w) \/ EndReembed(w) \/ CallRaises(w)
             \/ \E k \in DOMAIN relisting[w] : RewriteChunk(w, k)
      PROVE  OneNode'
  BY <1>a, <1>5 DEF StoreChunk, UpsertChunk, ForgetNamespace, ListFacts, ListChunks,
                    RewriteChunk, EndReembed, CallRaises, Abandon, graph
<1>6. CASE Crash \/ UNCHANGED vars
  BY <1>a, <1>6 DEF Crash, Abandon, vars, graph
<1>7. QED
  BY <1>1, <1>2, <1>3, <1>4, <1>5, <1>6 DEF Next, ForgetsFacts

\* In Kuzu, which merges by id, and in Neo4j, which refuses a second node of one id, a
\* fact that is stored again remains one node, wherever re-embedding was broken off.
THEOREM OneNodeTheorem == Spec => []OneNodePerFact
<1>1. Init => OneNode
  BY DEF Init, OneNode
<1>2. OneNode => OneNodePerFact
  <2> SUFFICES ASSUME OneNode, setup.backend # "falkordb", NEW id
               PROVE  Cardinality(NodesOf(id)) <= 1
    BY DEF OneNodePerFact
  <2>1. CASE NodesOf(id) = {}
    BY <2>1, FS_EmptySet
  <2>2. CASE NodesOf(id) # {}
    <3>1. PICK k : NodesOf(id) = {k}
      BY <2>2 DEF OneNode, NodesOf
    <3>2. QED
      BY <3>1, FS_Singleton
  <2>3. QED
    BY <2>1, <2>2
<1>3. QED
  BY <1>1, <1>2, TypeInit, TypeNext, OneNodeNext, PTL DEF Spec

==============================================================================
