--------------------------- MODULE DocumentMemory ----------------------------
(***************************************************************************)
(* The ingestion and the re-embedding of documents: ingest_document and     *)
(* reembed over the chunk tables of the SQLite store (one call, one commit, *)
(* one connection shared by the threads of the process) and of pgvector    *)
(* (every row is committed as it is inserted).                             *)
(*                                                                         *)
(* A document is the sequence of its chunks' texts, as structuring and     *)
(* chunking make it; two texts are equal when their hashes are.  The table *)
(* is a bag: an ingestion gives each row an id of its own, and only a       *)
(* re-embedding writes a row under an id that it has listed.  A step is one *)
(* call of the store or the embedder by one worker (thread).               *)
(***************************************************************************)
EXTENDS Naturals, Sequences, FiniteSets, Functions

CONSTANTS
    Workers,      \* threads that call the engine
    Namespaces,
    Texts,        \* the texts of chunks
    Documents,    \* sequences of texts
    Uploads,      \* the documents ingested, each into a namespace
    Stores,       \* stores that hold the chunks: "sqlite", "pgvector"
    Faults,       \* failures that happen: "embed", "store" and "crash"
    MaxRestored   \* bound on the rows that re-embeddings bring back

ASSUME DocumentsAssumption == Documents # {} /\ Documents \subseteq Seq(Texts) \ {<<>>}
ASSUME WorkersAssumption == IsFiniteSet(Workers)
ASSUME MaxRestoredAssumption == MaxRestored \in Nat

Row == [namespace: Namespaces, text: Texts]

Target == [namespace: Namespaces, document: Documents]

ASSUME UploadsAssumption == Uploads \subseteq Target

\* Of a worker that ingests nothing.
NoTarget == [namespace |-> "none", document |-> <<>>]

VARIABLES
    store,      \* the store in use
    chunks,     \* the chunks table: how many rows there are of each namespace and text
    open,       \* how many of them are not committed
    pc,         \* what each worker is doing
    target,     \* the namespace and the document it ingests
    todo,       \* chunks it has not checked
    fresh,      \* chunks it has embedded and not stored
    overtaken,  \* its namespace was forgotten since it began
    listing,    \* how many rows of each kind it has listed and not rewritten
    gone,       \* how many of those have been forgotten since and are not there
    restored,   \* how many rows a re-embedding brought back, since their namespace was
                \* last forgotten
    indexed     \* ingestions that have returned, since their namespace was last forgotten,
                \* save those that a crash took a row from

job == <<pc, target, todo, fresh>>
reembedding == <<listing, gone, restored>>
vars == <<store, chunks, open, job, overtaken, reembedding, indexed>>

\* Mutants of Exists: a check through another connection, which does not see what is
\* not committed, and a check across namespaces.
ExistsCommitted(ns, text) ==
    LET row == [namespace |-> ns, text |-> text] IN chunks[row] > open[row]

ExistsAnywhere(ns, text) ==
    \E other \in Namespaces : chunks[[namespace |-> other, text |-> text]] > 0

\* chunk_exists: the connection sees its own rows, committed or not.
Exists(ns, text) == chunks[[namespace |-> ns, text |-> text]] > 0

\* A table with a row more for each of a sequence of texts.
WithRows(table, ns, texts) ==
    [row \in Row |-> table[row] + IF row.namespace # ns THEN 0
                    ELSE Cardinality({n \in DOMAIN texts : texts[n] = row.text})]

NoRows == [row \in Row |-> 0]

Init ==
    /\ store \in Stores
    /\ chunks = NoRows
    /\ open = NoRows
    /\ pc = [w \in Workers |-> "idle"]
    /\ target = [w \in Workers |-> NoTarget]
    /\ todo = [w \in Workers |-> <<>>]
    /\ fresh = [w \in Workers |-> <<>>]
    /\ overtaken = [w \in Workers |-> FALSE]
    /\ listing = [w \in Workers |-> NoRows]
    /\ gone = [w \in Workers |-> NoRows]
    /\ restored = NoRows
    /\ indexed = {}

------------------------------------------------------------------------------
(* Ingestion *)

IngestDocument(w, upload) ==
    /\ pc[w] = "idle"
    /\ pc' = [pc EXCEPT ![w] = "check"]
    /\ target' = [target EXCEPT ![w] = upload]
    /\ todo' = [todo EXCEPT ![w] = upload.document]
    /\ UNCHANGED <<store, chunks, open, fresh, overtaken, reembedding, indexed>>

\* The chunk in hand is in the store already.
SkipChunk(w) ==
    /\ pc[w] = "check"
    /\ todo[w] # <<>>
    /\ Exists(target[w].namespace, Head(todo[w]))
    /\ todo' = [todo EXCEPT ![w] = Tail(@)]
    /\ UNCHANGED <<store, chunks, open, pc, target, fresh, overtaken, reembedding, indexed>>

\* The chunk in hand is not there: it is embedded and kept for the end.
EmbedChunk(w) ==
    /\ pc[w] = "check"
    /\ todo[w] # <<>>
    /\ ~Exists(target[w].namespace, Head(todo[w]))
    /\ fresh' = [fresh EXCEPT ![w] = Append(@, Head(todo[w]))]
    /\ todo' = [todo EXCEPT ![w] = Tail(@)]
    /\ UNCHANGED <<store, chunks, open, pc, target, overtaken, reembedding, indexed>>

\* ingest_document returns.
Return(w) ==
    /\ pc' = [pc EXCEPT ![w] = "idle"]
    /\ target' = [target EXCEPT ![w] = NoTarget]
    /\ indexed' = IF overtaken[w] THEN indexed ELSE indexed \cup {target[w]}
    /\ overtaken' = [overtaken EXCEPT ![w] = FALSE]

\* Every chunk was there: no store call is made.
StoreNothing(w) ==
    /\ pc[w] = "check"
    /\ todo[w] = <<>> /\ fresh[w] = <<>>
    /\ Return(w)
    /\ UNCHANGED <<store, chunks, open, todo, fresh, reembedding>>

Storing(w) ==
    /\ pc[w] = "check"
    /\ todo[w] = <<>> /\ fresh[w] # <<>>

\* upsert_chunks of the SQLite store: the rows and everything open are committed.
StoreChunks(w) ==
    /\ store = "sqlite"
    /\ Storing(w)
    /\ chunks' = WithRows(chunks, target[w].namespace, fresh[w])
    /\ open' = NoRows
    /\ fresh' = [fresh EXCEPT ![w] = <<>>]
    /\ Return(w)
    /\ UNCHANGED <<store, todo, reembedding>>

\* One row of upsert_chunks of pgvector, committed by itself.
StoreChunk(w) ==
    /\ store = "pgvector"
    /\ Storing(w)
    /\ chunks' = WithRows(chunks, target[w].namespace, <<Head(fresh[w])>>)
    /\ fresh' = [fresh EXCEPT ![w] = Tail(@)]
    /\ IF Len(fresh[w]) = 1 THEN Return(w)
       ELSE UNCHANGED <<pc, target, indexed, overtaken>>
    /\ UNCHANGED <<store, open, todo, reembedding>>

------------------------------------------------------------------------------
(* Re-embedding *)

\* reembed reaches the chunks; what it wrote of the facts before is CommitElsewhere.
ListChunks(w) ==
    /\ pc[w] = "idle"
    /\ pc' = [pc EXCEPT ![w] = "reembed"]
    /\ listing' = [listing EXCEPT ![w] = chunks]
    /\ UNCHANGED <<store, chunks, open, target, todo, fresh, overtaken, gone, restored,
                   indexed>>

\* A listed row is written back where it is: a text and its hash stay the same.
RewriteChunk(w, row) ==
    /\ pc[w] = "reembed"
    /\ listing[w][row] > gone[w][row]
    /\ listing' = [listing EXCEPT ![w][row] = @ - 1]
    /\ open' = NoRows
    /\ UNCHANGED <<store, chunks, job, overtaken, gone, restored, indexed>>

\* A row comes back that some workers miss, this one among them.
Restore(w, row, missing) ==
    /\ pc[w] = "reembed"
    /\ w \in missing /\ \A v \in missing : gone[v][row] > 0
    /\ SumFunction(restored) < MaxRestored
    /\ chunks' = [chunks EXCEPT ![row] = @ + 1]
    /\ restored' = [restored EXCEPT ![row] = @ + 1]

\* What is gone, but for a row that these workers miss.
Found(row, missing) ==
    [v \in Workers |-> IF v \in missing THEN [gone[v] EXCEPT ![row] = @ - 1] ELSE gone[v]]

\* A listed row is written under its id although it was forgotten.
RestoreChunk(w, row) ==
    \E missing \in SUBSET Workers :
        /\ Restore(w, row, missing)
        /\ listing' = [listing EXCEPT ![w][row] = @ - 1]
        /\ gone' = Found(row, missing)
        /\ open' = NoRows
        /\ UNCHANGED <<store, job, overtaken, indexed>>

\* The signature is written.
EndReembed(w) ==
    /\ pc[w] = "reembed"
    /\ listing[w] = NoRows
    /\ pc' = [pc EXCEPT ![w] = "idle"]
    /\ open' = NoRows
    /\ UNCHANGED <<store, chunks, target, todo, fresh, overtaken, reembedding, indexed>>

------------------------------------------------------------------------------
(* Failures *)

\* Mutant of Abandon: what was embedded is kept for the next document.
AbandonLater(w) ==
    /\ pc' = [pc EXCEPT ![w] = "idle"]
    /\ target' = [target EXCEPT ![w] = NoTarget]
    /\ overtaken' = [overtaken EXCEPT ![w] = FALSE]
    /\ todo' = [todo EXCEPT ![w] = <<>>]
    /\ UNCHANGED <<store, fresh, indexed>>

Abandon(w) ==
    /\ pc' = [pc EXCEPT ![w] = "idle"]
    /\ target' = [target EXCEPT ![w] = NoTarget]
    /\ overtaken' = [overtaken EXCEPT ![w] = FALSE]
    /\ todo' = [todo EXCEPT ![w] = <<>>]
    /\ fresh' = [fresh EXCEPT ![w] = <<>>]
    /\ UNCHANGED <<store, indexed>>

EmbedRaises(w) ==
    /\ "embed" \in Faults
    /\ pc[w] = "check" /\ todo[w] # <<>>
    /\ ~Exists(target[w].namespace, Head(todo[w]))
    /\ Abandon(w)
    /\ UNCHANGED <<chunks, open, reembedding>>

\* An INSERT of upsert_chunks raises, or SQLite's commit after the last.  SQLite keeps the
\* rows before it, and neither commits them nor rolls them back; pgvector has committed
\* them.
StoreRaises(w) ==
    /\ "store" \in Faults
    /\ Storing(w)
    /\ \E n \in 0..Len(fresh[w]) :
          /\ store = "pgvector" => n = 0
          /\ LET inserted == SubSeq(fresh[w], 1, n)
             IN /\ chunks' = WithRows(chunks, target[w].namespace, inserted)
                /\ open' = WithRows(open, target[w].namespace, inserted)
    /\ Abandon(w)
    /\ UNCHANGED reembedding

\* The embedder or the store raises out of reembed.
ReembedRaises(w) ==
    /\ \/ "embed" \in Faults /\ listing[w] # NoRows
       \/ "store" \in Faults /\ pc[w] = "reembed"
    /\ pc' = [pc EXCEPT ![w] = "idle"]
    /\ listing' = [listing EXCEPT ![w] = NoRows]
    /\ gone' = [gone EXCEPT ![w] = NoRows]
    /\ UNCHANGED <<store, chunks, open, target, todo, fresh, overtaken, restored, indexed>>

\* SQLite's commit raises after a row has been brought back: it stays open.
RestoreRaises(w, row) ==
    \E missing \in SUBSET Workers :
        /\ "store" \in Faults /\ store = "sqlite"
        /\ Restore(w, row, missing)
        /\ open' = [open EXCEPT ![row] = @ + 1]
        /\ pc' = [pc EXCEPT ![w] = "idle"]
        /\ listing' = [listing EXCEPT ![w] = NoRows]
        /\ gone' = [Found(row, missing) EXCEPT ![w] = NoRows]
        /\ UNCHANGED <<store, target, todo, fresh, overtaken, indexed>>

RowsOf(t) ==
    {[namespace |-> t.namespace, text |-> t.document[n]] : n \in DOMAIN t.document}

\* No row of this namespace and text is committed.
Gone(row) == open[row] > 0 /\ chunks[row] = open[row]

\* The process ends: its workers are gone, and so are the rows not committed.
Crash ==
    /\ "crash" \in Faults
    /\ chunks' = [row \in Row |-> chunks[row] - open[row]]
    /\ open' = NoRows
    /\ indexed' = {t \in indexed : \A row \in RowsOf(t) : ~Gone(row)}
    /\ pc' = [w \in Workers |-> "idle"]
    /\ target' = [w \in Workers |-> NoTarget]
    /\ todo' = [w \in Workers |-> <<>>]
    /\ fresh' = [w \in Workers |-> <<>>]
    /\ overtaken' = [w \in Workers |-> FALSE]
    /\ listing' = [w \in Workers |-> NoRows]
    /\ gone' = [w \in Workers |-> NoRows]
    /\ UNCHANGED <<store, restored>>

------------------------------------------------------------------------------
(* Other calls of the store *)

\* delete_namespace commits, and with it whatever was open.
ForgetNamespace(w, ns) ==
    /\ pc[w] = "idle"
    /\ chunks' = [row \in Row |-> IF row.namespace = ns THEN 0 ELSE chunks[row]]
    /\ open' = NoRows
    /\ overtaken' = [x \in Workers |->
                        \/ overtaken[x]
                        \/ target[x] # NoTarget /\ target[x].namespace = ns]
    /\ indexed' = {t \in indexed : t.namespace # ns}
    /\ gone' = [x \in Workers |-> [row \in Row |->
                   IF row.namespace = ns THEN listing[x][row] ELSE gone[x][row]]]
    /\ restored' = [row \in Row |-> IF row.namespace = ns THEN 0 ELSE restored[row]]
    /\ UNCHANGED <<store, job, listing>>

\* Any other write, of a fact or of metadata, commits the rows left open.
CommitElsewhere(w) ==
    /\ pc[w] = "idle"
    /\ open # NoRows
    /\ open' = NoRows
    /\ UNCHANGED <<store, chunks, job, overtaken, reembedding, indexed>>

Next ==
    \/ Crash
    \/ \E w \in Workers :
          \/ \E upload \in Uploads : IngestDocument(w, upload)
          \/ SkipChunk(w) \/ EmbedChunk(w)
          \/ StoreNothing(w) \/ StoreChunks(w) \/ StoreChunk(w)
          \/ EmbedRaises(w) \/ StoreRaises(w) \/ ReembedRaises(w)
          \/ ListChunks(w) \/ EndReembed(w)
          \/ \E row \in Row :
                RewriteChunk(w, row) \/ RestoreChunk(w, row) \/ RestoreRaises(w, row)
          \/ \E ns \in Namespaces : ForgetNamespace(w, ns)
          \/ CommitElsewhere(w)

Spec == Init /\ [][Next]_vars

------------------------------------------------------------------------------

\* What is listed and gone: nothing is, unless the worker re-embeds.
ListingOK ==
    /\ listing \in [Workers -> [Row -> Nat]]
    /\ gone \in [Workers -> [Row -> Nat]]
    /\ restored \in [Row -> Nat]
    /\ \A w \in Workers : \A row \in Row : gone[w][row] <= listing[w][row]
    /\ \A w \in Workers : pc[w] # "reembed" => listing[w] = NoRows

\* The state is well formed, and only SQLite has rows that are not committed.
TypeOK ==
    /\ store \in Stores
    /\ chunks \in [Row -> Nat]
    /\ open \in [Row -> Nat]
    /\ \A row \in Row : open[row] <= chunks[row]
    /\ store = "pgvector" => open = NoRows
    /\ pc \in [Workers -> {"idle", "check", "reembed"}]
    /\ target \in [Workers -> Target \cup {NoTarget}]
    /\ todo \in [Workers -> Seq(Texts)]
    /\ fresh \in [Workers -> Seq(Texts)]
    /\ \A w \in Workers :
          IF pc[w] = "check" THEN target[w] \in Target
          ELSE target[w] = NoTarget /\ todo[w] = <<>> /\ fresh[w] = <<>>
    /\ ListingOK
    /\ overtaken \in [Workers -> BOOLEAN]
    /\ indexed \subseteq Target

\* A document whose ingestion returned has every chunk in the store until its
\* namespace is forgotten, although each ingestion relies on chunks that others
\* stored; only rows that a failed call left uncommitted can go, in a crash.
IndexedIsStored ==
    \A t \in indexed : \A row \in RowsOf(t) : chunks[row] > 0

\* How often a text occurs in one document.
Occurrences(text) ==
    {Cardinality({n \in DOMAIN d : d[n] = text}) : d \in Documents}

\* A text is in a namespace at most as often as it is in a document, once for each
\* worker, however often documents are ingested again, in part or in whole ("re-
\* uploading or re-syncing the same document doesn't bloat the store"), but for the
\* forgotten rows that a re-embedding brought back.
NoBloat ==
    \A row \in Row : \E most \in Occurrences(row.text) :
        chunks[row] <= most * Cardinality(Workers) + restored[row]

==============================================================================
