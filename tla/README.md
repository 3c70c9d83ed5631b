# DMem in TLA+

A verification development of DMem, the conversational memory under `src/src/dmem/`:
TLA+ modules of its core, TLC configurations that check them on small instances, and
TLAPS proofs of the properties that matter most, for every value of the constants.

    tlc -config facts_two_workers.cfg MCFactMemory.tla   # a run
    tlapm FactMemory_proofs.tla                          # proofs

`PROJECT.json` maps every definition to the lines it stands for and lists the runs,
the mutants (a plausible bug for each property, which TLC finds), the findings, the
hazards and the theorems.

## 1. The system

An application hands DMem what was said (`ingest_message`) and documents
(`ingest_document`), asks for what is relevant (`retrieve`, `handoff`), and may forget.
One `DMemEngine` serves all threads of a process. The MCP server and the chat proxy are
its two front ends; several processes may open the same SQLite file.

| Component | State it keeps | Operations | Modelled in |
|---|---|---|---|
| Engine: facts (`engine.py`) | nothing of its own: locals between store calls | `ingest_message`, `forget`, `forget_fact`, `forget_matching` | FactMemory |
| Engine: `reembed` | a listing of the rows, while it runs | rewrites every fact, then every chunk, then the signature | FactMemory, DocumentMemory, GraphMemory, EmbeddingGuard |
| Engine: documents | chunks embedded and not stored | `ingest_document` | DocumentMemory |
| Compatibility guard | `embedding_signature` in the metadata | check on every open | EmbeddingGuard |
| Configuration, choice of the embedder, `dmem-doctor` | none: functions of the environment | `from_env`, `validate`, `build_embedding_provider`, the doctor's verdict | Configuration, StartUp |
| SQLite store | tables `facts`, `chunks`, `meta`; one connection and one lock | upsert, close, delete, list, search | FactMemory (facts), DocumentMemory (chunks), EmbeddingGuard and ProxyMemory (metadata) |
| pgvector store, `ProStore` | tables of chunks, a graph of facts | as above, in two databases | DocumentMemory (chunks), GraphMemory (both) |
| Graph stores (neo4j, FalkorDB, Kuzu) | nodes and edges | as above | GraphMemory |
| Chat proxy: `MemoryChatProxy` | `proxy_last_model:<ns>` in the metadata | augment, compact, forward, record | ProxyMemory |
| Chat proxy: ASGI app | a queue and an executor job for each request | `app`, `_stream_response` | ChatProxy |
| Retrieval, scoring, handoff | none of their own: three store calls, then local code | `retrieve`, `handoff` | Retrieval |
| Structuring, chunking | none: functions of a text | `structure_markdown`, `chunk_concepts` | Reading |
| Extraction, cardinality registry | none: functions of a message and two variables | `extract` of both extractors, `predicate_cardinality` | Extraction |
| Providers, MCP dispatch | the dimension of a remote embedder | calls to services | as choices and failures of the above |
| Evaluation harness | none | | not modelled |

How they interact. The engine calls its store synchronously. In SQLite every store call
takes the lock and commits, so a *store call* is atomic, but an *engine operation* is a
sequence of calls with no lock around it: between any two of them another thread, a
failure of the embedder or the end of the process can come. The proxy's event loop gives
each request to a thread of the executor; the thread runs the whole request (augment,
forward, record) and hands a stream's chunks back over a queue.

What is hard, by component (the list of hazards in `PROJECT.json` has the lines), and
what makes each component correct:

* **Facts.** Check-then-act in deduplication; closing several rows one call at a time;
  failing between closing the old row and storing the new one; timestamps read before the
  calls they stamp; rewriting from an old listing. *Correct* when history is append-only,
  erasure is permanent, a key is not left without a value unnoticed, no object is believed
  twice, a single-valued predicate has one value at a time, and each call has the effect
  of one abstract step.
* **Documents.** A batch is checked chunk by chunk and stored at the end, against a
  connection that may carry another call's uncommitted rows. *Correct* when what was
  indexed is stored and indexing again does not bloat the store, though a re-embedding may bring
  back what was forgotten.
* **Graphs.** A fact is a node and two edges, written in one query or in five; entities are
  shared by facts and outlive them; forgetting a tenant takes one query, two, or two
  databases. *Correct* when the edges say what the facts say, one tenant's facts are never
  another's neighbors, a forget that returns has left nothing of what it found, and a fact is one node.
* **Guard.** A signature in one place speaks for vectors in many, across restarts with
  other models. *Correct* when vectors of two models never mix unannounced.
* **Starting.** The engine, the factory of embedders and the doctor read one environment by
  different rules; a remote embedder learns its dimension after tables and signatures needed it.
  *Correct* when the doctor says what the engine will do (but for what it does not look at), production does not embed offline
  unasked, and an engine that starts can store.
* **Retrieval.** Three searches in three calls, joined by rank, with payloads that differ by
  search. *Correct* when a changed fact is flagged, the current object comes before those it
  superseded, a handoff fits its budget and holds no credential.
* **Reading and extraction.** A stack of headings, buffers flushed at six places, sizes that
  are rounded; statements deduplicated before they are stored. *Correct* when text is in exactly one
  chunk, under its own headings and in order, and what was said last is believed.
* **Proxy.** Three threads of control for each request, failures on every side, writes that are
  swallowed; streams cut anywhere; compaction that feeds old turns to memory as if they were new. *Correct* when
  replies pass unchanged, exchanges are remembered, every request ends, compaction loses
  nothing, and the newest statement wins.

## 2. Modules

    FactLedger  <---- implemented by ----  FactMemory <-- Retrieval <-- MCRetrieval,  FactMemory_proofs
        ^                                          ^
        |  used as the memory by                   `-- MCFactMemory
    ProxyMemory <-- MCProxyMemory,  ProxyMemory_proofs
    ChatProxy <-- MCChatProxy,  ChatProxy_proofs
    EmbeddingGuard, Configuration <-- StartUp <-- MCStartUp,  StartUp_proofs
    Reading, Extraction <-- Intake <-- MCIntake,  Intake_proofs
    DocumentMemory <-- MCDocumentMemory,  DocumentMemory_proofs
    GraphMemory <-- MCGraphMemory,  GraphMemory_proofs
    Induction <-- FactMemory_proofs, ChatProxy_proofs, Intake_proofs, DocumentMemory_proofs

An arrow to a module comes from one that extends it, or implements or uses it as said.

**FactMemory** has the facts table (`facts`, a function from row ids to rows) and, for
each worker, the locals of the operation it is in: the extractions left (`todo`), the
time read at the start (`now`), the rows found current and not yet closed (`closing`),
the link to the superseded row (`last`), the listing of `reembed` (`snapshot`). An action
is one store call with the local code around it:

| Code (`engine.py`) | Action |
|---|---|
| `ingest_message` begins, reads the time, drops credentials by policy | `IngestMessage` |
| `find_fact_by_dedup_key` finds the fact / finds none | `SkipExtraction` / `FindNoDuplicate` |
| `find_current_facts` | `FindCurrentFacts` |
| `close_fact` on one row of the result | `CloseFact` |
| `embed_one` and `upsert_fact` | `UpsertFact`, or `EmbedRaises` |
| `forget`, `forget_fact`, `forget_matching` | `ForgetNamespace`, `ForgetFact`, `ForgetMatching` |
| `reembed` | `ListFacts`, `RewriteFact`, `EndReembed` |
| the process ends between two calls, or a call raises | `Crash` |

`retired` and `excused` are history variables: the rows closed for the extraction in hand,
and the keys that a failure or an erasure left without a current value.

**FactLedger** is what FactMemory promises, with no rows, ids or calls: for each key, the
objects believed now and before; an object is learned, replaces others, is lost or
forgotten in one step. The refinement mapping (`Held`, `Past`) counts rows closed by the
operation in progress as believed until it stores their successor, so that `UpsertFact`
is the step that replaces. `Lose` is in the ledger because the code needs it: an embedder
that raises after the closing loop retires objects and stores none.

**DocumentMemory** has the chunk table as a bag of (namespace, text), the rows of it that
are not committed (`open`), and each worker's position in its document. SQLite stores a batch in one
commit; an exception in the middle of it leaves the transaction open on the shared connection, where
everybody sees the rows, the next commit of anyone keeps them, and a crash takes them.
pgvector commits row by row. `reembed` writes the chunks back from a listing, each under its own id: a
row that is still there stays what it is, and one that was forgotten meanwhile comes back (`RestoreChunk`).
Rows have no ids in a bag, so each worker has how many rows of each kind it has `listing` and how
many of these are `gone`; a row that comes back is missed by one worker or by several that had listed
the same row. `restored` counts them. What `reembed` writes of facts first is `CommitElsewhere`.

**GraphMemory** has fact nodes, chunks (nodes, or rows of pgvector), entities and the two
kinds of edges, under each backend and tier. A store call is a step, except where others
can come in or a failure can stop it: Kuzu commits each of the five statements of `upsert_fact`
(`StoreFactInPart`, under its lock, so that only a failure shows the part), and
`delete_namespace` is a sequence of queries (`Deletions`): three labels in Kuzu, the graph
and then pgvector in `ProStore`. `torn` marks the fact nodes that may lack edges, and `doomed`
the ids of the facts and chunks that a forget found when it began; one that a `reembed` writes back from
its listing after it has gone is taken out (`Spare`), and nothing else is. `reembed` rewrites facts, then
chunks: Kuzu merges by id, pgvector updates on a conflict, a graph database creates another
node. Validity windows are FactMemory's.

**EmbeddingGuard** has the signature, the model of each vector, and each engine's
position in opening and re-embedding. `suspect` remembers that an engine was let in over a
mismatch (or unchecked, when the metadata could not be read) and no `reembed` has completed since.
A signature names a dimension only once the embedder knows it (`sized`): a remote model whose
`EMBEDDING_DIM` is not declared learns it from its first answer, so one model can have two
signatures. `column` is the dimension that pgvector's table was created with. A declared `EMBEDDING_DIM`
is taken to be the model's. `OpenRaises` is a constructor that raises after it has created the table.

**Configuration** has, as operators on an environment, what `Config.from_env` and `validate`
raise on, which embedder is built, whether the store opens and the other parts build, and the doctor's
verdict. **StartUp** launches a process in some environment (`Launch`), which opens EmbeddingGuard's store
(`Start`), ends before it has touched it (`Exit`) or after it has created tables (`ExitLate`);
later restarts are EmbeddingGuard's `Open`. `Overlooked` lists what the doctor does not look at.

**Retrieval** puts a reader beside FactMemory's workers. Each search is an action, and workers' steps come
between them (`Write`). What a search returns is a rank for each fact it found; fusion, recency, conflict flags, reranking and the budgeted
selection are local, and so are operators on what was found (`hits`). A question has the values that share
words with it (`words`), which the searches of vectors and keywords go by, and those that are one of its terms as a whole
(`terms`), which the graph's search goes by: terms are single words, so that a subject such as "Ada
Lovelace" is never one. `touched` is a history
variable: the keys that changed while the searches ran, for which nobody can promise an answer true at one
time.

**Reading** has a document as a sequence of lines of seven kinds. `structure_markdown` and
`chunk_concepts` are loops over lines and over blocks, written as recursive functions, with the
code's rounded sizes and its flushes; the properties compare the chunks with the document, without
either loop.
**Extraction** has what the patterns match, or what a model's answer lists, as input; the
extractors' own deduplication and skipping, the cardinality of predicates and which objects a
statement retires are operators, and `believed` is the outcome. **Intake** runs the two side
by side: a behaviour reads a document or hears messages.

**ChatProxy** has, for each request, the handler on the event loop (`handler`, `sent`), the
job on the executor (`job`), the queue between them, the client (`connected`) and what
was stored of the exchange (`memory`). A chunk of a stream is what the network made of it: an
event, half of one, or half of a character (`Bytes`), and what is recorded is what the
accumulator makes of the chunks received. **ProxyMemory** has the same requests as sequences
of store calls over FactLedger: conversations, the last model, compaction turn by turn,
recording, and the upstream's failures. Reads and writes of the last model that raise are passed over, as in the
code: the read then finds no model (`unread`), and the write leaves the older one (`unsure`). It is composed with FactLedger by `INSTANCE`:
memory's next state in each action is a ledger action, which FactMemory implements when operations do
not overlap.

## 3. Runs

| Run | Instance | Checks |
|---|---|---|
| `facts_one_worker` | 1 worker; 4 keys (two tenants; single-valued, additive and credential predicates); redacted credentials, `replaces=True`, two values in one message; forgetting, re-embedding, both faults; 3 rows, 2 instants; a reader with three questions, of which one names part of a subject | `NoDuplicates`, `Timeline`, `ImplementsLedger`, `ChangeSurfaced`, `CurrentFirst`, `HandoffFits`, `CredentialsWithheld` |
| `facts_two_workers` | 2 workers; 2 keys; ingestion and forgetting but no re-embedding (`TwoSpec`), both faults; 3 rows, 2 instants | `TypeOK`, `LinksAreSettled`, `NoSilentGap`, `HistoryIsFinal`, `ErasedForever` |
| `documents` | 2 workers, 2 namespaces, documents that share a text, one with that text twice; both stores; re-embedding, 1 restored row; failing embedder, insert and commit, crash | `TypeOK`, `IndexedIsStored`, `NoBloat` |
| `intake` | every document of up to 6 lines; messages of up to 3 sentences, answers of up to 2 items, 3 configurations of predicates | `NothingLost`, `SectionsKept`, `TablesWhole`, `SizeBound`, `OrderKept`, `LastSaidWins` |
| `guard_restarts` | every environment of a first start; 1 engine at a time, 3 models of 2 dimensions, every policy, 2 facts, 2 chunks, all faults | `TypeOK`, `NoSilentMix`, `SignatureIsEarned`, `PreflightAgrees`, `NoDowngrade` |
| `proxy_requests` | 2 requests of either kind on 1 thread; replies that are empty, without text, or two chunks, cut in an event or in a character; all faults | `TypeOK`, `Passthrough`, `Remembered`, `Reassembled`, `EveryRequestEnds`, `EveryJobEnds` |
| `proxy_conversation` | 1 client, 2 models, 2 values, compaction beyond 3 turns down to 2, 5 turns, both faults | `TypeOK`, `NothingCompactedIsLost`, `ExchangeWins`, `SwitchIsSeen` |
| `graph_stores` | 2 workers on each backend and tier; 2 tenants, 3 facts that share names, chunks; 3 nodes created; all faults | `TypeOK`, `NeighborsAgree`, `ForgottenIsGone`, `OneNodePerFact` |
| `facts_ingest_race` | 2 workers that only ingest, no faults | `NoDuplicates` is violated |
| `facts_reembed_race` | 2 workers that also forget and re-embed | `ErasedForever` is violated |
| `proxy_stale_compaction` | 1 client, 1 model, no faults | `CurrentIsLatest` is violated |
| `startup_dimension` | 1 engine, 2 models, no faults | `ChunksFit` is violated |

Bounds, and why they are enough.

* `MaxFacts = 3` rows: a row, its successor and a third that closes or duplicates either;
  every property of FactMemory relates at most two rows and a pending one. `MaxTime = 2`:
  two instants that are equal or ordered; a message read at 1 can close rows at 2. The
  proofs lift both bounds.
* DocumentMemory has one bound besides the documents, `MaxRestored`: without it a forget, an ingestion and
  a rewrite from an old listing would add a row for ever. The rest of the table is kept finite by what
  `NoBloat` says. One restored row lies beside the copies of a document ingested after the forget; the proof has
  any number. Two texts make a document that shares a chunk with another, and one that
  repeats a chunk, which are the two ways a check can be stale.
* Retrieval allows one step of a worker between the first search and the last
  (`MaxOverlap = 1`): one step is what a search can miss or join. With two the properties hold as
  well (1.9 million states, too long to keep as a run), and the proofs have any number. A retrieval begins before any
  failure or erasure, and not while the store is re-embedded (a guard of `Retrieve`, which the code has not); those that come
  during it count. Three
  rows are a superseded object, its successor and one of another type. Lists are not cut by
  `top_k`.
* Documents of six lines hold a section before and after a heading, two tables, and a
  paragraph larger than a chunk beside one that is held; two heading levels, of the code's six, give
  siblings, children and skipped parents. The proofs are about the same lines, and documents of any length. Documents are read under one configuration, which they do
  not depend on.
* A message of three sentences restates a value after another one; an answer of two items has an
  item before or after a bad one. Histories of messages are unbounded.
* An environment has fourteen fields, each reduced to the values that tell starts apart: the variables that
  the constructor of the engine can raise on, and what the process finds (whether servers answer, whether
  the tables are accepted, whether the `http` extra and the model of the reranker are there). Variables that are treated
  alike are one field (`settings`, `parts`). All 829,440 are launched. They are enumerated until
  a process first starts, since nothing they decide depends on the store.
* GraphMemory creates three nodes: two facts that share an entity, and a fact or chunk of the
  other tenant, or one that comes between two queries of a forget, or a second node of a fact or chunk rewritten.
* Three models are what a signature, the vectors under it and the configured engine can
  differ by. Two items of each kind let a failure fall between two rewrites. Ids are
  reused once nobody holds them, so histories are unbounded.
* One thread and two requests is an executor at its limit; a reply of two chunks has an order and a
  middle to fail in.
* Compaction beyond 3 turns that keeps 2 removes two or three turns, in an order, more than
  once in 5 turns. `ProxyMemory` has one predicate: compaction interferes with itself only
  through a predicate that holds one value.
* `CHECK_DEADLOCK FALSE` is said of the proxy, whose requests end and whose conversation is
  bounded by `MaxTurns`, and of `intake`, where a document is read once. Everything else runs with TLC's deadlock check.

**Fairness** is assumed in ChatProxy alone: weak fairness of each request's handler and of
its job. The event loop runs callbacks that are ready; executor threads are
operating-system threads; replies are finite, and `httpx`'s timeout of 300 s turns a stalled
upstream into `UpstreamFails`. Clients are not assumed to arrive, leave or stay. Nothing is assumed
of faults.

## 4. Proofs

| Theorem | Property | Assumes |
|---|---|---|
| `TypeCorrect` | `FactMemory!TypeOK` | nothing |
| `HistoryTheorem` | `HistoryIsFinal` | nobody re-embeds |
| `ErasureTheorem` | `ErasedForever` | nobody re-embeds |
| `LinksTheorem` | `LinksAreSettled` | nobody re-embeds |
| `NoSilentGapTheorem` | `NoSilentGap` | nobody re-embeds |
| `DedupTheorem` | `NoDuplicates` | one worker |
| `TimelineTheorem` | `Timeline` | one worker |
| `LedgerTheorem` | `ImplementsLedger` | one worker |
| `ReaderImplementsMemory` | Retrieval implements FactMemory | nothing |
| `ReadLedgerTheorem` | `ImplementsLedger`, of Retrieval | one worker |
| `ChangeTheorem` | `ChangeSurfaced` | one worker |
| `HandoffTheorem` | `HandoffFits` | nothing |
| `CredentialTheorem` | `CredentialsWithheld` | nothing |
| `RecentTheorem` | `CurrentFirst` | `MaskedAlways`; 8 facts at most, none older than a half-life |
| `CurrentTheorem` | `CurrentFirst` | `MaskedAlways`; one worker, keys that are always replaced, 31 facts at most |
| `GuardTypeCorrect` | `EmbeddingGuard!TypeOK` | nothing |
| `NoSilentMixTheorem` | `NoSilentMix` | one engine |
| `SignatureTheorem` | `SignatureIsEarned` | one engine |
| `StartImplementsGuard` | StartUp implements EmbeddingGuard | nothing |
| `StartTypeCorrect` | `TypeOK`, of StartUp | nothing |
| `StartNoSilentMix` | `NoSilentMix`, of StartUp | one engine |
| `StartSignature` | `SignatureIsEarned`, of StartUp | one engine |
| `PreflightTheorem` | `PreflightAgrees` | nothing |
| `DowngradeTheorem` | `NoDowngrade` | nothing |
| `DocumentTypeCorrect` | `DocumentMemory!TypeOK` | nothing |
| `IndexedTheorem` | `IndexedIsStored` | nothing |
| `BloatTheorem` | `NoBloat` | nothing |
| `GraphTypeCorrect` | `GraphMemory!TypeOK` | nothing |
| `NeighborsTheorem` | `NeighborsAgree` | nothing |
| `ForgottenTheorem` | `ForgottenIsGone` | nothing |
| `OneNodeTheorem` | `OneNodePerFact` | nothing |
| `ProxyMemoryTypeCorrect` | `ProxyMemory!TypeOK` | nothing |
| `CompactionTheorem` | `NothingCompactedIsLost` | nothing |
| `ExchangeTheorem` | `ExchangeWins` | one client |
| `SwitchTheorem` | `SwitchIsSeen` | one client |
| `ChatTypeCorrect` | `ChatProxy!TypeOK` | nothing |
| `PassthroughTheorem` | `Passthrough` | nothing |
| `RememberedTheorem` | `Remembered` | nothing |
| `ReassembledTheorem` | `Reassembled` | nothing |
| `NothingLostTheorem` | `NothingLost` | nothing |
| `SectionsTheorem` | `SectionsKept` | nothing |
| `TablesTheorem` | `TablesWhole` | nothing |
| `SizeTheorem` | `SizeBound` | nothing |
| `OrderTheorem` | `OrderKept` | nothing |
| `LastWordTheorem` | `LastSaidWins` | nothing |

Each holds for any workers, clients, requests, keys, values, messages, documents, replies, policies,
environments, faults and bounds that the `ASSUME`s of its module admit: these give constants
their types, and say that workers are finitely many, that there is a document, that the executor has a
thread, that a chunk is not one of the queue's markers and that what an upstream sends is UTF-8
(`EncodingAssumption`: half a character is followed by its other half, in the next chunk if need be).
What the table says besides is necessary where a run shows it: `facts_reembed_race` for `"reembed" \notin Ops`, `facts_ingest_race` for one
worker. With two engines `NoSilentMix` is false at once: one may finish `reembed` while
the other, of another model, goes on storing. Two clients share one namespace and one last
model, so that either can overwrite what the other has just stated or recorded. `CurrentFirst` needs
its bounds: the rank of a fact in a long list, or the age of a current one, can outweigh the graph's
vote for it, and a crash among the closings of one ingestion can leave the older of two facts current
(hence "one worker, always replaced", where `Timeline` makes the current fact the newest). A masked
fact has no vector, and so no vote of the first search: `MaskedAlways` says that a key whose objects are masked
has no others (true of the run's messages, and of every message unless credentials are redacted). Both theorems, like
the property, are about subjects that are a term of the question. The type of a fact goes by its predicate in the model
(`FactType`); the extractors tag each fact, by its text.

The arguments.

* Induction. The library states induction with operators as parameters, which no prover here can
  instantiate. `Induction` states it with a set that has zero and successors, or the subsets whose
  proper subsets it has, and recursion with a function of steps; it proves both from the library's
  well-founded induction on the naturals. A loop of the code is a recursive function `f`, and a lemma
  named for it (`LinesLoop`, `TextsLoop`, `TakingLoop`, ...) unfolds it: there is an `f` of the right type with
  the first value, the step from each value to the next, and the result last. After that a loop is
  proved like a state machine: an invariant of its values, kept by a step.
* FactMemory. `TypeInv` adds to `TypeOK` that a worker in the middle of an ingestion has an extraction
  in hand. Everything else rests on it.
* `Monotone` says of every step but a rewrite of `reembed` that the rows that stay either are unchanged or
  close (`RowSteps`), and that new rows bear a new id. History and erasure follow at once, and the other
  proofs use it to carry what a worker has read over the steps of the others.
* `LinkInv` strengthens `LinksAreSettled` with what workers hold: `last` and `retired`
  name rows of the key in hand that are closed or gone, older than the next id.
* `GapInv` strengthens `NoSilentGap`: rows that a worker will close are explained by its
  being about to write. Every way out of `"write"` stores a row of the key or excuses it.
* `SoloInv` (one worker) says that what the worker knows between two calls still holds at
  the second: the object in hand is not current, every current row of a superseded key is
  in `closing`, the listing of `reembed` agrees with the table; and that windows end no later than `now`.
* The ledger. The refinement counts rows as believed that the worker has closed and not yet replaced,
  so it needs to know whose they are: `InHand` adds to `SoloInv` that rows in `closing` are current rows of
  the key in hand with another object, that those in `retired` are its closed ones, and that no object
  is believed twice. Then each store call is one ledger step (`UpsertStep`: replace or accumulate;
  `AbandonStep`: lose; the forgetting steps: forget) or leaves both of its variables alone.
* Retrieval. A retrieval leaves FactMemory's variables alone, so its behaviours are FactMemory's and
  `Timeline` holds of them. `HitsInv` says that what a hit reports of a fact whose key no step has touched
  since is still so. Two objects of one key are then two rows, the older of which
  `Timeline` says is closed, and so does its hit.
* Handoffs. The order of lines (`Prior`) is total and strict, so that every set of hits has a last one, and
  the loop over the lines takes it after all others. By induction on the subsets of the hits,
  `TakenSoFar`: what was taken fits or is one line, no credential is in it, and what was left would not
  fit; lines cost nothing negative, so that it does not fit later either. `SearchInv` says that a hit has
  its fact's type unless it is of the graph's search and touched, and that the graph's
  search finds nothing new of an untouched key.
* Scores. `WeightInv` bounds them: a current hit that no step has touched has the votes of all three searches
  (12 weights, each at least `LeastShare`), a superseded one those of two (8 weights, each at most that of the
  first rank). Recency, which is at worst 6 eighths within a half-life, does not make up for the difference, or
  works for the current fact when it is the newer one. `MaskInv` says that nothing masked is ever closed:
  all its key's rows hold the mask, in the table and in every listing of it, and no ingestion finds another
  object to supersede.
* The guard's invariant says that an engine past its check, with nothing suspect, has the
  signature's model, and that while it re-embeds the items it has no longer pending have its own.
* A deployment. While it starts, `launch` is one environment (`Launched`), and `Start` opens the store with a model
  and a policy that the guard's `Open` allows, and `ExitLate` leaves it with a table of some dimension
  (`OpenRaises`, by `ExitOpens`): a step of StartUp is a step of the guard or a stutter, so the guard's
  theorems carry over. `DoctorAgrees` compares the two readings of the environment
  case by case.
* Documents. `IndexedIsStored` is not inductive: a worker that found a chunk relies on another's row.
  The invariant says of each worker that what it has passed in its document is stored, or is in
  its hands (`Covered`), and remembers when a forget has overtaken it. `NoBloat` counts: the rows
  of a text are at most the occurrences that each worker has still to store or has stored in its
  document, and those written back from a listing (`restored`), so the proof sums a bound over the finite set of workers: the sum is the number of points under a function, which the
  theorems on cardinality can bound.
* Graphs. `RecordsInv` says what a node, chunk and entity is and that ids in use are those handed out;
  `EdgesInv` says that an edge joins a node and an entity of the node's namespace that its
  fact names, and that a node not torn has both; `DoomedInv` says of a worker in the middle of a forget that
  what is there under its doomed ids is what its next queries remove, and of one that is done that nothing is: an
  id comes back only from a listing, and then `Spare` has taken it out; `OneNode`, that a node with the id of the
  fact in hand is the one that the query will merge with.
* The proxy's memory. `Kept` accounts for turns: what a summary has replaced is in memory, missed,
  or among the turns that the compaction in progress has still to ingest. `Heard` and `Spoken` say, for one
  client, that after the exchange's own ingestions memory believes its newest statement, and that the
  last model recorded is the last speaker, or `unsure` says why not (it may, after any write that raised).
* The proxy's requests. `Progress` ties how much of a reply was pulled to where the job is. `Flow` is the argument
  of `Passthrough`: what was sent and what is queued are, in order, the chunks pulled, then an error if the job
  failed, then the end marker if it is over. No chunk is a marker, so that the handler that takes the
  end marker has taken everything. `Stored` follows the job through its writes, and the response
  ends only when the job is over; together they give `Remembered`. Neither looks at the
  text.
* The text of a reply. A place in the reply is the same place in one of its chunks (`JoinedAt`), and a chunk that
  cuts no character is decoded to what it is (`DecodedWhole`). `Caught` is kept by every symbol: parts and
  buffer together are the text up to here, and the buffer is empty where an event has just ended. The last
  symbol ends an event, so that the parts are all.
* Reading. A reader of lines has read soundly (`ReadSoFar`): the headings on its stack are those that enclose the
  next line (`Stacked`), the lines in hand are those since the last heading (`Current`), and the sections
  gone out hold the others, each once and under its headings. Within a section the loop over blocks has three
  invariants: `Parted`, every line read is in one piece or in the buffer; `Tidy`, pieces and buffer are each in
  order, and a table is whole; `Fitting`, the buffer's rounded size accounts for its lines (`Counted`), so that
  a piece is over the target by rounding and separators alone. `Chunked` joins the
  sections: it is the inductive invariant of the chunking, which takes one section a step, and says of the chunks made
  and the sections left that together they are the document.
* Extraction. The patterns' loops keep `HeardSoFar` (what was seen is what some sentence up to here said, once, in
  the order in which it was first said), the loop over an answer keeps `ListedSoFar` (after a statement come only those
  listed after it), and the loop of `ingest_message` keeps `BelievedSoFar`: of a single-valued predicate one object is
  believed, that of the last statement so far, and of any other predicate every object stated.

Model-checked only, and why.

* Liveness (`EveryRequestEnds`, `EveryJobEnds`): out of reach of the prover.
* `CurrentFirst` beyond the bounds of its two theorems, where it is false in places (the run is an instance
  of the first).
* The violation runs' properties, which are false.

## 5. Findings

1. **Overlapping ingestions duplicate facts** (`facts_ingest_race`). The deduplication check
   and the insertion are two store calls (`engine.py:188`, `:211`). `docs/architecture.md:40`
   promises exact deduplication, and `docs/open-questions.md:145` no races.
2. **`reembed` resurrects forgotten facts** (`facts_reembed_race`): it writes back whole
   rows from a listing (`engine.py:116`), so a fact that another thread forgot meanwhile returns. Chunks
   do likewise (below).
3. **Compaction brings back superseded facts** (`proxy_stale_compaction`): old turns are
   ingested as if said now (`engine.py:303`), and unless the exchange in hand states the newer
   value again the old one wins.
4. **pgvector's table is created before the dimension is known** (`startup_dimension`): the
   engine passes `embedder.dim or 256` (`engine.py:57`), and with the minimum configuration of
   `docs/prerequisites.md:50`, which declares no `EMBEDDING_DIM`, a model of another
   dimension has every chunk refused. `.env.example:32` calls the variable an "optional hint".

Also seen while modelling, and not made a run.

*Facts, graphs and proxy.* `replaces=True` whose object is already
current retires nothing (`pipeline/extraction.py:36` against `engine.py:190`);
`forget_matching`, which is to "erase everything recorded about one entity", leaves the
entity's node and name in a graph; a fact that Kuzu stored in part is not completed when it
is said again, because deduplication finds its node; `forget_fact` says it removes "any closed
history" and removes one row (`engine.py:329`); `reembed` embeds redacted credentials, which
ingestion takes care not to embed; `forget` leaves `proxy_last_model`; with
`keep_last_turns = 0` nothing is ever compacted (`proxy.py:254`); a stream whose upstream fails
has already recorded its model, so the retry sees no switch and gets no handoff; a document
whose chunks were skipped because an earlier, failed call had left them uncommitted can lose
them in a crash (the exception in `IndexedIsStored`).
Re-embedding a graph duplicates its facts: `upsert_fact` has `CREATE (f:Fact ...)` (`graph_store.py:204`)
under a comment that says "MERGE-by-id" (`:185`); FalkorDB gets a second node, on Neo4j the
constraint raises, and `OneNodePerFact` excepts FalkorDB for it. Chunks have no constraint: `upsert_chunks`
creates one more node of each on both (`graph_store.py:276`), and the call grows the store.
A chunk that was listed, then forgotten, then ingested again under a new id comes back beside it when the old row is
written: `NoBloat` allows for these rows (`restored`), which "doesn't bloat the store" does not.
The last model is read and written under `except Exception` (`proxy.py:271-281`): a read that fails
misses a switch, a write that fails makes the next request of the same model look like a switch or hides one
(the exceptions of `SwitchIsSeen`).

*Guard and start.* Under `warn` a second model's vectors join the first's, and the advice of the
warning, "or revert the model", silences the guard over both (`suspect` in `NoSilentMix`).
`reembed` to another dimension never gets past pgvector's chunks (`UpsertRaises`). Without
`EMBEDDING_DIM` the signature stamped on open is "model@host:?" and the one after `reembed`
has the number, so the policy `error` refuses the engine its own store. The doctor says READY
where the engine then raises (`Overlooked`, the exceptions of `PreflightAgrees`): a native vendor with a URL and no key, an
unknown provider with a URL, a blank `MEMORY_TIER`, a `PGVECTOR_TABLE_PREFIX` that is no identifier
(`pgvector_store.py:35`), a `CREDENTIAL_POLICY`, `EMBEDDING_MISMATCH_POLICY` or number that does not read, a
`RECENCY_HALF_LIFE_DAYS` or `HANDOFF_TOKEN_BUDGET` that is not positive, no `http` extra, tables or indexes that
the server refuses, and clients of a model, of OCR or a reranker that cannot be built. Outside the pro tier it checks none of what an engine
needs. A pro engine with
`EMBEDDING_PROVIDER=offline` and a URL embeds offline without a word, though `validate` is to
"never silently downgrade" (the exception of `NoDowngrade`).

*Retrieval.* `README.md:105` says that scoring keeps a stale fact from outranking a newer one:
so it does when the subject is a term of the query and nothing reranks (`CurrentFirst`). A subject of several words is never
a term (`hybrid.py:72`, `sqlite_store.py:353`): the graph's search has no vote for it, and a
stale fact can come before the current one; so it can under the lexical reranker, whose weight of 0.7
outdoes the graph's vote, and when a sentence that mentions a secret supersedes one that does not: the masked fact
has no vector. Fused scores are below 0.04, so without a reranker
every handoff is `low_confidence` (threshold 0.15). `handoff.py` says that the
lowest-priority items drop first: an item too large is skipped for smaller ones after it, and
a first item larger than the budget is taken. A credential stored between two searches is
found by the graph's search alone, which does not say that it is one, and is handed off (the
exception of `CredentialsWithheld`).

*Reading and extraction.* A heading with no text under it, in its subsections neither, is in no
chunk of a document that has text elsewhere. The pieces of an oversized paragraph come before the
paragraphs held ahead of it, so that `ordinal` is not the "position within the document"
(`types.py:236`). `#` in a code fence is a heading. The patterns' own deduplication drops a
restatement: after "I work at a. I work at b. I work at a." it is b that is believed. One item of a
model's answer that is no object loses the whole message.

## 6. Not modelled

* Regular expressions, prompts and JSON: what patterns match and what answers list are inputs.
* Embedding vectors and distances: similarity is an order of results, given by the question.
  Chunks in retrieval, which have no key, window or time; the cut of lists at `top_k`; the searches of the stores
  other than SQLite, and the vector indexes of the graphs.
* Statements, confidences and provenance, which do not change control flow; the wording of handoffs and of
  the proxy's system message.
* SQL text, HTTP wire formats; what the tuning numbers of the configuration do after a start, whether a number
  reads and is positive apart.
* Normal forms of text: SQLite's `lower()` folds ASCII only while Python's folds all letters,
  which FactMemory does not tell apart.
* The dispatch of the MCP server, which has no state; its threads are the workers of FactMemory
  and DocumentMemory. Two engines that stamp one new store at once: EmbeddingGuard's properties are about one engine.
* The evaluation harness, which changes nothing.

## 7. Plan

In order of importance; all but the last item are done.

1. FactMemory, FactLedger and their proofs.
2. EmbeddingGuard and its proofs.
3. ChatProxy: threads, queue, accumulator and liveness.
4. ProxyMemory over FactLedger.
5. DocumentMemory over both stores.
6. GraphMemory: facts in a graph, chunks in a graph or in pgvector.
7. Retrieval over FactMemory; StartUp over EmbeddingGuard; Reading and Extraction.
8. Proofs: every safety property and action property that the runs check; refinement of
   FactLedger, FactMemory and EmbeddingGuard.
9. Left: liveness, which stays with TLC; a reader that is cut at `top_k`, with the bounds of `CurrentFirst` in
   terms of it; two engines that open a new store at once.
