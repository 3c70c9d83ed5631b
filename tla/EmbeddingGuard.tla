---------------------------- MODULE EmbeddingGuard ----------------------------
(***************************************************************************)
(* The guard against a change of embedding model: the signature that the   *)
(* engine stamps in the store's metadata, its check on every open, and     *)
(* reembed, across restarts with other models.                             *)
(*                                                                         *)
(* Each step is one store call.  An engine serves several threads, so items *)
(* are stored and forgotten while it re-embeds.  An item is a fact or a     *)
(* chunk, reduced to the model its vector was computed with.               *)
(*                                                                         *)
(* A remote embedder learns its dimension from its first answer, unless     *)
(* EMBEDDING_DIM declares it, and its signature names the dimension once it *)
(* is known.  pgvector's table is created with the dimension known then.    *)
(***************************************************************************)
EXTENDS Naturals

CONSTANTS
    Engines,     \* processes that open the store
    Models,      \* embedders (provider, model and host)
    Dims, Dim,   \* dimensions, and that of each model
    DefaultDim,  \* 256
    Offline,     \* models that need no answer to know their dimension
    Policies,    \* EMBEDDING_MISMATCH_POLICY: "warn", "error", "ignore"
    Facts,       \* ids of facts
    Chunks,      \* ids of chunks
    Faults       \* failures that happen: "embed", "meta" and "crash"

None == "none"    \* no signature, no vector

ASSUME ModelsAssumption == None \notin Models
ASSUME DimsAssumption == Dim \in [Models -> Dims] /\ DefaultDim \in Dims /\ Offline \subseteq Models
ASSUME ItemsAssumption == Facts \cap Chunks = {}
ASSUME PoliciesAssumption == {"warn", "error"} \subseteq Policies

Items == Facts \cup Chunks

Signatures == [model : {None} \cup Models, sized : BOOLEAN]

VARIABLES
    signature,   \* embedding_signature in the metadata
    column,      \* dimension of pgvector's chunks, "absent" before the table, "untyped" in SQLite
    vectors,     \* for each item stored, the model of its vector
    state,       \* what each engine is doing
    model,       \* its configured embedder
    sized,       \* the embedder knows its dimension
    policy,      \* its mismatch policy
    stored,      \* the signature it read on opening
    pending,     \* items its reembed has listed and not rewritten
    suspect      \* an engine has run unchecked or over a mismatch since the last reembed

vars == <<signature, column, vectors, state, model, sized, policy, stored, pending, suspect>>
config == <<column, model, policy, stored>>

Running(e) == state[e] \in {"open", "facts", "chunks"}

\* What embedder.signature() returns now.
Signature(e) == [model |-> model[e], sized |-> sized[e]]

\* The chunk table takes the engine's vectors.
Fits(e) == column \in {"untyped", Dim[model[e]]}

Init ==
    /\ signature = [model |-> None, sized |-> FALSE]
    /\ column \in {"absent", "untyped"}
    /\ vectors = [i \in {} |-> None]
    /\ state = [e \in Engines |-> "closed"]
    /\ model = [e \in Engines |-> None]
    /\ sized = [e \in Engines |-> FALSE]
    /\ policy = [e \in Engines |-> None]
    /\ stored = [e \in Engines |-> signature]
    /\ pending = [e \in Engines |-> {}]
    /\ suspect = FALSE

------------------------------------------------------------------------------
(* Opening *)

\* The table of chunks is created with the dimension that the embedder knows.
ColumnMade(m, known) ==
    IF column # "absent" THEN column ELSE IF known THEN Dim[m] ELSE DefaultDim

\* A process starts with the model and the policy of its environment, in which the
\* dimension is declared or not.  It creates the tables, and reads the signature.
Open(e, m, declared, p) ==
    /\ state[e] = "closed"
    /\ state' = [state EXCEPT ![e] = "opening"]
    /\ model' = [model EXCEPT ![e] = m]
    /\ sized' = [sized EXCEPT ![e] = declared \/ m \in Offline]
    /\ column' = ColumnMade(m, declared \/ m \in Offline)
    /\ policy' = [policy EXCEPT ![e] = p]
    /\ stored' = [stored EXCEPT ![e] = signature]
    /\ UNCHANGED <<signature, vectors, pending, suspect>>

\* The constructor raises between the two.
OpenRaises(e, m, declared) ==
    /\ state[e] = "closed"
    /\ column' = ColumnMade(m, declared \/ m \in Offline)
    /\ UNCHANGED <<signature, vectors, state, model, sized, policy, stored, pending, suspect>>

\* First use: the engine stamps its own signature.
Stamp(e) ==
    /\ state[e] = "opening"
    /\ stored[e].model = None
    /\ signature' = Signature(e)
    /\ state' = [state EXCEPT ![e] = "open"]
    /\ UNCHANGED <<sized, vectors, config, pending, suspect>>

Mismatched(e) == stored[e].model # None /\ stored[e] # Signature(e)

\* Mutant of Accept: signatures are compared only under the policy that refuses.
AcceptUnlessError(e) ==
    /\ state[e] = "opening"
    /\ stored[e].model # None
    /\ policy[e] = "error" => ~Mismatched(e)
    /\ state' = [state EXCEPT ![e] = "open"]
    /\ UNCHANGED <<sized, signature, vectors, config, pending, suspect>>

\* The signature read is the engine's: nothing is said.
Accept(e) ==
    /\ state[e] = "opening"
    /\ stored[e] = Signature(e)
    /\ state' = [state EXCEPT ![e] = "open"]
    /\ UNCHANGED <<sized, signature, vectors, config, pending, suspect>>

\* The constructor raises ConfigError.
Refuse(e) ==
    /\ state[e] = "opening"
    /\ Mismatched(e) /\ policy[e] = "error"
    /\ state' = [state EXCEPT ![e] = "closed"]
    /\ UNCHANGED <<sized, signature, vectors, config, pending, suspect>>

\* The engine starts over another signature, with a warning or without.  The vectors
\* may be its own all the same, when one of the signatures lacks the dimension.
OpenMismatched(e) ==
    /\ state[e] = "opening"
    /\ Mismatched(e) /\ policy[e] # "error"
    /\ state' = [state EXCEPT ![e] = "open"]
    /\ suspect' = (suspect \/ stored[e].model # model[e])
    /\ UNCHANGED <<sized, signature, vectors, config, pending>>

\* A store without metadata raises, and the guard is skipped.
SkipGuard(e) ==
    /\ "meta" \in Faults
    /\ state[e] = "opening"
    /\ state' = [state EXCEPT ![e] = "open"]
    /\ suspect' = TRUE
    /\ UNCHANGED <<sized, signature, vectors, config, pending>>

------------------------------------------------------------------------------
(* Storing and forgetting *)

\* The embedder answers: a query, or an item whose upsert fails.
Embed(e) ==
    /\ Running(e)
    /\ sized' = [sized EXCEPT ![e] = TRUE]
    /\ UNCHANGED <<signature, vectors, state, config, pending, suspect>>

\* An id in use nowhere stands for a new uuid.  A redacted credential has no vector.
StoreItem(e, i) ==
    /\ Running(e)
    /\ i \notin DOMAIN vectors
    /\ \A x \in Engines : i \notin pending[x]
    /\ i \in Chunks => Fits(e)
    /\ \E v \in {model[e]} \cup (IF i \in Facts THEN {None} ELSE {}) :
          /\ vectors' = [j \in DOMAIN vectors \cup {i} |-> IF j = i THEN v ELSE vectors[j]]
          /\ sized' = [sized EXCEPT ![e] = @ \/ v # None]
    /\ UNCHANGED <<signature, state, config, pending, suspect>>

ForgetItem(e, i) ==
    /\ Running(e)
    /\ i \in DOMAIN vectors
    /\ vectors' = [j \in DOMAIN vectors \ {i} |-> vectors[j]]
    /\ UNCHANGED <<sized, signature, state, config, pending, suspect>>

------------------------------------------------------------------------------
(* Re-embedding *)

ListFacts(e) ==
    /\ state[e] = "open"
    /\ state' = [state EXCEPT ![e] = "facts"]
    /\ pending' = [pending EXCEPT ![e] = DOMAIN vectors \cap Facts]
    /\ UNCHANGED <<sized, signature, vectors, config, suspect>>

\* Mutant of RewriteItem: only the vectors that are missing are computed.
RewriteMissing(e, i) ==
    /\ state[e] \in {"facts", "chunks"}
    /\ i \in pending[e]
    /\ i \in Chunks => Fits(e)
    /\ sized' = [sized EXCEPT ![e] = TRUE]
    /\ vectors' = [j \in DOMAIN vectors \cup {i} |->
                      IF j = i /\ (i \notin DOMAIN vectors \/ vectors[i] = None)
                      THEN model[e] ELSE vectors[j]]
    /\ pending' = [pending EXCEPT ![e] = @ \ {i}]
    /\ UNCHANGED <<signature, state, config, suspect>>

\* embed_one and the upsert of one listed item.
RewriteItem(e, i) ==
    /\ state[e] \in {"facts", "chunks"}
    /\ i \in pending[e]
    /\ i \in Chunks => Fits(e)
    /\ vectors' = [j \in DOMAIN vectors \cup {i} |-> IF j = i THEN model[e] ELSE vectors[j]]
    /\ sized' = [sized EXCEPT ![e] = TRUE]
    /\ pending' = [pending EXCEPT ![e] = @ \ {i}]
    /\ UNCHANGED <<signature, state, config, suspect>>

\* The facts are done: the chunks are listed.
ListChunks(e) ==
    /\ state[e] = "facts"
    /\ pending[e] = {}
    /\ state' = [state EXCEPT ![e] = "chunks"]
    /\ pending' = [pending EXCEPT ![e] = DOMAIN vectors \cap Chunks]
    /\ UNCHANGED <<sized, signature, vectors, config, suspect>>

\* The signature is written last.
FinishReembed(e) ==
    /\ state[e] = "chunks"
    /\ pending[e] = {}
    /\ signature' = Signature(e)
    /\ suspect' = FALSE
    /\ state' = [state EXCEPT ![e] = "open"]
    /\ UNCHANGED <<sized, vectors, config, pending>>

------------------------------------------------------------------------------
(* Failures and restarts *)

\* Mutant of EmbedRaises: the listing outlives the call.
EmbedRaisesMidway(e) ==
    /\ "embed" \in Faults
    /\ pending[e] # {}
    /\ state' = [state EXCEPT ![e] = "open"]
    /\ UNCHANGED <<sized, signature, vectors, config, pending, suspect>>

\* embed_one raises out of reembed: the engine goes on.
EmbedRaises(e) ==
    /\ "embed" \in Faults
    /\ pending[e] # {}
    /\ state' = [state EXCEPT ![e] = "open"]
    /\ pending' = [pending EXCEPT ![e] = {}]
    /\ UNCHANGED <<sized, signature, vectors, config, suspect>>

\* The table refuses a vector of another dimension: reembed cannot pass the chunks.
UpsertRaises(e) ==
    /\ state[e] = "chunks"
    /\ pending[e] # {} /\ ~Fits(e)
    /\ sized' = [sized EXCEPT ![e] = TRUE]
    /\ state' = [state EXCEPT ![e] = "open"]
    /\ pending' = [pending EXCEPT ![e] = {}]
    /\ UNCHANGED <<signature, vectors, config, suspect>>

Close(e) ==
    /\ state[e] = "open"
    /\ state' = [state EXCEPT ![e] = "closed"]
    /\ UNCHANGED <<sized, signature, vectors, config, pending, suspect>>

\* A crash of an engine that does nothing is Close.
Crash(e) ==
    /\ "crash" \in Faults
    /\ state[e] \notin {"closed", "open"}
    /\ state' = [state EXCEPT ![e] = "closed"]
    /\ pending' = [pending EXCEPT ![e] = {}]
    /\ UNCHANGED <<sized, signature, vectors, config, suspect>>

Next ==
    \E e \in Engines :
        \/ \E m \in Models, declared \in BOOLEAN, p \in Policies : Open(e, m, declared, p)
        \/ \E m \in Models, declared \in BOOLEAN : OpenRaises(e, m, declared)
        \/ Stamp(e) \/ Accept(e) \/ Refuse(e) \/ OpenMismatched(e) \/ SkipGuard(e)
        \/ Embed(e)
        \/ \E i \in Items : StoreItem(e, i) \/ ForgetItem(e, i) \/ RewriteItem(e, i)
        \/ ListFacts(e) \/ ListChunks(e) \/ FinishReembed(e)
        \/ EmbedRaises(e) \/ UpsertRaises(e) \/ Close(e) \/ Crash(e)

Spec == Init /\ [][Next]_vars

------------------------------------------------------------------------------

\* The state is well formed, and items are pending only while an engine re-embeds.
TypeOK ==
    /\ signature \in Signatures
    /\ column \in {"absent", "untyped"} \cup Dims
    /\ DOMAIN vectors \subseteq Items
    /\ vectors \in [DOMAIN vectors -> {None} \cup Models]
    /\ state \in [Engines -> {"closed", "opening", "open", "facts", "chunks"}]
    /\ model \in [Engines -> {None} \cup Models]
    /\ \A e \in Engines : state[e] # "closed" => model[e] # None
    /\ sized \in [Engines -> BOOLEAN]
    /\ policy \in [Engines -> {None} \cup Policies]
    /\ stored \in [Engines -> Signatures]
    /\ pending \in [Engines -> SUBSET Items]
    /\ \A e \in Engines : pending[e] # {} => state[e] \in {"facts", "chunks"}
    /\ suspect \in BOOLEAN

\* Every vector in the store can be compared with m's.
Comparable(m) == \A i \in DOMAIN vectors : vectors[i] \in {None, m}

\* With one engine at a time: unless it was let in over a mismatch, or unchecked, and
\* no reembed has completed since, every vector is of the model in the signature, and
\* so is the engine, whatever the sequence of models, failed re-embeddings and crashes
\* ("a silent model swap corrupts retrieval").
NoSilentMix ==
    ~suspect =>
        /\ Comparable(signature.model)
        /\ \A e \in Engines : Running(e) => model[e] = signature.model

\* The signature is replaced only when every vector is of the new model: reembed
\* writes it last, and a crash or a failure before that leaves the old one.
SignatureIsEarned ==
    [][signature.model # None /\ signature' # signature => Comparable(signature'.model)]_vars

\* An engine that runs can store the chunks of a document, whether its dimension was
\* declared or not ("optional hint; discovered automatically otherwise").
ChunksFit == \A e \in Engines : Running(e) => Fits(e)

==============================================================================
