----------------------------- MODULE Configuration -----------------------------
(***************************************************************************)
(* What the environment makes of a start: Config.from_env and validate, the *)
(* choice of the embedder, and dmem-doctor, which reads the same variables  *)
(* on its own and says READY or not.                                        *)
(*                                                                         *)
(* A value is reduced to what tells starts apart: "unset", one of the       *)
(* values the code knows, or "other".  neo4j stands for falkordb too,       *)
(* cohere for google and gemini, openai for its compatible vendors.  What   *)
(* the process finds is part of it: what is installed, and what answers.    *)
(***************************************************************************)
Unset == "unset"

Environments ==
    [tier      : {Unset, "blank", "pro", "sqlite", "consolidated", "other"},
     graph     : {Unset, "neo4j", "kuzu", "other"},
     graphUrl  : BOOLEAN,
     pgvector  : BOOLEAN,
     provider  : {Unset, "openai", "cohere", "offline", "other"},
     host      : BOOLEAN,               \* EMBEDDING_HOST_URL
     key       : BOOLEAN,               \* EMBEDDING_API_KEY
     dim       : {Unset, "number"},     \* EMBEDDING_DIM
     policy    : {Unset, "error"},      \* EMBEDDING_MISMATCH_POLICY
     \* "unread": a policy (CREDENTIAL_POLICY too) or a number that is none;
     \* "zero": HANDOFF_TOKEN_BUDGET or RECENCY_HALF_LIFE_DAYS is not positive.
     settings  : {"good", "unread", "zero"},
     reachable : BOOLEAN,               \* the servers answer, with pgvector; the file opens
     \* PGVECTOR_TABLE_PREFIX is no identifier, or a table or an index is refused.
     schema    : {"good", "badPrefix", "refused"},
     http      : BOOLEAN,               \* the http extra is installed
     \* An LLM_HOST_URL or OCR_HOST_URL, or a RERANK_MODEL that does not load.
     parts     : {"local", "remote", "broken"}]

------------------------------------------------------------------------------
(* Config *)

\* Tier.coerce: nothing means pro, and a blank is no tier.
Tier(env) == IF env.tier = Unset THEN "pro" ELSE env.tier

TierReads(env) == Tier(env) \in {"pro", "sqlite", "consolidated"}
GraphKindReads(env) == env.graph # "other"

\* A policy is one of its names, and a number a number.
SettingsRead(env) == env.settings # "unread"

\* Every variable is read: no ConfigError yet.
FromEnvReads(env) == TierReads(env) /\ GraphKindReads(env) /\ SettingsRead(env)

IsRemote(env) == env.host \/ env.provider = "cohere"

\* Mutant of Needed: an embedding endpoint is not asked for.
NeededServers(env) ==
    CASE Tier(env) = "pro" -> {"graph", "graphUrl", "pgvector"}
      [] Tier(env) = "consolidated" -> {"graph", "graphUrl"}
      [] OTHER -> {}

\* The prerequisites of each tier.
Needed(env) ==
    CASE Tier(env) = "pro" -> {"graph", "graphUrl", "pgvector", "embedding"}
      [] Tier(env) = "consolidated" -> {"graph", "graphUrl"}
      [] OTHER -> {}

Has(env, v) ==
    CASE v = "graph" -> env.graph # Unset
      [] v = "graphUrl" -> env.graphUrl
      [] v = "pgvector" -> env.pgvector
      [] v = "embedding" -> IsRemote(env)

Validates(env) ==
    /\ Tier(env) = "pro" => env.graph # "kuzu"
    /\ \A v \in Needed(env) : Has(env, v)
    /\ env.settings # "zero"

------------------------------------------------------------------------------
(* build_embedding_provider *)

\* A client of a remote endpoint needs the http extra.
Remote(env) == IF env.http THEN "remote" ELSE "raises"

\* Mutant of Embedder: an unknown provider falls back on the offline embedder.
EmbedderOrOffline(env) ==
    CASE env.provider = "cohere" /\ env.key -> Remote(env)
      [] env.provider \in {"openai", Unset} /\ env.host -> Remote(env)
      [] env.provider = "openai" /\ ~env.host -> "raises"
      [] OTHER -> "offline"

\* A native vendor needs a key, a compatible one its URL; with neither a provider nor
\* a URL the embedder is the offline one.
Embedder(env) ==
    CASE env.provider = "cohere" -> IF env.key THEN Remote(env) ELSE "raises"
      [] env.provider = "offline" -> "offline"
      [] env.provider = "openai" -> IF env.host THEN Remote(env) ELSE "raises"
      [] env.provider = "other" -> "raises"
      [] env.provider = Unset -> IF env.host THEN Remote(env) ELSE "offline"

------------------------------------------------------------------------------
(* The engine *)

\* The store is built and initialized; only pgvector's tables have a prefix.
StoreOpens(env) ==
    /\ env.reachable /\ env.schema # "refused"
    /\ Tier(env) = "pro" => env.schema # "badPrefix"

\* A reranker without its extra falls back on the lexical one, and a model that does not
\* load raises.
PartsBuild(env) ==
    /\ env.parts # "broken"
    /\ env.parts = "remote" => env.http

\* How the constructor of the engine ends, in the order it builds its parts.
Outcome(env) ==
    IF ~(FromEnvReads(env) /\ Validates(env)) THEN "ConfigError"
    ELSE IF Embedder(env) = "raises" THEN "ProviderError"
    ELSE IF ~StoreOpens(env) THEN "StoreError"
    ELSE IF ~PartsBuild(env) THEN "PartError"
    ELSE "started"

------------------------------------------------------------------------------
(* dmem-doctor *)

DoctorTier(env) == IF env.tier = "blank" THEN "pro" ELSE Tier(env)

GraphCheck(env) == env.graph = "neo4j" /\ env.graphUrl /\ env.reachable
PgvectorCheck(env) == env.pgvector /\ env.reachable
EmbeddingCheck(env) == env.host \/ (env.provider = "cohere" /\ env.key)

\* READY, with the live probes.
Ready(env) ==
    DoctorTier(env) = "pro" => GraphCheck(env) /\ PgvectorCheck(env) /\ EmbeddingCheck(env)

==============================================================================
