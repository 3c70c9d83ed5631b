-------------------------------- MODULE StartUp --------------------------------
(***************************************************************************)
(* The life of a deployment: it is launched in some environment, and then   *)
(* its store is opened again and again (EmbeddingGuard).                    *)
(*                                                                         *)
(* Environments are enumerated until a first process starts: what they make *)
(* of a start does not depend on the store.  Later restarts are             *)
(* EmbeddingGuard's Open.                                                   *)
(***************************************************************************)
EXTENDS EmbeddingGuard, Configuration, Sequences

VARIABLE launch     \* <<env>> while a process reads its environment, or <<>>

StartInit == Init /\ launch = <<>>

\* No process has started yet.
Pristine == \A e \in Engines : model[e] = None

\* The store is in SQLite or a graph, or has pgvector under it.
Launch(env) ==
    /\ (column = "untyped") <=> (Tier(env) # "pro")
    /\ launch' = <<env>>
    /\ UNCHANGED vars

\* The embedder is built: the store is opened with what the environment says.
Start(e) ==
    /\ launch # <<>> /\ Outcome(launch[1]) = "started"
    /\ LET env == launch[1] IN
          \E m \in IF Embedder(env) = "offline" THEN Offline ELSE Models \ Offline :
             Open(e, m, env.dim = "number", IF env.policy = Unset THEN "warn" ELSE env.policy)
    /\ launch' = <<>>

\* The constructor raises.  The MCP server prints the doctor's report, if the error is
\* a ConfigError, and exits.
Exit ==
    /\ launch # <<>> /\ Outcome(launch[1]) \in {"ConfigError", "ProviderError", "StoreError"}
    /\ launch' = <<>>
    /\ UNCHANGED vars

\* It raises once it has created the table of chunks: a part built after the store does,
\* or a later table or index is refused.
ExitLate(e) ==
    /\ launch # <<>>
    /\ LET env == launch[1] IN
          /\ \/ Outcome(env) = "PartError"
             \/ Outcome(env) = "StoreError" /\ env.reachable /\ env.schema = "refused"
          /\ \E m \in IF Embedder(env) = "offline" THEN Offline ELSE Models \ Offline :
                OpenRaises(e, m, env.dim = "number")
    /\ launch' = <<>>

StartNext ==
    \/ launch = <<>> /\ Pristine /\ \E env \in Environments : Launch(env)
    \/ \E e \in Engines : Start(e) \/ ExitLate(e)
    \/ Exit
    \/ launch = <<>> /\ Next /\ UNCHANGED launch

StartSpec == StartInit /\ [][StartNext]_<<vars, launch>>

------------------------------------------------------------------------------

\* What keeps an engine from starting and the doctor does not look at: a tier that is
\* blank, a setting that does not read or is not positive, the name of the provider and
\* the key it needs besides a URL, the tables and their prefix, the http extra, and the
\* parts that are built after the store.
Overlooked(env) ==
    \/ env.tier = "blank"
    \/ env.settings # "good"
    \/ env.provider = "other"
    \/ env.provider = "cohere" /\ ~env.key
    \/ env.schema # "good"
    \/ ~env.http /\ (env.provider # "offline" \/ env.parts = "remote")
    \/ env.parts = "broken"

\* The doctor and the engine read the environment with different code.  Where the doctor
\* checks (the pro tier, or a tier that it takes for it), an engine starts if the verdict
\* is READY and nothing that the doctor overlooks is wrong, and only then ("reports ready
\* / not-ready").
PreflightAgrees ==
    launch # <<>> =>
        LET env == launch[1] IN
        DoctorTier(env) = "pro" =>
            (Outcome(env) = "started" <=> Ready(env) /\ ~Overlooked(env))

\* A production engine embeds with a remote endpoint, unless it was told not to
\* ("Never silently downgrade").
NoDowngrade ==
    launch # <<>> =>
        LET env == launch[1] IN
        Outcome(env) = "started" /\ Tier(env) = "pro" /\ Embedder(env) = "offline"
        => env.provider = "offline"

==============================================================================
