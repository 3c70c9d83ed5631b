---------------------------- MODULE StartUp_proofs ----------------------------
(***************************************************************************)
(* Proofs about EmbeddingGuard and StartUp: types for any number of        *)
(* engines, and the guard's promise when one engine opens the store at a   *)
(* time.  A deployment's life is a life of the guard, so the same holds of *)
(* it; and in every environment that the doctor checks it agrees with the   *)
(* engine but for what it overlooks, and nothing is downgraded.            *)
(***************************************************************************)
EXTENDS StartUp, TLAPS

LEMMA TypeInit == Init => TypeOK
<1> SUFFICES ASSUME Init PROVE TypeOK
  OBVIOUS
<1>1. signature \in Signatures /\ stored \in [Engines -> Signatures]
  BY Zenon DEF Init, Signatures
<1>2. QED
  BY <1>1 DEF Init, TypeOK

LEMMA TypeNext == TypeOK /\ [Next]_vars => TypeOK'
<1> SUFFICES ASSUME TypeOK, [Next]_vars
             PROVE  TypeOK'
  OBVIOUS
<1> USE DimsAssumption, ModelsAssumption DEF TypeOK, config, Signatures, Signature
<1>1. ASSUME NEW e \in Engines, NEW m \in Models, NEW d \in BOOLEAN, NEW p \in Policies,
             Open(e, m, d, p)
      PROVE  TypeOK'
  BY <1>1 DEF Open, ColumnMade
<1>0. ASSUME NEW e \in Engines, NEW m \in Models, NEW d \in BOOLEAN, OpenRaises(e, m, d)
      PROVE  TypeOK'
  BY <1>0 DEF OpenRaises, ColumnMade
<1>2. ASSUME NEW e \in Engines, Stamp(e) \/ Accept(e) \/ Refuse(e)
      PROVE  TypeOK'
  BY <1>2 DEF Stamp, Accept, Refuse
<1>3. ASSUME NEW e \in Engines, OpenMismatched(e) \/ SkipGuard(e)
      PROVE  TypeOK'
  BY <1>3 DEF OpenMismatched, SkipGuard
<1>4. ASSUME NEW e \in Engines, NEW i \in Items, StoreItem(e, i)
      PROVE  TypeOK'
  BY <1>4 DEF StoreItem
<1>5. ASSUME NEW e \in Engines, NEW i \in Items, ForgetItem(e, i)
      PROVE  TypeOK'
  BY <1>5 DEF ForgetItem
<1>6. ASSUME NEW e \in Engines, NEW i \in Items, RewriteItem(e, i)
      PROVE  TypeOK'
  BY <1>6 DEF RewriteItem
<1>7. ASSUME NEW e \in Engines, ListFacts(e) \/ ListChunks(e)
      PROVE  TypeOK'
  <2>1. \E q \in SUBSET Items : pending' = [pending EXCEPT ![e] = q]
    BY <1>7 DEF ListFacts, ListChunks, Items
  <2>2. \E p \in {"facts", "chunks"} : state' = [state EXCEPT ![e] = p]
    BY <1>7 DEF ListFacts, ListChunks
  <2>3. /\ UNCHANGED <<signature, column, vectors, model, sized, policy, stored, suspect>>
        /\ state[e] # "closed"
    BY <1>7 DEF ListFacts, ListChunks
  <2>4. QED
    BY <2>1, <2>2, <2>3
<1>8. ASSUME NEW e \in Engines, FinishReembed(e)
      PROVE  TypeOK'
  BY <1>8 DEF FinishReembed
<1>9. ASSUME NEW e \in Engines,
             Embed(e) \/ EmbedRaises(e) \/ UpsertRaises(e) \/ Close(e) \/ Crash(e)
      PROVE  TypeOK'
  BY <1>9 DEF Embed, EmbedRaises, UpsertRaises, Close, Crash
<1>10. CASE UNCHANGED vars
  BY <1>10 DEF vars
<1>11. QED
  BY <1>0, <1>1, <1>2, <1>3, <1>4, <1>5, <1>6, <1>7, <1>8, <1>9, <1>10 DEF Next

\* The guard's state is well formed in every behaviour, for any engines, models,
\* items and failures.
THEOREM GuardTypeCorrect == Spec => []TypeOK
  BY TypeInit, TypeNext, PTL DEF Spec

------------------------------------------------------------------------------
(* One engine *)

\* While it re-embeds, what the engine has passed is of its model, and so is what
\* its other threads have stored meanwhile.
Passed(e) ==
    \A i \in DOMAIN vectors :
        /\ state[e] = "facts" /\ i \in Facts \ pending[e]
           => vectors[i] \in {None, model[e]}
        /\ state[e] = "chunks" /\ i \notin pending[e]
           => vectors[i] \in {None, model[e]}

\* What the engine read is still the signature when it decides; before the first
\* stamp there is nothing in the store.
Read(e) ==
    /\ state[e] = "opening" => stored[e] = signature
    /\ signature.model = None => suspect \/ DOMAIN vectors = {}

SoloInv(e) == NoSilentMix /\ Passed(e) /\ Read(e)

LEMMA SoloInit == ASSUME NEW e \in Engines, Init PROVE SoloInv(e)
  BY DEF Init, SoloInv, NoSilentMix, Passed, Read, Comparable, Running

LEMMA SoloNext ==
    ASSUME NEW s, Engines = {s}, TypeOK, SoloInv(s), [Next]_vars
    PROVE  /\ SoloInv(s)'
           /\ signature.model # None /\ signature' # signature
              => Comparable(signature'.model)
<1> DEFINE Earned == signature.model # None /\ signature' # signature
                     => Comparable(signature'.model)
<1> SUFFICES SoloInv(s)' /\ Earned
  OBVIOUS
<1>0. s \in Engines /\ TypeOK'
  BY TypeNext
<1> USE <1>0 DEF SoloInv, NoSilentMix, Passed, Read, Comparable, Running, config, Signature
<1>1. ASSUME NEW m \in Models, NEW d \in BOOLEAN, NEW p \in Policies, Open(s, m, d, p)
      PROVE  SoloInv(s)' /\ Earned
  BY <1>1 DEF Open, TypeOK
<1>1a. ASSUME NEW m \in Models, NEW d \in BOOLEAN, OpenRaises(s, m, d)
      PROVE  SoloInv(s)' /\ Earned
  BY <1>1a DEF OpenRaises, TypeOK
<1>2. ASSUME Stamp(s)
      PROVE  SoloInv(s)' /\ Earned
  BY <1>2, ModelsAssumption DEF Stamp, TypeOK
<1>3. ASSUME Accept(s)
      PROVE  SoloInv(s)' /\ Earned
  BY <1>3 DEF Accept, TypeOK
<1>4. ASSUME Refuse(s) \/ OpenMismatched(s) \/ SkipGuard(s)
      PROVE  SoloInv(s)' /\ Earned
  BY <1>4 DEF Refuse, OpenMismatched, SkipGuard, TypeOK
<1>5. ASSUME NEW i \in Items, StoreItem(s, i)
      PROVE  SoloInv(s)' /\ Earned
  <2>1. PICK v \in {None, model[s]} :
           vectors' = [j \in DOMAIN vectors \cup {i} |-> IF j = i THEN v ELSE vectors[j]]
    BY <1>5 DEF StoreItem
  <2>2. /\ Running(s)
        /\ UNCHANGED <<signature, column, state, model, policy, stored, pending, suspect>>
    BY <1>5 DEF StoreItem
  <2>3. ~suspect => signature.model # None
    BY <2>2, ModelsAssumption DEF TypeOK
  <2>4. QED
    BY <2>1, <2>2, <2>3 DEF TypeOK
<1>6. ASSUME NEW i \in Items, ForgetItem(s, i)
      PROVE  SoloInv(s)' /\ Earned
  BY <1>6 DEF ForgetItem, TypeOK
<1>7. ASSUME NEW i \in Items, RewriteItem(s, i)
      PROVE  SoloInv(s)' /\ Earned
  <2>1. /\ vectors' = [j \in DOMAIN vectors \cup {i} |->
                          IF j = i THEN model[s] ELSE vectors[j]]
        /\ Running(s)
        /\ pending'[s] = pending[s] \ {i}
        /\ UNCHANGED <<signature, column, state, model, policy, stored, suspect>>
    BY <1>7 DEF RewriteItem, TypeOK
  <2>2. ~suspect => signature.model # None
    BY <2>1, ModelsAssumption DEF TypeOK
  <2>3. QED
    BY <2>1, <2>2 DEF TypeOK
<1>8. ASSUME ListFacts(s)
      PROVE  SoloInv(s)' /\ Earned
  BY <1>8 DEF ListFacts, TypeOK
<1>9. ASSUME ListChunks(s)
      PROVE  SoloInv(s)' /\ Earned
  BY <1>9 DEF ListChunks, TypeOK, Items
<1>10. ASSUME FinishReembed(s)
       PROVE  SoloInv(s)' /\ Earned
  BY <1>10, ModelsAssumption DEF FinishReembed, TypeOK
<1>11. ASSUME Embed(s) \/ EmbedRaises(s) \/ UpsertRaises(s) \/ Close(s) \/ Crash(s)
       PROVE  SoloInv(s)' /\ Earned
  BY <1>11 DEF Embed, EmbedRaises, UpsertRaises, Close, Crash, TypeOK
<1>12. CASE UNCHANGED vars
  BY <1>12 DEF vars
<1>13. QED
  BY <1>1, <1>2, <1>3, <1>4, <1>5, <1>6, <1>7, <1>8, <1>9, <1>10, <1>11, <1>12,
     <1>1a
  DEF Next

LEMMA SoloInvariant ==
    ASSUME NEW s, Engines = {s}
    PROVE  Spec => [](TypeOK /\ SoloInv(s))
<1>1. Init => SoloInv(s)
  BY SoloInit
<1>2. TypeOK /\ SoloInv(s) /\ [Next]_vars => SoloInv(s)'
  BY SoloNext
<1>3. QED
  BY <1>1, <1>2, TypeInit, TypeNext, PTL DEF Spec

\* With one engine at a time, vectors of several models are together only after the
\* guard was overruled or skipped and until a reembed completes.
THEOREM NoSilentMixTheorem ==
    ASSUME NEW s, Engines = {s}
    PROVE  Spec => []NoSilentMix
<1>1. SoloInv(s) => NoSilentMix
  BY DEF SoloInv
<1>2. QED
  BY <1>1, SoloInvariant, PTL

\* With one engine at a time, the signature is replaced only over vectors that are
\* all of the new model, whatever was stored, forgotten or failed during reembed.
THEOREM SignatureTheorem ==
    ASSUME NEW s, Engines = {s}
    PROVE  Spec => SignatureIsEarned
<1>1. TypeOK /\ SoloInv(s) /\ [Next]_vars
      => [signature.model # None /\ signature' # signature
          => Comparable(signature'.model)]_vars
  BY SoloNext
<1>2. QED
  BY <1>1, SoloInvariant, PTL DEF Spec, SignatureIsEarned

------------------------------------------------------------------------------
(* A deployment *)

\* While a process starts, launch is the one environment that it reads.
Launched == launch = <<>> \/ \E env \in Environments : launch = <<env>>

LEMMA LaunchedInvariant == StartSpec => []Launched
<1>1. StartInit => Launched
  BY DEF StartInit, Launched
<1>2. Launched /\ [StartNext]_<<vars, launch>> => Launched'
  <2> SUFFICES ASSUME Launched, [StartNext]_<<vars, launch>>
               PROVE  Launched'
    OBVIOUS
  <2>1. ASSUME NEW env \in Environments, Launch(env)
        PROVE  Launched'
    BY <2>1 DEF Launch, Launched
  <2>2. ASSUME NEW e \in Engines, Start(e)
        PROVE  Launched'
    BY <2>2 DEF Start, Launched
  <2>3. ASSUME NEW e \in Engines, Exit \/ ExitLate(e)
        PROVE  Launched'
    BY <2>3 DEF Exit, ExitLate, Launched
  <2>4. CASE UNCHANGED launch
    BY <2>4 DEF Launched
  <2>5. QED
    BY <2>1, <2>2, <2>3, <2>4 DEF StartNext, Exit, Launched
<1>3. QED
  BY <1>1, <1>2, PTL DEF StartSpec

------------------------------------------------------------------------------
(* Starting is opening *)

\* A process that starts opens the store with one of its models and policies.
LEMMA StartOpens ==
    ASSUME Launched, NEW e \in Engines, Start(e)
    PROVE  Next
<1>1. PICK env \in Environments : launch = <<env>> /\ launch[1] = env
  BY DEF Launched, Start
<1>2. env.policy \in {Unset, "error"}
  BY DEF Environments
<1>5. (IF env.policy = Unset THEN "warn" ELSE env.policy) \in Policies
  BY <1>2, PoliciesAssumption
<1>6. PICK m \in Models :
         Open(e, m, env.dim = "number", IF env.policy = Unset THEN "warn" ELSE env.policy)
  BY <1>1, DimsAssumption DEF Start
<1>7. (env.dim = "number") \in BOOLEAN
  OBVIOUS
<1>8. QED
  BY <1>5, <1>6, <1>7 DEF Next

\* A process that raises late has opened the store and no more.
LEMMA ExitOpens ==
    ASSUME NEW e \in Engines, ExitLate(e)
    PROVE  Next
<1>1. PICK d \in BOOLEAN : \E m \in Models : OpenRaises(e, m, d)
  <2>1. \A d : (d = "number") \in BOOLEAN
    OBVIOUS
  <2>2. QED
    BY <2>1, DimsAssumption DEF ExitLate
<1>2. QED
  BY <1>1 DEF Next

\* The life of a deployment is a behaviour of the guard.
THEOREM StartImplementsGuard == StartSpec => Spec
<1>1. StartInit => Init
  BY DEF StartInit
<1>2. Launched /\ [StartNext]_<<vars, launch>> => [Next]_vars
  BY StartOpens, ExitOpens DEF StartNext, Launch, Exit
<1>3. QED
  BY <1>1, <1>2, LaunchedInvariant, PTL DEF StartSpec, Spec

\* Whatever the environments a deployment is launched in, and the restarts after, its
\* state is well formed.
THEOREM StartTypeCorrect == StartSpec => []TypeOK
  BY StartImplementsGuard, GuardTypeCorrect, PTL

\* One engine at a time, launched in any environment: no vectors of several models
\* together, unless the guard was overruled or skipped.
THEOREM StartNoSilentMix ==
    ASSUME NEW s, Engines = {s}
    PROVE  StartSpec => []NoSilentMix
  BY StartImplementsGuard, NoSilentMixTheorem, PTL

\* One engine at a time, launched in any environment: the signature changes only over
\* vectors of the new model.
THEOREM StartSignature ==
    ASSUME NEW s, Engines = {s}
    PROVE  StartSpec => SignatureIsEarned
  BY StartImplementsGuard, SignatureTheorem, PTL

------------------------------------------------------------------------------
(* The doctor and the engine *)

\* On the pro tier both ask for the same things, but for what the doctor overlooks.
LEMMA DoctorAgrees ==
    ASSUME NEW env \in Environments, DoctorTier(env) = "pro"
    PROVE  Outcome(env) = "started" <=> Ready(env) /\ ~Overlooked(env)
<1>1. /\ Has(env, "graph") <=> env.graph # Unset
      /\ Has(env, "graphUrl") <=> env.graphUrl
      /\ Has(env, "pgvector") <=> env.pgvector
      /\ Has(env, "embedding") <=> IsRemote(env)
  BY DEF Has
<1>2. /\ env.tier \in {Unset, "blank", "pro", "sqlite", "consolidated", "other"}
      /\ env.provider \in {Unset, "openai", "cohere", "offline", "other"}
      /\ env.graph \in {Unset, "neo4j", "kuzu", "other"}
      /\ env.settings \in {"good", "unread", "zero"}
      /\ env.schema \in {"good", "badPrefix", "refused"}
      /\ env.parts \in {"local", "remote", "broken"}
      /\ env.graphUrl \in BOOLEAN /\ env.pgvector \in BOOLEAN /\ env.host \in BOOLEAN
      /\ env.key \in BOOLEAN /\ env.reachable \in BOOLEAN /\ env.http \in BOOLEAN
  BY DEF Environments
<1>3. CASE env.tier = "blank"
  <2>1. ~FromEnvReads(env)
    BY <1>3 DEF FromEnvReads, TierReads, Tier, Unset
  <2>2. QED
    BY <1>3, <2>1 DEF Outcome, Overlooked
<1>4. CASE env.tier # "blank"
  <2>1. Tier(env) = "pro"
    BY <1>4 DEF DoctorTier
  <2>2. FromEnvReads(env) <=> env.graph # "other" /\ env.settings # "unread"
    BY <2>1 DEF FromEnvReads, TierReads, GraphKindReads, SettingsRead
  <2>3. Validates(env) <=>
           /\ env.graph \notin {"kuzu", Unset} /\ env.graphUrl /\ env.pgvector
           /\ IsRemote(env) /\ env.settings # "zero"
    BY <1>1, <2>1 DEF Validates, Needed, Unset
  <2>4. Embedder(env) # "raises" <=>
           /\ env.provider # "other"
           /\ env.provider = "cohere" => env.key /\ env.http
           /\ env.provider = "openai" => env.host /\ env.http
           /\ env.provider = Unset /\ env.host => env.http
    BY <1>2 DEF Embedder, Remote, Unset
  <2>5. StoreOpens(env) <=> env.reachable /\ env.schema = "good"
    BY <1>2, <2>1 DEF StoreOpens
  <2>6. Outcome(env) = "started" <=>
           /\ FromEnvReads(env) /\ Validates(env) /\ Embedder(env) # "raises"
           /\ StoreOpens(env) /\ PartsBuild(env)
    BY DEF Outcome
  <2>7. Ready(env) <=>
           /\ env.graph = "neo4j" /\ env.graphUrl /\ env.reachable /\ env.pgvector
           /\ env.host \/ (env.provider = "cohere" /\ env.key)
    BY DEF Ready, GraphCheck, PgvectorCheck, EmbeddingCheck
  <2>8. Overlooked(env) <=>
           \/ env.settings # "good" \/ env.provider = "other"
           \/ env.provider = "cohere" /\ ~env.key
           \/ env.schema # "good"
           \/ ~env.http /\ (env.provider # "offline" \/ env.parts = "remote")
           \/ env.parts = "broken"
    BY <1>4 DEF Overlooked
  <2>9. QED
    BY <1>2, <2>2, <2>3, <2>4, <2>5, <2>6, <2>7, <2>8 DEF IsRemote, PartsBuild, Unset
<1>5. QED
  BY <1>3, <1>4

\* In every environment that the doctor checks, an engine starts exactly where the doctor
\* says READY and nothing is wrong of what it overlooks.
THEOREM PreflightTheorem == StartSpec => []PreflightAgrees
<1>1. Launched => PreflightAgrees
  BY DoctorAgrees DEF Launched, PreflightAgrees
<1>2. QED
  BY <1>1, LaunchedInvariant, PTL

\* In every environment on the pro tier, an engine that starts embeds with a remote
\* endpoint, unless it was told not to.
THEOREM DowngradeTheorem == StartSpec => []NoDowngrade
<1>1. ASSUME NEW env \in Environments, Outcome(env) = "started", Tier(env) = "pro",
             Embedder(env) = "offline"
      PROVE  env.provider = "offline"
  <2>1. Validates(env)
    BY <1>1 DEF Outcome
  <2>2. IsRemote(env)
    BY <1>1, <2>1 DEF Validates, Needed, Has
  <2>3. env.provider \in {Unset, "openai", "cohere", "offline", "other"}
    BY DEF Environments
  <2>4. QED
    BY <1>1, <2>2, <2>3 DEF Embedder, Remote, IsRemote, Unset
<1>2. Launched => NoDowngrade
  BY <1>1 DEF Launched, NoDowngrade
<1>3. QED
  BY <1>2, LaunchedInvariant, PTL

==============================================================================
