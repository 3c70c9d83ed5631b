------------------------------ MODULE FactMemory ------------------------------
(***************************************************************************)
(* The fact memory of DMem: DMemEngine's ingestion, forgetting and         *)
(* re-embedding of facts over the SQLite store.                            *)
(*                                                                         *)
(* The store's lock makes each store call atomic and commits it; nothing   *)
(* makes one engine operation atomic.  Here a step is therefore one store  *)
(* call of one worker (a thread of the MCP server or of the proxy, or a    *)
(* process that opened the same file), with the local code around it, and  *)
(* the locals an operation keeps between two calls are variables.          *)
(*                                                                         *)
(* Subjects, predicates and objects stand for their normal forms (stripped *)
(* and lowercased), the ones that the deduplication key and the queries    *)
(* compare.  A row's id is the order of its insertion.  Vectors are        *)
(* reduced to whether a row has one.                                       *)
(***************************************************************************)
EXTENDS Naturals, Sequences

CONSTANTS
    Workers,           \* threads or processes that share the store
    Keys,              \* records with fields namespace, subject, predicate
    Values,            \* objects a message may give
    Redacted,          \* the mask stored instead of a credential
    SinglePredicates,  \* predicates the cardinality registry calls SINGLE
    Messages,          \* what an extractor may return: sequences of extractions
    CredentialPolicy,  \* "drop", "redact" or "store"
    Ops,               \* operations that workers call
    Faults,            \* failures that happen: "embed" and "crash"
    MaxFacts,          \* bound on the number of rows ever inserted
    MaxTime            \* bound on the clock

Extraction ==
    [key: Keys, value: Values, credential: BOOLEAN,
     replaces: {"yes", "no", "unset"}, hint: {"single", "multi", "unset"}]

ASSUME MessagesAssumption == Messages \subseteq Seq(Extraction) \ {<<>>}
ASSUME BoundsAssumption == MaxFacts \in Nat /\ MaxTime \in Nat

Open == 0      \* valid_to = None
NoFact == 0    \* no row id

Row ==
    [key: Keys, value: Values \cup {Redacted}, embedded: BOOLEAN,
     from: Nat \ {0}, to: Nat, supersedes: Nat]

VARIABLES
    facts,      \* the facts table, a function from the ids present to rows
    nextId,     \* the id the next new row gets
    clock,      \* time.time()
    pc,         \* the call each worker is about to make
    todo,       \* the extractions left to store, the one in hand first
    now,        \* the time at which the worker's message came in
    closing,    \* rows found current that remain to be closed
    retired,    \* rows closed for the extraction in hand
    last,       \* superseded_id
    snapshot,   \* the rows reembed listed and has not rewritten
    excused     \* keys left without a current value by a fault or an erasure

local == <<pc, todo, now, closing, retired, last, snapshot>>
vars == <<facts, nextId, clock, local, excused>>

------------------------------------------------------------------------------
(* Extraction and policy *)

\* The object that ingestion stores for an extraction.
StoredValue(ex) ==
    IF ex.credential /\ CredentialPolicy = "redact" THEN Redacted ELSE ex.value

Embeds(ex) == ~(ex.credential /\ CredentialPolicy = "redact")

Dropped(ex) == ex.credential /\ CredentialPolicy = "drop"

\* An explicit flag wins, then a hint of the extractor, then the registry.
Supersedes(ex) ==
    \/ ex.replaces = "yes"
    \/ /\ ex.replaces = "unset"
       /\ \/ ex.hint = "single"
          \/ ex.hint = "unset" /\ ex.key.predicate \in SinglePredicates

------------------------------------------------------------------------------
(* The facts table *)

Current == {id \in DOMAIN facts : facts[id].to = Open}

CurrentOf(key) == {id \in Current : facts[id].key = key}

WithRow(id, row) ==
    [i \in DOMAIN facts \cup {id} |-> IF i = id THEN row ELSE facts[i]]

WithoutRows(ids) == [i \in DOMAIN facts \ ids |-> facts[i]]

\* Mutants of Closed: the UPDATE without "AND valid_to IS NULL", and an UPDATE
\* that skips a row that began at the closing time.
ClosedAnyWindow(id, t) ==
    [i \in DOMAIN facts |-> IF i = id THEN [facts[i] EXCEPT !.to = t] ELSE facts[i]]

ClosedIfOlder(id, t) ==
    [i \in DOMAIN facts |->
        IF i = id /\ facts[i].to = Open /\ facts[i].from < t
        THEN [facts[i] EXCEPT !.to = t] ELSE facts[i]]

\* The UPDATE of close_fact touches only a row whose window is open.
Closed(id, t) ==
    [i \in DOMAIN facts |->
        IF i = id /\ facts[i].to = Open
        THEN [facts[i] EXCEPT !.to = t] ELSE facts[i]]

------------------------------------------------------------------------------
(* Ingestion *)

Init ==
    /\ facts = [i \in {} |-> 0]
    /\ nextId = 1
    /\ clock = 1
    /\ pc = [w \in Workers |-> "idle"]
    /\ todo = [w \in Workers |-> <<>>]
    /\ now = [w \in Workers |-> 1]
    /\ closing = [w \in Workers |-> {}]
    /\ retired = [w \in Workers |-> {}]
    /\ last = [w \in Workers |-> NoFact]
    /\ snapshot = [w \in Workers |-> [i \in {} |-> 0]]
    /\ excused = {}

IngestMessage(w, m) ==
    /\ "ingest" \in Ops
    /\ pc[w] = "idle"
    /\ pc' = [pc EXCEPT ![w] = "dedup"]
    /\ todo' = [todo EXCEPT ![w] = m]
    /\ now' = [now EXCEPT ![w] = clock]
    /\ UNCHANGED <<facts, nextId, clock, closing, retired, last, snapshot, excused>>

\* The worker is done with the extraction in hand.
NextExtraction(w) ==
    /\ todo' = [todo EXCEPT ![w] = Tail(@)]
    /\ pc' = [pc EXCEPT ![w] = IF Tail(todo[w]) = <<>> THEN "idle" ELSE "dedup"]
    /\ retired' = [retired EXCEPT ![w] = {}]
    /\ last' = [last EXCEPT ![w] = NoFact]
    /\ UNCHANGED <<now, closing, snapshot>>

\* Mutant of Known: the key is taken before the credential is masked.
KnownUnmasked(ex) == \E id \in CurrentOf(ex.key) : facts[id].value = ex.value

Known(ex) == \E id \in CurrentOf(ex.key) : facts[id].value = StoredValue(ex)

\* A credential under the drop policy, or an object that is already current.
SkipExtraction(w) ==
    /\ pc[w] = "dedup"
    /\ Dropped(Head(todo[w])) \/ Known(Head(todo[w]))
    /\ NextExtraction(w)
    /\ UNCHANGED <<facts, nextId, clock, excused>>

\* find_fact_by_dedup_key found nothing.
FindNoDuplicate(w) ==
    /\ pc[w] = "dedup"
    /\ ~Dropped(Head(todo[w])) /\ ~Known(Head(todo[w]))
    /\ pc' = [pc EXCEPT ![w] =
                 IF Supersedes(Head(todo[w])) THEN "find" ELSE "write"]
    /\ UNCHANGED <<facts, nextId, clock, todo, now, closing, retired, last,
                   snapshot, excused>>

\* find_current_facts, and the comparison of objects in the closing loop, which
\* reads the rows as they were found.
FindCurrentFacts(w) ==
    /\ pc[w] = "find"
    /\ closing' = [closing EXCEPT ![w] =
                      {id \in CurrentOf(Head(todo[w]).key) :
                          facts[id].value # StoredValue(Head(todo[w]))}]
    /\ pc' = [pc EXCEPT ![w] = "write"]
    /\ UNCHANGED <<facts, nextId, clock, todo, now, retired, last, snapshot, excused>>

\* Mutant of CloseFact: the row is closed at the time of the call instead of the
\* time of the message.
CloseFactLate(w, id) ==
    /\ pc[w] = "write"
    /\ id \in closing[w]
    /\ facts' = Closed(id, clock)
    /\ closing' = [closing EXCEPT ![w] = @ \ {id}]
    /\ retired' = [retired EXCEPT ![w] = @ \cup {id}]
    /\ last' = [last EXCEPT ![w] = id]
    /\ UNCHANGED <<nextId, clock, pc, todo, now, snapshot, excused>>

\* One round of the closing loop.  The query has no ORDER BY: any row may be next.
CloseFact(w, id) ==
    /\ pc[w] = "write"
    /\ id \in closing[w]
    /\ facts' = Closed(id, now[w])
    /\ closing' = [closing EXCEPT ![w] = @ \ {id}]
    /\ retired' = [retired EXCEPT ![w] = @ \cup {id}]
    /\ last' = [last EXCEPT ![w] = id]
    /\ UNCHANGED <<nextId, clock, pc, todo, now, snapshot, excused>>

NewRow(w) ==
    LET ex == Head(todo[w])
    IN [key |-> ex.key, value |-> StoredValue(ex), embedded |-> Embeds(ex),
        from |-> now[w], to |-> Open, supersedes |-> last[w]]

\* Mutants of UpsertFact: ids that are not unique (the id is not used up), ids
\* taken from the rows present, and an INSERT OR IGNORE on the deduplication key.
UpsertSameId(w) ==
    /\ pc[w] = "write"
    /\ closing[w] = {}
    /\ nextId <= MaxFacts
    /\ facts' = WithRow(nextId, NewRow(w))
    /\ excused' = excused \ {Head(todo[w]).key}
    /\ NextExtraction(w)
    /\ UNCHANGED <<nextId, clock>>

UpsertFreeId(w) ==
    /\ pc[w] = "write"
    /\ closing[w] = {}
    /\ nextId <= MaxFacts
    /\ \E id \in 1..nextId :
          /\ id \notin DOMAIN facts
          /\ \A i \in 1..(id - 1) : i \in DOMAIN facts
          /\ facts' = WithRow(id, NewRow(w))
    /\ nextId' = nextId + 1
    /\ excused' = excused \ {Head(todo[w]).key}
    /\ NextExtraction(w)
    /\ UNCHANGED clock

UpsertUnlessStored(w) ==
    /\ pc[w] = "write"
    /\ closing[w] = {}
    /\ nextId <= MaxFacts
    /\ facts' = IF \E id \in DOMAIN facts : /\ facts[id].key = NewRow(w).key
                                           /\ facts[id].value = NewRow(w).value
                THEN facts ELSE WithRow(nextId, NewRow(w))
    /\ nextId' = nextId + 1
    /\ excused' = excused \ {Head(todo[w]).key}
    /\ NextExtraction(w)
    /\ UNCHANGED clock

\* embed_one and upsert_fact of the new fact.
UpsertFact(w) ==
    /\ pc[w] = "write"
    /\ closing[w] = {}
    /\ nextId <= MaxFacts
    /\ facts' = WithRow(nextId, NewRow(w))
    /\ nextId' = nextId + 1
    /\ excused' = excused \ {Head(todo[w]).key}
    /\ NextExtraction(w)
    /\ UNCHANGED clock

------------------------------------------------------------------------------
(* Failures *)

\* The worker's operation ends where it is: its locals are gone, and so are the
\* extractions it has not stored.
Abandon(w) ==
    /\ pc' = [pc EXCEPT ![w] = "idle"]
    /\ todo' = [todo EXCEPT ![w] = <<>>]
    /\ closing' = [closing EXCEPT ![w] = {}]
    /\ retired' = [retired EXCEPT ![w] = {}]
    /\ last' = [last EXCEPT ![w] = NoFact]
    /\ snapshot' = [snapshot EXCEPT ![w] = [i \in {} |-> 0]]
    /\ excused' = IF retired[w] = {} THEN excused
                  ELSE excused \cup {Head(todo[w]).key}
    /\ UNCHANGED <<facts, nextId, clock, now>>

\* embed_one raises out of ingest_message or reembed.
EmbedRaises(w) ==
    /\ "embed" \in Faults
    /\ \/ pc[w] = "write" /\ closing[w] = {} /\ Embeds(Head(todo[w]))
       \/ pc[w] = "reembed" /\ DOMAIN snapshot[w] # {}
    /\ Abandon(w)

\* The process ends, or the store raises out of the operation.
Crash(w) ==
    /\ "crash" \in Faults
    /\ pc[w] # "idle"
    /\ Abandon(w)

------------------------------------------------------------------------------
(* Forgetting: each operation is one call of the store *)

Erase(ids) ==
    /\ facts' = WithoutRows(ids)
    /\ excused' = excused \cup {facts[id].key : id \in ids}
    /\ UNCHANGED <<nextId, clock, local>>

\* forget_fact, by id, whatever the row's window.
ForgetFact(w, id) ==
    /\ "forget" \in Ops
    /\ pc[w] = "idle"
    /\ id \in DOMAIN facts
    /\ Erase({id})

\* The fields of forget_matching that the caller gave, with the values given.
Matches(row, key, value, given) ==
    /\ "subject" \in given => row.key.subject = key.subject
    /\ "predicate" \in given => row.key.predicate = key.predicate
    /\ "object" \in given => row.value = value

ForgetMatching(w, key, value, given) ==
    /\ "forget" \in Ops
    /\ pc[w] = "idle"
    /\ given # {}
    /\ Erase({id \in DOMAIN facts :
                 /\ facts[id].key.namespace = key.namespace
                 /\ Matches(facts[id], key, value, given)})

\* Mutant of ForgetNamespace: the DELETE without its namespace.
ForgetEverything(w, ns) ==
    /\ "forget" \in Ops
    /\ pc[w] = "idle"
    /\ Erase(DOMAIN facts)

\* forget, the facts of one namespace.
ForgetNamespace(w, ns) ==
    /\ "forget" \in Ops
    /\ pc[w] = "idle"
    /\ Erase({id \in DOMAIN facts : facts[id].key.namespace = ns})

------------------------------------------------------------------------------
(* Re-embedding *)

ListFacts(w) ==
    /\ "reembed" \in Ops
    /\ pc[w] = "idle"
    /\ pc' = [pc EXCEPT ![w] = "reembed"]
    /\ snapshot' = [snapshot EXCEPT ![w] = facts]
    /\ UNCHANGED <<facts, nextId, clock, todo, now, closing, retired, last, excused>>

\* INSERT OR REPLACE of the whole row as it was listed, with a vector.
RewriteFact(w, id) ==
    /\ pc[w] = "reembed"
    /\ id \in DOMAIN snapshot[w]
    /\ facts' = WithRow(id, [snapshot[w][id] EXCEPT !.embedded = TRUE])
    /\ snapshot' = [snapshot EXCEPT ![w] =
                       [i \in DOMAIN snapshot[w] \ {id} |-> snapshot[w][i]]]
    /\ UNCHANGED <<nextId, clock, pc, todo, now, closing, retired, last, excused>>

EndReembed(w) ==
    /\ pc[w] = "reembed"
    /\ DOMAIN snapshot[w] = {}
    /\ pc' = [pc EXCEPT ![w] = "idle"]
    /\ UNCHANGED <<facts, nextId, clock, todo, now, closing, retired, last,
                   snapshot, excused>>

------------------------------------------------------------------------------

Tick ==
    /\ clock < MaxTime
    /\ clock' = clock + 1
    /\ UNCHANGED <<facts, nextId, local, excused>>

Ingestion(w) ==
    \/ \E m \in Messages : IngestMessage(w, m)
    \/ SkipExtraction(w)
    \/ FindNoDuplicate(w)
    \/ FindCurrentFacts(w)
    \/ \E id \in closing[w] : CloseFact(w, id)
    \/ UpsertFact(w)

Forgetting(w) ==
    \/ \E id \in DOMAIN facts : ForgetFact(w, id)
    \/ \E key \in Keys, value \in Values \cup {Redacted},
         given \in SUBSET {"subject", "predicate", "object"} :
          ForgetMatching(w, key, value, given)
    \/ \E key \in Keys : ForgetNamespace(w, key.namespace)

Reembedding(w) ==
    \/ ListFacts(w)
    \/ \E id \in DOMAIN snapshot[w] : RewriteFact(w, id)
    \/ EndReembed(w)

Next ==
    \/ Tick
    \/ \E w \in Workers :
          Ingestion(w) \/ Forgetting(w) \/ Reembedding(w) \/ EmbedRaises(w) \/ Crash(w)

Spec == Init /\ [][Next]_vars

------------------------------------------------------------------------------
(* Type invariant *)

Id == 1..(nextId - 1)

\* The state is well formed; rows and references to rows bear ids handed out.
TypeOK ==
    /\ nextId \in Nat \ {0}
    /\ clock \in Nat \ {0}
    /\ DOMAIN facts \subseteq Id
    /\ facts \in [DOMAIN facts -> Row]
    /\ pc \in [Workers -> {"idle", "dedup", "find", "write", "reembed"}]
    /\ todo \in [Workers -> Seq(Extraction)]
    /\ now \in [Workers -> Nat \ {0}]
    /\ closing \in [Workers -> SUBSET Id]
    /\ retired \in [Workers -> SUBSET Id]
    /\ last \in [Workers -> {NoFact} \cup Id]
    /\ DOMAIN snapshot = Workers
    /\ \A w \in Workers :
          /\ DOMAIN snapshot[w] \subseteq Id
          /\ snapshot[w] \in [DOMAIN snapshot[w] -> Row]
    /\ excused \subseteq Keys

------------------------------------------------------------------------------
(* What holds whatever the interleaving, as long as nobody re-embeds *)

\* The history is append-only: a row whose window is closed never changes until
\* it is erased, and no row ever changes its key, object, start or link (the
\* "valid_to IS NULL" of close_fact against two workers closing one row).
HistoryIsFinal ==
    [][\A id \in DOMAIN facts \cap DOMAIN facts' :
          \/ facts'[id] = facts[id]
          \/ /\ facts[id].to = Open
             /\ facts'[id].to # Open
             /\ facts'[id] = [facts[id] EXCEPT !.to = facts'[id].to]]_vars

\* A row that was erased never comes back: forget, forget_fact and forget_matching
\* are permanent (engine.py: "this permanently removes it").
ErasedForever ==
    [][\A id \in Id : id \notin DOMAIN facts => id \notin DOMAIN facts']_vars

\* A supersedes link names an older row of the same subject and predicate whose
\* window is closed, unless that row has been erased since.
LinksAreSettled ==
    \A id \in DOMAIN facts :
        LET old == facts[id].supersedes
        IN old # NoFact =>
              /\ old < id
              /\ old \in DOMAIN facts =>
                    facts[old].key = facts[id].key /\ facts[old].to # Open

\* Superseding never leaves a subject and predicate without a current object: when
\* every row of a key is closed, some worker is between closing and storing, or a
\* failure in that gap, or an erasure, explains it.
Writing(w, key) == pc[w] = "write" /\ retired[w] # {} /\ Head(todo[w]).key = key

NoSilentGap ==
    \A id \in DOMAIN facts :
        LET key == facts[id].key
        IN \/ CurrentOf(key) # {}
           \/ key \in excused
           \/ \E w \in Workers : Writing(w, key)

------------------------------------------------------------------------------
(* What holds when operations do not overlap: one worker *)

\* No object is current twice for one subject and predicate (dedup_key).
NoDuplicates ==
    \A i, j \in Current :
        facts[i].key = facts[j].key /\ facts[i].value = facts[j].value => i = j

\* The keys that every extraction replaces.
Exclusive ==
    {key \in Keys : \A m \in Messages : \A n \in DOMAIN m :
        m[n].key = key => Supersedes(m[n])}

\* The validity windows of such a key are disjoint and in order of insertion: at
\* any time it has one value at most ("latest value wins, prior value is closed").
Timeline ==
    \A i, j \in DOMAIN facts :
        /\ i < j
        /\ facts[i].key = facts[j].key
        /\ facts[i].key \in Exclusive
        => /\ facts[i].to # Open
           /\ facts[i].from <= facts[i].to
           /\ facts[i].to <= facts[j].from

------------------------------------------------------------------------------
(* One worker implements the ledger *)

\* The rows that the operation in progress has closed count as current until it
\* stores the fact that supersedes them.
InFlight == UNION {retired[w] : w \in Workers}

Held(key) ==
    {facts[id].value : id \in {i \in DOMAIN facts :
        facts[i].key = key /\ (facts[i].to = Open \/ i \in InFlight)}}

Past(key) ==
    {facts[id].value : id \in {i \in DOMAIN facts :
        facts[i].key = key /\ facts[i].to # Open /\ i \notin InFlight}}

Ledger ==
    INSTANCE FactLedger WITH
        Objects <- Values \cup {Redacted},
        held <- [k \in Keys |-> Held(k)],
        past <- [k \in Keys |-> Past(k)]

\* With one worker an extraction is learned, replaced or lost as a whole, in one
\* step, and forgetting takes exactly what it names, although ingestion makes
\* several store calls and re-embedding rewrites every row.
ImplementsLedger == Ledger!Spec

==============================================================================
