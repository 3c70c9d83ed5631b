----------------------------- MODULE ProxyMemory -----------------------------
(***************************************************************************)
(* What the chat proxy does to memory over a conversation: the detection   *)
(* of a model switch, the compaction of a long history, which ingests the  *)
(* turns it removes, and the recording of the exchange.                    *)
(*                                                                         *)
(* The memory is the abstract FactLedger, which FactMemory implements when *)
(* ingestions do not overlap, with one subject and predicate that holds one *)
(* object (the user's employer, say).  A turn states one value of it, or    *)
(* nothing.  ChatProxy has the threads, frames and queues; here a request   *)
(* is the sequence of its store calls.                                      *)
(***************************************************************************)
EXTENDS Naturals, Sequences

CONSTANTS
    Clients,       \* conversations over one namespace, one request at a time each
    Models,        \* models that clients ask for
    Values,        \* what a turn may state
    CompactOver,   \* PROXY_COMPACT_OVER_TOKENS, in turns
    KeepLast,      \* PROXY_KEEP_LAST_TURNS
    Faults,        \* failures that happen: "upstream" and "memory"
    MaxTurns       \* bound on the turns of a conversation

Silent == "silent"    \* a turn that states nothing
NoModel == "none"     \* no last model yet

ASSUME BoundsAssumption ==
    CompactOver \in Nat /\ KeepLast \in Nat /\ MaxTurns \in Nat
ASSUME ValuesAssumption == Silent \notin Values
ASSUME ModelsAssumption == NoModel \notin Models

VARIABLES
    conv,        \* each client's conversation, the request's messages
    model,       \* the model of its request
    streams,     \* its request asks for a stream
    pc,          \* what the proxy does next for it
    todo,        \* turns compaction has still to ingest
    dropped,     \* what the turns that its last compaction removed stated
    switched,    \* its request was found to switch models
    lastModel,   \* the namespace's last model in the metadata
    held, past,  \* the ledger: values believed now, and before
    speaker,     \* the model of the last exchange that completed
    unsure,      \* the last model may not be the speaker: it was not stored, or for
                 \* an exchange that failed part way
    unread,      \* the last model could not be read for its request
    missed       \* values whose ingestion raised

request == <<model, streams>>
memory == <<held, past>>
history == <<speaker, unsure, unread, missed>>
vars == <<conv, request, pc, todo, dropped, switched, lastModel, memory, history>>

Employer == [namespace |-> "t1", subject |-> "user", predicate |-> "works_at"]

Ledger ==
    INSTANCE FactLedger WITH
        Keys <- {Employer}, Objects <- Values, Exclusive <- {Employer}

Init ==
    /\ conv = [c \in Clients |-> <<>>]
    /\ model \in [Clients -> Models]
    /\ streams = [c \in Clients |-> FALSE]
    /\ pc = [c \in Clients |-> "idle"]
    /\ todo = [c \in Clients |-> <<>>]
    /\ dropped = [c \in Clients |-> {}]
    /\ switched = [c \in Clients |-> FALSE]
    /\ lastModel = NoModel
    /\ Ledger!Init
    /\ speaker = NoModel
    /\ unsure = FALSE
    /\ unread = [c \in Clients |-> FALSE]
    /\ missed = {}

Stated(turns) == {turns[n] : n \in DOMAIN turns} \ {Silent}

\* ingest_message: a value already believed is skipped, another replaces it.
Ingest(turn) ==
    IF turn \in {Silent} \cup held[Employer]
    THEN UNCHANGED memory
    ELSE Ledger!Replace(Employer, turn)

\* ingest_message raises before it stores anything, or once it has closed what the
\* new value would have replaced.
IngestRaises(turn) ==
    /\ "memory" \in Faults
    /\ missed' = missed \cup ({turn} \ {Silent})
    /\ \/ UNCHANGED memory
       \/ turn \notin {Silent} \cup held[Employer] /\ Ledger!Lose(Employer, held[Employer])

------------------------------------------------------------------------------
(* Requests *)

\* The client says something and sends the conversation to a model, after a reply or
\* after an error.
Ask(c, turn, m, s) ==
    /\ pc[c] \in {"idle", "failed"}
    /\ Len(conv[c]) < MaxTurns
    /\ conv' = [conv EXCEPT ![c] = Append(@, turn)]
    /\ model' = [model EXCEPT ![c] = m]
    /\ streams' = [streams EXCEPT ![c] = s]
    /\ pc' = [pc EXCEPT ![c] = "detect"]
    /\ UNCHANGED <<todo, dropped, switched, lastModel, memory, history>>

\* The client sends a conversation whose last turn has no reply once more.
Retry(c, m, s) ==
    /\ pc[c] = "failed"
    /\ model' = [model EXCEPT ![c] = m]
    /\ streams' = [streams EXCEPT ![c] = s]
    /\ pc' = [pc EXCEPT ![c] = "detect"]
    /\ UNCHANGED <<conv, todo, dropped, switched, lastModel, memory, history>>

\* The turns that compaction replaces with a summary.  The slice [:-0] is empty:
\* with no turn to keep, nothing is removed.
Removed(turns) ==
    IF Len(turns) > CompactOver /\ Len(turns) > KeepLast /\ KeepLast > 0
    THEN SubSeq(turns, 1, Len(turns) - KeepLast)
    ELSE <<>>

\* The step after augmentation: a stream stores the user's turn before it forwards.
Forwarding(c) == IF streams[c] THEN "user" ELSE "forward"

\* A call to memory raises or returns.
MayRaise == IF "memory" \in Faults THEN BOOLEAN ELSE {FALSE}

\* The last model is read, and there is none when the read raises; a long history
\* is cut.
DetectSwitch(c) ==
    /\ pc[c] = "detect"
    /\ \E raises \in MayRaise :
          /\ unread' = [unread EXCEPT ![c] = raises]
          /\ switched' = [switched EXCEPT
                ![c] = ~raises /\ lastModel \notin {NoModel, model[c]}]
    /\ todo' = [todo EXCEPT ![c] = Removed(conv[c])]
    /\ dropped' = [dropped EXCEPT ![c] = {}]
    /\ pc' = [pc EXCEPT ![c] = IF Removed(conv[c]) = <<>> THEN Forwarding(c) ELSE "compact"]
    /\ UNCHANGED <<conv, request, lastModel, memory, speaker, unsure, missed>>

\* Mutant of CompactTurn: one try around the loop.
CompactUntilRaise(c) ==
    /\ pc[c] = "compact"
    /\ todo[c] # <<>>
    /\ \/ /\ Ingest(Head(todo[c]))
          /\ UNCHANGED missed
          /\ todo' = [todo EXCEPT ![c] = Tail(@)]
       \/ /\ IngestRaises(Head(todo[c]))
          /\ todo' = [todo EXCEPT ![c] = <<>>]
    /\ UNCHANGED <<conv, request, pc, dropped, switched, lastModel, speaker, unsure, unread>>

\* compact ingests the turns it is given in order, and goes on when one raises.
CompactTurn(c) ==
    /\ pc[c] = "compact"
    /\ todo[c] # <<>>
    /\ \/ Ingest(Head(todo[c])) /\ UNCHANGED missed
       \/ IngestRaises(Head(todo[c]))
    /\ todo' = [todo EXCEPT ![c] = Tail(@)]
    /\ UNCHANGED <<conv, request, pc, dropped, switched, lastModel, speaker, unsure, unread>>

\* Mutant of Summarize: it does not wait for the ingestion of the turns.
SummarizeAtOnce(c) ==
    /\ pc[c] = "compact"
    /\ dropped' = [dropped EXCEPT ![c] = Stated(Removed(conv[c]))]
    /\ pc' = [pc EXCEPT ![c] = Forwarding(c)]
    /\ UNCHANGED <<conv, request, todo, switched, lastModel, memory, history>>

\* The summary takes the place of the turns.
Summarize(c) ==
    /\ pc[c] = "compact"
    /\ todo[c] = <<>>
    /\ dropped' = [dropped EXCEPT ![c] = Stated(Removed(conv[c]))]
    /\ pc' = [pc EXCEPT ![c] = Forwarding(c)]
    /\ UNCHANGED <<conv, request, todo, switched, lastModel, memory, history>>

\* The search for what memory knows raises: the client gets an error, and nothing of
\* the exchange is stored.
AugmentRaises(c) ==
    /\ "memory" \in Faults
    /\ pc[c] = Forwarding(c)
    /\ pc' = [pc EXCEPT ![c] = "failed"]
    /\ UNCHANGED <<conv, request, todo, dropped, switched, lastModel, memory, history>>

\* The upstream fails: the client gets an error, and nothing of the exchange that
\* is not stored yet will be.
UpstreamFails(c) ==
    /\ "upstream" \in Faults
    /\ pc[c] = "forward"
    /\ pc' = [pc EXCEPT ![c] = "failed"]
    /\ unsure' = (unsure \/ streams[c])
    /\ UNCHANGED <<conv, request, todo, dropped, switched, lastModel, memory,
                   speaker, unread, missed>>

\* The reply is complete, and the client has it.
Reply(c, turn) ==
    /\ pc[c] = "forward"
    /\ conv' = [conv EXCEPT ![c] = Append(@, turn)]
    /\ pc' = [pc EXCEPT ![c] = IF streams[c] THEN "reply" ELSE "user"]
    /\ UNCHANGED <<request, todo, dropped, switched, lastModel, memory, history>>

\* The user's last turn: before the reply in a stream, after it otherwise.
UserTurn(c) == conv[c][IF streams[c] THEN Len(conv[c]) ELSE Len(conv[c]) - 1]

ReplyTurn(c) == conv[c][Len(conv[c])]

\* Mutant of StoreUser: the first user turn of the conversation is ingested.
StoreFirstUser(c) ==
    /\ pc[c] = "user"
    /\ Ingest(conv[c][1])
    /\ pc' = [pc EXCEPT ![c] = "model"]
    /\ UNCHANGED <<conv, request, todo, dropped, switched, lastModel, history>>

StoreUser(c) ==
    /\ pc[c] = "user"
    /\ Ingest(UserTurn(c))
    /\ pc' = [pc EXCEPT ![c] = "model"]
    /\ UNCHANGED <<conv, request, todo, dropped, switched, lastModel, history>>

\* The model is not stored, nor, without a stream, is the reply.
StoreUserRaises(c) ==
    /\ pc[c] = "user"
    /\ IngestRaises(UserTurn(c))
    /\ unsure' = TRUE
    /\ pc' = [pc EXCEPT ![c] = IF streams[c] THEN "forward" ELSE "idle"]
    /\ speaker' = IF streams[c] THEN speaker ELSE model[c]
    /\ UNCHANGED <<conv, request, todo, dropped, switched, lastModel, unread>>

\* Mutant of StoreModel: only a first model is stored.
StoreFirstModel(c) ==
    /\ pc[c] = "model"
    /\ lastModel' = IF lastModel = NoModel THEN model[c] ELSE lastModel
    /\ unsure' = FALSE
    /\ pc' = [pc EXCEPT ![c] = IF streams[c] THEN "forward" ELSE "reply"]
    /\ UNCHANGED <<conv, request, todo, dropped, switched, memory, speaker, unread,
                   missed>>

\* The write that raises is passed over: the last model stays what it was.
StoreModel(c) ==
    /\ pc[c] = "model"
    /\ unsure' \in MayRaise
    /\ lastModel' = IF unsure' THEN lastModel ELSE model[c]
    /\ pc' = [pc EXCEPT ![c] = IF streams[c] THEN "forward" ELSE "reply"]
    /\ UNCHANGED <<conv, request, todo, dropped, switched, memory, speaker, unread,
                   missed>>

\* The exchange is complete, whether or not the reply is stored.
StoreReply(c) ==
    /\ pc[c] = "reply"
    /\ \/ Ingest(ReplyTurn(c)) /\ UNCHANGED missed
       \/ IngestRaises(ReplyTurn(c))
    /\ speaker' = model[c]
    /\ pc' = [pc EXCEPT ![c] = "idle"]
    /\ UNCHANGED <<conv, request, todo, dropped, switched, lastModel, unsure, unread>>

Next ==
    \E c \in Clients :
        \/ \E m \in Models, s \in BOOLEAN :
              \/ \E turn \in Values \cup {Silent} : Ask(c, turn, m, s)
              \/ Retry(c, m, s)
        \/ DetectSwitch(c) \/ CompactTurn(c) \/ Summarize(c)
        \/ AugmentRaises(c) \/ UpstreamFails(c)
        \/ \E turn \in Values \cup {Silent} : Reply(c, turn)
        \/ StoreUser(c) \/ StoreUserRaises(c) \/ StoreModel(c) \/ StoreReply(c)

Spec == Init /\ [][Next]_vars

------------------------------------------------------------------------------

\* The state is well formed, and turns wait for ingestion only during compaction.
TypeOK ==
    /\ conv \in [Clients -> Seq(Values \cup {Silent})]
    /\ model \in [Clients -> Models]
    /\ streams \in [Clients -> BOOLEAN]
    /\ pc \in [Clients -> {"idle", "detect", "compact", "user", "model", "forward",
                            "reply", "failed"}]
    /\ todo \in [Clients -> Seq(Values \cup {Silent})]
    /\ \A c \in Clients : todo[c] # <<>> => pc[c] = "compact"
    /\ dropped \in [Clients -> SUBSET Values]
    /\ switched \in [Clients -> BOOLEAN]
    /\ lastModel \in {NoModel} \cup Models
    /\ held \in [{Employer} -> SUBSET Values]
    /\ past \in [{Employer} -> SUBSET Values]
    /\ speaker \in {NoModel} \cup Models
    /\ unsure \in BOOLEAN
    /\ unread \in [Clients -> BOOLEAN]
    /\ missed \subseteq Values

\* What the turns stated that a summary replaced is in memory, now or before, unless
\* its ingestion raised ("persist durable facts before we throw transcript detail
\* away").
NothingCompactedIsLost ==
    \A c \in Clients :
        dropped[c] \subseteq held[Employer] \cup past[Employer] \cup missed

\* After an exchange that states a value memory believes that value, the reply's over
\* the user's, whatever old turns its compaction has ingested before (one client at
\* a time, and no ingestion that raised).
ExchangeWins ==
    [][\A c \in Clients :
          /\ pc[c] = "reply" /\ pc'[c] = "idle"
          /\ missed' = {}
          => LET user == conv[c][Len(conv[c]) - 1]
                 latest == IF ReplyTurn(c) # Silent THEN ReplyTurn(c) ELSE user
             IN latest # Silent => held'[Employer] = {latest}]_vars

\* A request is found to switch models exactly when another model has completed the
\* last exchange (one client at a time), unless the last model cannot be read, or an
\* exchange since then failed after it had stored its model, or could not store it.
SwitchIsSeen ==
    [][\A c \in Clients :
          /\ pc[c] = "detect" /\ pc'[c] # "detect"
          /\ ~unsure /\ ~unread'[c]
          => (switched'[c] <=> speaker \notin {NoModel, model[c]})]_vars

\* Between exchanges memory believes what the conversation stated last ("newer
\* contradicting facts win").
CurrentIsLatest ==
    \A c \in Clients :
        LET said == SelectSeq(conv[c], LAMBDA turn : turn # Silent)
        IN pc[c] = "idle" /\ said # <<>> => held[Employer] = {said[Len(said)]}

==============================================================================
