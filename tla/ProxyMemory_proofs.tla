-------------------------- MODULE ProxyMemory_proofs --------------------------
(***************************************************************************)
(* Proofs about ProxyMemory: type correctness and what compaction keeps,   *)
(* for any number of clients; what an exchange leaves in memory and which  *)
(* switches are seen, for one.                                             *)
(***************************************************************************)
EXTENDS ProxyMemory, SequenceTheorems, TLAPS

Turns == Values \cup {Silent}

\* A request has a turn of the user's, and once it is answered the reply's as well.
Lengths(c) ==
    /\ pc[c] # "idle" => Len(conv[c]) >= 1
    /\ pc[c] = "reply" => Len(conv[c]) >= 2
    /\ pc[c] \in {"user", "model"} /\ ~streams[c] => Len(conv[c]) >= 2

TypeInv == TypeOK /\ \A c \in Clients : Lengths(c)

\* Everything memory was told, and did not lose before it had it.
Known == held[Employer] \cup past[Employer] \cup missed

\* Turns that compaction has removed are known or still to be ingested.
Kept(c) ==
    /\ dropped[c] \subseteq Known
    /\ pc[c] = "compact" => Stated(Removed(conv[c])) \subseteq Known \cup Stated(todo[c])

KeptInv == \A c \in Clients : Kept(c)

\* Memory believes at most one value.
Single == \A v, u \in held[Employer] : v = u

\* The user's turn is what memory believes once it is stored, unless something raised.
UserStored(c) ==
    \/ pc[c] \in {"model", "reply"}
    \/ pc[c] = "forward" /\ streams[c]

Said(c) ==
    conv[c][IF streams[c] /\ pc[c] # "reply" THEN Len(conv[c]) ELSE Len(conv[c]) - 1]

Heard(c) ==
    UserStored(c) /\ missed = {} /\ Said(c) # Silent => held[Employer] = {Said(c)}

\* The last model is the speaker, or, once it is stored for the exchange, the model of it.
Spoken(c) ==
    ~unsure => lastModel = IF UserStored(c) /\ pc[c] # "model" THEN model[c] ELSE speaker

ExchangeInv(c) == Single /\ Heard(c) /\ Spoken(c)

------------------------------------------------------------------------------
(* What one turn does to memory *)

\* A turn that is ingested is known, and what was known stays so.
LEMMA IngestStep ==
    ASSUME TypeOK, NEW turn \in Turns, Ingest(turn), UNCHANGED missed
    PROVE  /\ held' \in [{Employer} -> SUBSET Values]
           /\ past' \in [{Employer} -> SUBSET Values]
           /\ Known \subseteq Known'
           /\ turn # Silent => turn \in Known'
           /\ Single => Single'
           /\ Single /\ turn # Silent => held'[Employer] = {turn}
           /\ turn = Silent => held'[Employer] = held[Employer]
<1>1. CASE UNCHANGED memory
  <2>1. turn \in {Silent} \cup held[Employer]
    <3>1. SUFFICES ASSUME turn \notin {Silent} \cup held[Employer] PROVE FALSE
      OBVIOUS
    <3>2. held'[Employer] = {turn}
      BY <3>1 DEF Ingest, Ledger!Replace, TypeOK
    <3>3. QED
      BY <1>1, <3>1, <3>2 DEF memory
  <2>2. held' = held /\ past' = past
    BY <1>1 DEF memory
  <2>3. Single => held[Employer] = {turn} \/ turn = Silent
    BY <2>1 DEF Single
  <2>4. QED
    BY <2>1, <2>2, <2>3 DEF TypeOK, Known, Single
<1>2. CASE turn \notin {Silent} \cup held[Employer]
  <2>1. /\ held' = [held EXCEPT ![Employer] = {turn}]
        /\ past' = [past EXCEPT ![Employer] = @ \cup held[Employer]]
    BY <1>2 DEF Ingest, Ledger!Replace
  <2>2. turn \in Values
    BY <1>2 DEF Turns
  <2>3. held'[Employer] = {turn} /\ past'[Employer] = past[Employer] \cup held[Employer]
    BY <2>1 DEF TypeOK
  <2>4. QED
    BY <1>2, <2>1, <2>2, <2>3 DEF TypeOK, Known, Single
<1>3. QED
  BY <1>1, <1>2 DEF Ingest

\* When ingestion raises the turn is missed, and what was known stays so.
LEMMA RaiseStep ==
    ASSUME TypeOK, NEW turn \in Turns, IngestRaises(turn)
    PROVE  /\ held' \in [{Employer} -> SUBSET Values]
           /\ past' \in [{Employer} -> SUBSET Values]
           /\ missed' \in SUBSET Values
           /\ Known \subseteq Known'
           /\ turn # Silent => turn \in missed'
           /\ missed \subseteq missed'
           /\ Single => Single'
           /\ turn = Silent => held'[Employer] = held[Employer]
<1>1. missed' = missed \cup ({turn} \ {Silent})
  BY DEF IngestRaises
<1>2. CASE UNCHANGED memory
  BY <1>1, <1>2 DEF memory, TypeOK, Known, Single, Turns
<1>3. CASE turn # Silent /\ Ledger!Lose(Employer, held[Employer])
  <2>1. /\ held' = [held EXCEPT ![Employer] = @ \ held[Employer]]
        /\ past' = [past EXCEPT ![Employer] = @ \cup held[Employer]]
    BY <1>3 DEF Ledger!Lose
  <2>2. held'[Employer] = {} /\ past'[Employer] = past[Employer] \cup held[Employer]
    BY <2>1 DEF TypeOK
  <2>3. QED
    BY <1>1, <1>3, <2>1, <2>2 DEF TypeOK, Known, Single, Turns
<1>4. QED
  BY <1>2, <1>3 DEF IngestRaises

\* Either way.
LEMMA MemoryStep ==
    ASSUME TypeOK, NEW turn \in Turns,
           (Ingest(turn) /\ UNCHANGED missed) \/ IngestRaises(turn)
    PROVE  /\ held' \in [{Employer} -> SUBSET Values]
           /\ past' \in [{Employer} -> SUBSET Values]
           /\ missed' \in SUBSET Values
           /\ Known \subseteq Known'
           /\ turn # Silent => turn \in Known'
           /\ missed \subseteq missed'
           /\ Single => Single'
           /\ Single /\ missed' = {} /\ turn # Silent => held'[Employer] = {turn}
           /\ turn = Silent => held'[Employer] = held[Employer]
<1>1. CASE Ingest(turn) /\ UNCHANGED missed
  BY <1>1, IngestStep DEF TypeOK
<1>2. CASE IngestRaises(turn)
  BY <1>2, RaiseStep DEF Known
<1>3. QED
  BY <1>1, <1>2

\* The turns that compaction removes are turns of the conversation.
LEMMA RemovedType ==
    ASSUME NEW turns \in Seq(Turns)
    PROVE  /\ Removed(turns) \in Seq(Turns)
           /\ Stated(turns) \subseteq Values
<1>1. ASSUME Len(turns) > KeepLast
      PROVE  SubSeq(turns, 1, Len(turns) - KeepLast) \in Seq(Turns)
  BY <1>1, BoundsAssumption, SubSeqProperties
<1>2. Removed(turns) \in Seq(Turns)
  BY <1>1 DEF Removed
<1>3. QED
  BY <1>2 DEF Stated, Turns

\* A sequence states what its head does and what its tail does.
LEMMA StatedHeadTail ==
    ASSUME NEW turns \in Seq(Turns), turns # <<>>
    PROVE  /\ Head(turns) \in Turns /\ Tail(turns) \in Seq(Turns)
           /\ Stated(turns) \subseteq Stated(Tail(turns)) \cup ({Head(turns)} \ {Silent})
<1>1. /\ Head(turns) \in Turns /\ Tail(turns) \in Seq(Turns) /\ Head(turns) = turns[1]
      /\ Len(Tail(turns)) = Len(turns) - 1 /\ Len(turns) \in Nat \ {0}
      /\ \A n \in 1..Len(Tail(turns)) : Tail(turns)[n] = turns[n + 1]
  BY HeadTailProperties, EmptySeq
<1>2. ASSUME NEW n \in DOMAIN turns, n # 1
      PROVE  turns[n] \in {Tail(turns)[k] : k \in DOMAIN Tail(turns)}
  <2>1. n - 1 \in 1..Len(Tail(turns)) /\ DOMAIN Tail(turns) = 1..Len(Tail(turns))
    BY <1>1, <1>2
  <2>2. turns[n] = Tail(turns)[n - 1]
    BY <1>1, <1>2, <2>1
  <2>3. QED
    BY <2>1, <2>2
<1>3. QED
  BY <1>1, <1>2 DEF Stated

------------------------------------------------------------------------------
(* Type correctness *)

LEMMA TypeInit == Init => TypeInv
<1> SUFFICES ASSUME Init
             PROVE  TypeInv
  OBVIOUS
<1>1. /\ held = [k \in {Employer} |-> {}] /\ past = [k \in {Employer} |-> {}]
      /\ <<>> \in Seq(Values \cup {Silent})
  BY DEF Init, Ledger!Init
<1>2. TypeOK
  BY <1>1 DEF Init, TypeOK
<1>3. \A c \in Clients : Lengths(c)
  BY DEF Init, Lengths
<1>4. QED
  BY <1>2, <1>3 DEF TypeInv

LEMMA AppendTurn ==
    ASSUME NEW turns \in Seq(Turns), NEW turn \in Turns
    PROVE  /\ Append(turns, turn) \in Seq(Turns)
           /\ Len(Append(turns, turn)) = Len(turns) + 1 /\ Len(turns) \in Nat
           /\ Append(turns, turn)[Len(turns) + 1] = turn
           /\ \A n \in 1..Len(turns) : Append(turns, turn)[n] = turns[n]
  BY AppendProperties, LenProperties

\* A request's turns, where the proxy looks for them.
LEMMA SaidType ==
    ASSUME TypeInv, NEW c \in Clients
    PROVE  /\ pc[c] = "user" => UserTurn(c) \in Turns
           /\ pc[c] = "reply" => ReplyTurn(c) \in Turns
<1>1. conv[c] \in Seq(Turns) /\ Len(conv[c]) \in Nat
  BY LenProperties DEF TypeInv, TypeOK, Turns
<1>2. \A n \in 1..Len(conv[c]) : conv[c][n] \in Turns
  BY <1>1, ElementOfSeq
<1>3. QED
  BY <1>1, <1>2 DEF TypeInv, Lengths, UserTurn, ReplyTurn

LEMMA TypeNext == TypeInv /\ [Next]_vars => TypeInv'
<1> SUFFICES ASSUME TypeInv, [Next]_vars
             PROVE  TypeInv'
  OBVIOUS
<1> USE DEF Lengths, request, memory, history
<1>0. TypeOK /\ \A c \in Clients : Lengths(c)
  BY DEF TypeInv
<1>1. ASSUME NEW c \in Clients, NEW m \in Models, NEW s \in BOOLEAN, NEW turn \in Turns,
             Ask(c, turn, m, s)
      PROVE  TypeInv'
  <2>1. /\ Append(conv[c], turn) \in Seq(Turns)
        /\ Len(Append(conv[c], turn)) = Len(conv[c]) + 1 /\ Len(conv[c]) \in Nat
    BY <1>0, AppendTurn DEF TypeOK, Turns
  <2>2. TypeOK'
    BY <1>0, <1>1, <2>1 DEF Ask, TypeOK, Turns
  <2>3. \A b \in Clients : Lengths(b)'
    BY <1>0, <1>1, <2>1 DEF Ask, TypeOK
  <2>4. QED
    BY <2>2, <2>3 DEF TypeInv
<1>2. ASSUME NEW c \in Clients, NEW m \in Models, NEW s \in BOOLEAN, Retry(c, m, s)
      PROVE  TypeInv'
  BY <1>0, <1>2 DEF Retry, TypeOK, TypeInv
<1>3. ASSUME NEW c \in Clients, DetectSwitch(c)
      PROVE  TypeInv'
  <2>1. Removed(conv[c]) \in Seq(Values \cup {Silent})
    BY <1>0, RemovedType DEF TypeOK, Turns
  <2>2. TypeOK'
    BY <1>0, <1>3, <2>1 DEF DetectSwitch, MayRaise, Forwarding, TypeOK
  <2>3. \A b \in Clients : Lengths(b)'
    BY <1>0, <1>3 DEF DetectSwitch, Forwarding, TypeOK
  <2>4. QED
    BY <2>2, <2>3 DEF TypeInv
<1>4. ASSUME NEW c \in Clients, CompactTurn(c)
      PROVE  TypeInv'
  <2>1. PICK turn : turn = Head(todo[c])
    OBVIOUS
  <2>2. turn \in Turns /\ Tail(todo[c]) \in Seq(Turns)
    BY <1>0, <1>4, <2>1, StatedHeadTail DEF CompactTurn, TypeOK, Turns
  <2>3. (Ingest(turn) /\ UNCHANGED missed) \/ IngestRaises(turn)
    BY <1>4, <2>1 DEF CompactTurn
  <2>4. /\ held' \in [{Employer} -> SUBSET Values] /\ past' \in [{Employer} -> SUBSET Values]
        /\ missed' \in SUBSET Values
    BY <1>0, <2>2, <2>3, MemoryStep
  <2>5. QED
    BY <1>0, <1>4, <2>2, <2>4 DEF CompactTurn, TypeOK, TypeInv, Turns
<1>5. ASSUME NEW c \in Clients, Summarize(c)
      PROVE  TypeInv'
  <2>1. Stated(Removed(conv[c])) \subseteq Values
    BY <1>0, RemovedType DEF TypeOK, Turns
  <2>2. TypeOK'
    BY <1>0, <1>5, <2>1 DEF Summarize, Forwarding, TypeOK
  <2>3. \A b \in Clients : Lengths(b)'
    BY <1>0, <1>5 DEF Summarize, Forwarding, TypeOK
  <2>4. QED
    BY <2>2, <2>3 DEF TypeInv
<1>6. ASSUME NEW c \in Clients, UpstreamFails(c) \/ AugmentRaises(c)
      PROVE  TypeInv'
  <2>1. CASE UpstreamFails(c)
    BY <1>0, <2>1 DEF UpstreamFails, TypeOK, TypeInv
  <2>2. CASE AugmentRaises(c)
    BY <1>0, <2>2 DEF AugmentRaises, Forwarding, TypeOK, TypeInv
  <2>3. QED
    BY <1>6, <2>1, <2>2
<1>7. ASSUME NEW c \in Clients, NEW turn \in Turns, Reply(c, turn)
      PROVE  TypeInv'
  <2>1. /\ Append(conv[c], turn) \in Seq(Turns)
        /\ Len(Append(conv[c], turn)) = Len(conv[c]) + 1 /\ Len(conv[c]) \in Nat
    BY <1>0, AppendTurn DEF TypeOK, Turns
  <2>2. TypeOK'
    BY <1>0, <1>7, <2>1 DEF Reply, TypeOK, Turns
  <2>3. \A b \in Clients : Lengths(b)'
    BY <1>0, <1>7, <2>1 DEF Reply, TypeOK
  <2>4. QED
    BY <2>2, <2>3 DEF TypeInv
<1>8. ASSUME NEW c \in Clients, StoreUser(c) \/ StoreUserRaises(c) \/ StoreReply(c)
      PROVE  TypeInv'
  <2>1. PICK turn \in Turns : (Ingest(turn) /\ UNCHANGED missed) \/ IngestRaises(turn)
    <3>1. CASE StoreReply(c)
      BY <3>1, SaidType DEF StoreReply
    <3>2. CASE StoreUser(c) \/ StoreUserRaises(c)
      BY <3>2, SaidType DEF StoreUser, StoreUserRaises
    <3>3. QED
      BY <1>8, <3>1, <3>2
  <2>2. /\ held' \in [{Employer} -> SUBSET Values] /\ past' \in [{Employer} -> SUBSET Values]
        /\ missed' \in SUBSET Values
    BY <1>0, <2>1, MemoryStep
  <2>3. TypeOK'
    <3>1. CASE StoreUser(c)
      BY <1>0, <2>2, <3>1 DEF StoreUser, TypeOK
    <3>2. CASE StoreUserRaises(c)
      BY <1>0, <2>2, <3>2 DEF StoreUserRaises, TypeOK
    <3>3. CASE StoreReply(c)
      BY <1>0, <2>2, <3>3 DEF StoreReply, TypeOK
    <3>4. QED
      BY <1>8, <3>1, <3>2, <3>3
  <2>4. \A b \in Clients : Lengths(b)'
    BY <1>0, <1>8 DEF StoreUser, StoreUserRaises, StoreReply, TypeOK
  <2>5. QED
    BY <2>3, <2>4 DEF TypeInv
<1>9. ASSUME NEW c \in Clients, StoreModel(c)
      PROVE  TypeInv'
  BY <1>0, <1>9 DEF StoreModel, MayRaise, TypeOK, TypeInv
<1>10. CASE UNCHANGED vars
  BY <1>0, <1>10 DEF vars, TypeOK, TypeInv
<1>11. QED
  BY <1>1, <1>2, <1>3, <1>4, <1>5, <1>6, <1>7, <1>8, <1>9, <1>10 DEF Next, Turns

\* Conversations, memory and the proxy's progress are well formed, and turns wait for
\* ingestion only during compaction.
THEOREM ProxyMemoryTypeCorrect == Spec => []TypeOK
<1>1. TypeInv => TypeOK
  BY DEF TypeInv
<1>2. QED
  BY <1>1, TypeInit, TypeNext, PTL DEF Spec

------------------------------------------------------------------------------
(* What compaction keeps *)

\* A step of one client that keeps what is known, and its own turns, keeps the rest.
LEMMA KeptByOthers ==
    ASSUME NEW c \in Clients, KeptInv, Known \subseteq Known', Kept(c)',
           \A b \in Clients \ {c} :
              UNCHANGED <<conv[b], pc[b], todo[b], dropped[b]>>
    PROVE  KeptInv'
  BY DEF KeptInv, Kept

LEMMA KeptNext == TypeInv /\ KeptInv /\ [Next]_vars => KeptInv'
<1> SUFFICES ASSUME TypeInv, KeptInv, [Next]_vars
             PROVE  KeptInv'
  OBVIOUS
<1> USE DEF request, memory, history
<1>0. TypeOK
  BY DEF TypeInv
<1>1. ASSUME NEW c \in Clients,
             \/ \E turn \in Turns, m \in Models, s \in BOOLEAN :
                   Ask(c, turn, m, s) \/ Retry(c, m, s)
             \/ AugmentRaises(c) \/ UpstreamFails(c) \/ StoreModel(c)
             \/ \E turn \in Turns : Reply(c, turn)
      PROVE  KeptInv'
  <2>1. /\ pc'[c] # "compact" /\ todo' = todo /\ dropped' = dropped
        /\ held' = held /\ past' = past /\ missed' = missed
        /\ \A b \in Clients \ {c} : UNCHANGED <<conv[b], pc[b]>>
    BY <1>0, <1>1 DEF Ask, Retry, AugmentRaises, UpstreamFails, StoreModel, Reply, TypeOK
  <2>2. QED
    BY <2>1 DEF KeptInv, Kept, Known
<1>2. ASSUME NEW c \in Clients, DetectSwitch(c)
      PROVE  KeptInv'
  <2>1. /\ todo'[c] = Removed(conv[c]) /\ dropped'[c] = {} /\ conv' = conv
        /\ held' = held /\ past' = past /\ missed' = missed
        /\ \A b \in Clients \ {c} : UNCHANGED <<pc[b], todo[b], dropped[b]>>
    BY <1>0, <1>2 DEF DetectSwitch, TypeOK
  <2>2. QED
    BY <2>1 DEF KeptInv, Kept, Known
<1>3. ASSUME NEW c \in Clients, CompactTurn(c)
      PROVE  KeptInv'
  <2>1. PICK turn : turn = Head(todo[c])
    OBVIOUS
  <2>2. /\ turn \in Turns
        /\ Stated(todo[c]) \subseteq Stated(Tail(todo[c])) \cup ({turn} \ {Silent})
    BY <1>0, <1>3, <2>1, StatedHeadTail DEF CompactTurn, TypeOK, Turns
  <2>3. (Ingest(turn) /\ UNCHANGED missed) \/ IngestRaises(turn)
    BY <1>3, <2>1 DEF CompactTurn
  <2>4. Known \subseteq Known' /\ (turn # Silent => turn \in Known')
    BY <1>0, <2>2, <2>3, MemoryStep
  <2>5. /\ todo'[c] = Tail(todo[c]) /\ UNCHANGED <<conv, pc, dropped>>
        /\ \A b \in Clients \ {c} : todo'[b] = todo[b]
    BY <1>0, <1>3 DEF CompactTurn, TypeOK
  <2>6. Kept(c)
    BY DEF KeptInv
  <2>7. Kept(c)'
    BY <2>2, <2>4, <2>5, <2>6 DEF Kept
  <2>8. QED
    BY <2>4, <2>5, <2>7, KeptByOthers
<1>4. ASSUME NEW c \in Clients, Summarize(c)
      PROVE  KeptInv'
  <2>1. /\ pc[c] = "compact" /\ todo[c] = <<>> /\ pc'[c] # "compact"
        /\ dropped'[c] = Stated(Removed(conv[c]))
        /\ UNCHANGED <<conv, todo, held, past, missed>>
        /\ \A b \in Clients \ {c} : UNCHANGED <<pc[b], dropped[b]>>
    BY <1>0, <1>4 DEF Summarize, Forwarding, TypeOK
  <2>2. Stated(<<>>) = {}
    BY DEF Stated
  <2>3. Kept(c)' /\ Known \subseteq Known'
    BY <2>1, <2>2 DEF KeptInv, Kept, Known
  <2>4. QED
    BY <2>1, <2>3, KeptByOthers
<1>5. ASSUME NEW c \in Clients, StoreUser(c) \/ StoreUserRaises(c) \/ StoreReply(c)
      PROVE  KeptInv'
  <2>1. PICK turn \in Turns : (Ingest(turn) /\ UNCHANGED missed) \/ IngestRaises(turn)
    <3>1. CASE StoreReply(c)
      BY <3>1, SaidType DEF StoreReply
    <3>2. CASE StoreUser(c) \/ StoreUserRaises(c)
      BY <3>2, SaidType DEF StoreUser, StoreUserRaises
    <3>3. QED
      BY <1>5, <3>1, <3>2
  <2>2. Known \subseteq Known'
    BY <1>0, <2>1, MemoryStep
  <2>3. /\ pc'[c] # "compact" /\ UNCHANGED <<conv, todo, dropped>>
        /\ \A b \in Clients \ {c} : pc'[b] = pc[b]
    BY <1>0, <1>5 DEF StoreUser, StoreUserRaises, StoreReply, TypeOK
  <2>4. Kept(c)'
    BY <2>2, <2>3 DEF KeptInv, Kept
  <2>5. QED
    BY <2>2, <2>3, <2>4, KeptByOthers
<1>6. CASE UNCHANGED vars
  BY <1>6 DEF vars, KeptInv, Kept, Known
<1>7. QED
  BY <1>1, <1>2, <1>3, <1>4, <1>5, <1>6 DEF Next, Turns

\* What the turns stated that a summary took the place of is in memory, now or before,
\* or its ingestion raised, however the requests of other clients come between.
THEOREM CompactionTheorem == Spec => []NothingCompactedIsLost
<1>1. Init => KeptInv
  BY DEF Init, KeptInv, Kept
<1>2. KeptInv => NothingCompactedIsLost
  BY DEF KeptInv, Kept, Known, NothingCompactedIsLost
<1>3. QED
  BY <1>1, <1>2, TypeInit, TypeNext, KeptNext, PTL DEF Spec

------------------------------------------------------------------------------
(* One client at a time *)

\* The steps of the only client keep what it said and who spoke last.
LEMMA ExchangeNext ==
    ASSUME NEW c, Clients = {c}, TypeInv, ExchangeInv(c), [Next]_vars
    PROVE  ExchangeInv(c)'
<1> USE DEF request, memory, history
<1>0. TypeOK /\ c \in Clients /\ Lengths(c) /\ Single /\ Heard(c) /\ Spoken(c)
  BY DEF TypeInv, ExchangeInv
<1>1. ASSUME NEW turn \in Turns, NEW m \in Models, NEW s \in BOOLEAN,
             Ask(c, turn, m, s) \/ Retry(c, m, s)
      PROVE  ExchangeInv(c)'
  <2>1. /\ pc[c] \in {"idle", "failed"} /\ pc'[c] = "detect"
        /\ UNCHANGED <<lastModel, held, past, speaker, unsure, missed>>
    BY <1>0, <1>1 DEF Ask, Retry, TypeOK
  <2>2. QED
    BY <1>0, <2>1 DEF ExchangeInv, Single, Heard, Spoken, UserStored
<1>2. ASSUME DetectSwitch(c) \/ Summarize(c)
      PROVE  ExchangeInv(c)'
  <2>1. /\ pc[c] \in {"detect", "compact"}
        /\ pc'[c] \in {"compact", IF streams[c] THEN "user" ELSE "forward"}
        /\ UNCHANGED <<conv, model, streams, lastModel, held, past, speaker, unsure, missed>>
    BY <1>0, <1>2 DEF DetectSwitch, Summarize, Forwarding, TypeOK
  <2>2. ~UserStored(c)'
    BY <2>1 DEF UserStored
  <2>3. ~UserStored(c)
    BY <2>1 DEF UserStored
  <2>4. QED
    BY <1>0, <2>1, <2>2, <2>3 DEF ExchangeInv, Single, Heard, Spoken
<1>3. ASSUME CompactTurn(c)
      PROVE  ExchangeInv(c)'
  <2>1. PICK turn : turn = Head(todo[c])
    OBVIOUS
  <2>2. turn \in Turns
    BY <1>0, <1>3, <2>1, StatedHeadTail DEF CompactTurn, TypeOK, Turns
  <2>3. (Ingest(turn) /\ UNCHANGED missed) \/ IngestRaises(turn)
    BY <1>3, <2>1 DEF CompactTurn
  <2>4. Single'
    BY <1>0, <2>2, <2>3, MemoryStep
  <2>5. pc[c] = "compact" /\ UNCHANGED <<pc, model, lastModel, speaker, unsure>>
    BY <1>3 DEF CompactTurn
  <2>6. QED
    BY <1>0, <2>4, <2>5 DEF ExchangeInv, Heard, Spoken, UserStored
<1>4. ASSUME UpstreamFails(c) \/ AugmentRaises(c)
      PROVE  ExchangeInv(c)'
  <2>1. CASE UpstreamFails(c)
    <3>1. /\ pc[c] = "forward" /\ pc'[c] = "failed" /\ unsure' = (unsure \/ streams[c])
          /\ UNCHANGED <<lastModel, held, speaker>>
      BY <1>0, <2>1 DEF UpstreamFails, TypeOK
    <3>2. QED
      BY <1>0, <3>1 DEF ExchangeInv, Single, Heard, Spoken, UserStored
  <2>2. CASE AugmentRaises(c)
    <3>1. /\ pc[c] = (IF streams[c] THEN "user" ELSE "forward") /\ pc'[c] = "failed"
          /\ UNCHANGED <<lastModel, held, speaker, unsure>>
      BY <1>0, <2>2 DEF AugmentRaises, Forwarding, TypeOK
    <3>2. QED
      BY <1>0, <3>1 DEF ExchangeInv, Single, Heard, Spoken, UserStored
  <2>3. QED
    BY <1>4, <2>1, <2>2
<1>5. ASSUME NEW turn \in Turns, Reply(c, turn)
      PROVE  ExchangeInv(c)'
  <2>1. /\ pc[c] = "forward" /\ pc'[c] = IF streams[c] THEN "reply" ELSE "user"
        /\ conv'[c] = Append(conv[c], turn)
        /\ UNCHANGED <<model, streams, lastModel, held, speaker, unsure, missed>>
    BY <1>0, <1>5 DEF Reply, TypeOK
  <2>2. /\ Len(conv'[c]) = Len(conv[c]) + 1 /\ Len(conv[c]) \in Nat /\ Len(conv[c]) >= 1
        /\ \A n \in 1..Len(conv[c]) : conv'[c][n] = conv[c][n]
    BY <1>0, <2>1, AppendTurn DEF TypeOK, Turns, Lengths
  <2>3. streams[c] => UserStored(c) /\ Said(c)' = Said(c)
    BY <2>1, <2>2 DEF Said, UserStored
  <2>4. ~streams[c] => ~UserStored(c)' /\ ~UserStored(c)
    BY <2>1 DEF UserStored
  <2>5. QED
    BY <1>0, <2>1, <2>3, <2>4 DEF ExchangeInv, Single, Heard, Spoken, UserStored
<1>6. ASSUME StoreUser(c)
      PROVE  ExchangeInv(c)'
  <2>1. /\ pc[c] = "user" /\ pc'[c] = "model"
        /\ UNCHANGED <<conv, model, streams, lastModel, speaker, unsure, missed>>
    BY <1>0, <1>6 DEF StoreUser, TypeOK
  <2>2. PICK turn \in Turns : turn = UserTurn(c)
    BY <1>0, <2>1, SaidType
  <2>3. Ingest(turn)
    BY <1>6, <2>2 DEF StoreUser
  <2>4. Single' /\ (turn # Silent => held'[Employer] = {turn})
    BY <1>0, <2>1, <2>3, IngestStep
  <2>5. Said(c)' = turn
    BY <2>1, <2>2 DEF Said, UserTurn
  <2>6. QED
    BY <1>0, <2>1, <2>4, <2>5 DEF ExchangeInv, Heard, Spoken, UserStored
<1>7. ASSUME StoreUserRaises(c)
      PROVE  ExchangeInv(c)'
  <2>1. /\ pc[c] = "user" /\ pc'[c] = (IF streams[c] THEN "forward" ELSE "idle")
        /\ unsure' = TRUE /\ UNCHANGED <<conv, streams>>
    BY <1>0, <1>7 DEF StoreUserRaises, TypeOK
  <2>2. PICK turn \in Turns : turn = UserTurn(c)
    BY <1>0, <2>1, SaidType
  <2>3. IngestRaises(turn)
    BY <1>7, <2>2 DEF StoreUserRaises
  <2>4. Single' /\ (turn # Silent => missed' # {})
    BY <1>0, <2>3, RaiseStep
  <2>5. streams[c] => Said(c)' = turn
    BY <2>1, <2>2 DEF Said, UserTurn
  <2>6. QED
    BY <2>1, <2>4, <2>5 DEF ExchangeInv, Heard, Spoken, UserStored
<1>8. ASSUME StoreModel(c)
      PROVE  ExchangeInv(c)'
  <2>1. /\ pc[c] = "model" /\ pc'[c] = (IF streams[c] THEN "forward" ELSE "reply")
        /\ ~unsure' => lastModel' = model[c]
        /\ UNCHANGED <<conv, streams, model, held, missed>>
    BY <1>0, <1>8 DEF StoreModel, TypeOK
  <2>2. UserStored(c) /\ Said(c)' = Said(c)
    BY <2>1 DEF UserStored, Said
  <2>3. QED
    BY <1>0, <2>1, <2>2 DEF ExchangeInv, Single, Heard, Spoken, UserStored
<1>9. ASSUME StoreReply(c)
      PROVE  ExchangeInv(c)'
  <2>1. /\ pc[c] = "reply" /\ pc'[c] = "idle" /\ speaker' = model[c]
        /\ UNCHANGED <<lastModel, unsure>>
    BY <1>0, <1>9 DEF StoreReply, TypeOK
  <2>2. PICK turn \in Turns : (Ingest(turn) /\ UNCHANGED missed) \/ IngestRaises(turn)
    BY <1>0, <1>9, SaidType DEF StoreReply
  <2>3. Single'
    BY <1>0, <2>2, MemoryStep
  <2>4. QED
    BY <1>0, <2>1, <2>3 DEF ExchangeInv, Heard, Spoken, UserStored
<1>10. CASE UNCHANGED vars
  <2>1. ~unsure' <=> ~unsure
    BY <1>10 DEF vars
  <2>2. QED
    BY <1>0, <1>10 DEF vars, ExchangeInv, Single, Heard, Spoken, UserStored, Said
<1>11. QED
  BY <1>1, <1>2, <1>3, <1>4, <1>5, <1>6, <1>7, <1>8, <1>9, <1>10 DEF Next, Turns

LEMMA ExchangeInit ==
    ASSUME NEW c, Clients = {c}
    PROVE  Init => ExchangeInv(c)
  BY DEF Init, Ledger!Init, ExchangeInv, Single, Heard, Spoken, UserStored

LEMMA ExchangeInvariant ==
    ASSUME NEW s, Clients = {s}
    PROVE  Spec => [](TypeInv /\ ExchangeInv(s))
<1>1. Init => ExchangeInv(s)
  BY ExchangeInit
<1>2. TypeInv /\ ExchangeInv(s) /\ [Next]_vars => ExchangeInv(s)'
  BY ExchangeNext
<1>3. QED
  BY <1>1, <1>2, TypeInit, TypeNext, PTL DEF Spec

\* The steps that ExchangeWins and SwitchIsSeen are about.
Wins(c) ==
    /\ pc[c] = "reply" /\ pc'[c] = "idle"
    /\ missed' = {}
    => LET user == conv[c][Len(conv[c]) - 1]
           latest == IF ReplyTurn(c) # Silent THEN ReplyTurn(c) ELSE user
       IN latest # Silent => held'[Employer] = {latest}

Seen(c) ==
    /\ pc[c] = "detect" /\ pc'[c] # "detect"
    /\ ~unsure /\ ~unread'[c]
    => (switched'[c] <=> speaker \notin {NoModel, model[c]})

\* With one client, an exchange that states a value leaves memory believing that value,
\* the reply's over the user's, although the old turns that its compaction ingested may
\* have stated others.
THEOREM ExchangeTheorem ==
    ASSUME NEW s, Clients = {s}
    PROVE  Spec => ExchangeWins
<1> DEFINE latest == IF ReplyTurn(s) # Silent THEN ReplyTurn(s)
                     ELSE conv[s][Len(conv[s]) - 1]
<1>1. TypeInv /\ ExchangeInv(s) /\ [Next]_vars => [\A c \in Clients : Wins(c)]_vars
  <2> SUFFICES ASSUME TypeInv, ExchangeInv(s), [Next]_vars,
                      pc[s] = "reply", pc'[s] = "idle", missed' = {}, latest # Silent
               PROVE  held'[Employer] = {latest}
    BY DEF Wins
  <2>0. TypeOK /\ Single /\ Heard(s)
    BY DEF TypeInv, ExchangeInv
  <2>1. StoreReply(s)
    BY <2>0 DEF Next, vars, TypeOK, Ask, Retry, DetectSwitch, CompactTurn, Summarize,
                AugmentRaises, Forwarding, UpstreamFails, Reply, StoreUser, StoreUserRaises, StoreModel
  <2>2. PICK turn \in Turns : turn = ReplyTurn(s)
    BY SaidType
  <2>3. (Ingest(turn) /\ UNCHANGED missed) \/ IngestRaises(turn)
    BY <2>1, <2>2 DEF StoreReply
  <2>4. /\ turn # Silent => held'[Employer] = {turn}
        /\ turn = Silent => held'[Employer] = held[Employer]
        /\ missed \subseteq missed'
    BY <2>0, <2>2, <2>3, MemoryStep
  <2>5. Said(s) = conv[s][Len(conv[s]) - 1]
    BY DEF Said
  <2>6. Said(s) # Silent => held[Employer] = {Said(s)}
    BY <2>0, <2>4 DEF Heard, UserStored
  <2>7. QED
    BY <2>2, <2>4, <2>5, <2>6
<1>2. Spec => [](TypeInv /\ ExchangeInv(s))
  BY ExchangeInvariant, PTL
<1>3. QED
  BY <1>1, <1>2, PTL DEF Spec, ExchangeWins, Wins

\* With one client, a request is found to switch models exactly when another model
\* completed the last exchange, unless the last model cannot be read, or a failure has
\* left open whether it is the speaker.
THEOREM SwitchTheorem ==
    ASSUME NEW s, Clients = {s}
    PROVE  Spec => SwitchIsSeen
<1>1. TypeInv /\ ExchangeInv(s) /\ [Next]_vars => [\A c \in Clients : Seen(c)]_vars
  <2> SUFFICES ASSUME TypeInv, ExchangeInv(s), [Next]_vars,
                      pc[s] = "detect", pc'[s] # "detect", ~unsure, ~unread'[s]
               PROVE  switched'[s] <=> speaker \notin {NoModel, model[s]}
    BY DEF Seen
  <2>1. TypeOK /\ lastModel = speaker
    BY DEF TypeInv, ExchangeInv, Spoken, UserStored
  <2>2. DetectSwitch(s)
    BY <2>1 DEF Next, vars, TypeOK, Ask, Retry, CompactTurn, Summarize,
                AugmentRaises, Forwarding, UpstreamFails, Reply, StoreUser, StoreUserRaises, StoreModel, StoreReply
  <2>3. switched'[s] = (lastModel \notin {NoModel, model[s]})
    BY <2>1, <2>2 DEF DetectSwitch, TypeOK
  <2>4. QED
    BY <2>1, <2>3
<1>2. Spec => [](TypeInv /\ ExchangeInv(s))
  BY ExchangeInvariant, PTL
<1>3. QED
  BY <1>1, <1>2, PTL DEF Spec, SwitchIsSeen, Seen

==============================================================================
