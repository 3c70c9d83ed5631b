--------------------------- MODULE ChatProxy_proofs ---------------------------
(***************************************************************************)
(* Proofs about ChatProxy: type correctness, the frames that a client gets *)
(* and what is remembered of an exchange, the text of a reply included,    *)
(* however the network cuts it.                                            *)
(***************************************************************************)
EXTENDS ChatProxy, Induction, FiniteSetTheorems, SequenceTheorems, TLAPS

Items == Chunks \cup Markers

\* How far the job of a request has got with its reply.
Progress(r) ==
    /\ failed[r] => job[r] \in {"closing", "finished"}
    /\ job[r] \in {"none", "queued", "augment"} => pulled[r] = 0
    /\ Streams(r) /\ job[r] = "user" => pulled[r] = 0
    /\ ~Streams(r) /\ job[r] = "user" => pulled[r] = Len(reply[r])
    /\ job[r] = "reply" => pulled[r] = Len(reply[r])
    /\ job[r] \in {"closing", "finished"} /\ ~failed[r] => pulled[r] = Len(reply[r])
    /\ ~Streams(r) => queue[r] = <<>>

TypeInv == TypeOK /\ IsFiniteSet(Busy) /\ \A r \in Requests : Progress(r)

\* What the job of a stream has handed over: the chunks it has received, an error if
\* it failed, the end marker if it is over.
EmittedLen(r) ==
    pulled[r] + (IF failed[r] THEN 1 ELSE 0) + (IF job[r] = "finished" THEN 1 ELSE 0)

EmittedAt(r, i) ==
    IF i <= pulled[r] THEN reply[r][i]
    ELSE IF failed[r] /\ i = pulled[r] + 1 THEN "error"
    ELSE "end"

\* All of it is sent or in the queue, in order.
InLine(r) ==
    /\ Len(sent[r]) - 1 + Len(queue[r]) = EmittedLen(r)
    /\ \A i \in 1..(Len(sent[r]) - 1) : sent[r][i + 1] = EmittedAt(r, i)
    /\ \A i \in 1..Len(queue[r]) : queue[r][i] = EmittedAt(r, Len(sent[r]) - 1 + i)

\* The response ends with the end marker, which the job hands over last.
Flow(r) ==
    /\ Ended(r) => job[r] = "finished"
    /\ Streams(r) =>
        /\ sent[r] = <<>> => queue[r] = <<>> /\ job[r] = "none"
        /\ sent[r] # <<>> =>
              /\ InLine(r)
              /\ job[r] = "finished" => (Ended(r) <=> queue[r] = <<>>)

FlowInv == \A r \in Requests : Flow(r)

\* What is stored of an exchange, as far as its job has got.
Stored(r) ==
    ~raised[r] =>
        /\ job[r] \in {"none", "queued", "augment", "user"} => memory[r] = {}
        /\ job[r] = "forward" => memory[r] = IF Streams(r) THEN {"user", "model"} ELSE {}
        /\ job[r] = "reply" => HasText(r) /\ memory[r] = {"user", "model"}
        /\ job[r] \in {"closing", "finished"} /\ ~failed[r] =>
              memory[r] = {"user", "model"} \cup (IF HasText(r) THEN {"reply"} ELSE {})

StoredInv == \A r \in Requests : Stored(r)

------------------------------------------------------------------------------
(* Type correctness *)

LEMMA TypeInit == Init => TypeInv
<1> SUFFICES ASSUME Init
             PROVE  TypeInv
  OBVIOUS
<1>1. Busy = {}
  BY DEF Init, Busy
<1>2. IsFiniteSet(Busy) /\ Cardinality(Busy) <= Threads
  BY <1>1, FS_EmptySet, ThreadsAssumption
<1>3. TypeOK
  <2>1. pulled \in [Requests -> Nat] /\ \A r \in Requests : pulled[r] <= Len(reply[r])
    BY RepliesAssumption, LenProperties DEF Init
  <2>2. QED
    BY <1>2, <2>1 DEF Init, TypeOK
<1>4. \A r \in Requests : Progress(r)
  BY DEF Init, Progress
<1>5. QED
  BY <1>2, <1>3, <1>4 DEF TypeInv

\* A thread is taken only if there is one.
LEMMA BusyStep ==
    ASSUME TypeInv, NEW r \in Requests,
           \A q \in Requests \ {r} : job'[q] = job[q],
           \/ job'[r] \in {"none", "queued", "finished"}
           \/ r \in Busy
           \/ Cardinality(Busy) < Threads
    PROVE  IsFiniteSet(Busy') /\ Cardinality(Busy') <= Threads
<1>0. IsFiniteSet(Busy) /\ Cardinality(Busy) <= Threads /\ Cardinality(Busy) \in Nat
  BY FS_CardinalityType DEF TypeInv, TypeOK
<1>1. CASE Busy' \subseteq Busy
  <2>1. IsFiniteSet(Busy') /\ Cardinality(Busy') <= Cardinality(Busy)
    BY <1>0, <1>1, FS_Subset
  <2>2. Cardinality(Busy') \in Nat
    BY <2>1, FS_CardinalityType
  <2>3. QED
    BY <1>0, <2>1, <2>2, ThreadsAssumption
<1>2. CASE ~(Busy' \subseteq Busy)
  <2>1. r \notin Busy /\ Busy' = Busy \cup {r} /\ Cardinality(Busy) < Threads
    BY <1>2 DEF Busy
  <2>2. IsFiniteSet(Busy \cup {r}) /\ Cardinality(Busy \cup {r}) = Cardinality(Busy) + 1
    BY <1>0, <2>1, FS_AddElement
  <2>3. QED
    BY <1>0, <2>1, <2>2, ThreadsAssumption
<1>3. QED
  BY <1>1, <1>2

\* A request keeps its progress while nothing of it changes.
Untouched(q) ==
    UNCHANGED <<kind[q], reply[q], pulled[q], handler[q], job[q], queue[q], sent[q],
                failed[q], raised[q], memory[q]>>

\* A step is one request's: it leaves the others alone.
LEMMA OneRequest ==
    ASSUME TypeOK, NEW r \in Requests, Handling(r) \/ Working(r) \/ Disconnect(r)
    PROVE  /\ UNCHANGED <<kind, reply>>
           /\ \A q \in Requests \ {r} : Untouched(q)
<1>1. CASE Handling(r) \/ Disconnect(r)
  BY <1>1 DEF TypeOK, Handling, Arrive, StartResponse, SendNext, Respond, SendRaises,
              Disconnect, Untouched, input
<1>2. CASE Working(r)
  <2>1. CASE StartJob(r) \/ Augment(r) \/ ReceiveChunk(r) \/ UpstreamEnds(r) \/ CloseJob(r)
    <3>1. CASE StartJob(r) \/ Augment(r)
      BY <3>1 DEF TypeOK, StartJob, Augment, Untouched, input
    <3>2. CASE ReceiveChunk(r)
      BY <3>2 DEF TypeOK, ReceiveChunk, Untouched, input
    <3>3. CASE UpstreamEnds(r) \/ CloseJob(r)
      BY <3>3 DEF TypeOK, UpstreamEnds, CloseJob, Untouched, input
    <3>4. QED
      BY <2>1, <3>1, <3>2, <3>3
  <2>2. CASE AugmentRaises(r) \/ UpstreamFails(r)
    BY <2>2 DEF TypeOK, AugmentRaises, UpstreamFails, Fail, Untouched, input
  <2>3. CASE StoreUserAndModel(r) \/ StoreUserRaises(r)
    BY <2>3 DEF TypeOK, StoreUserAndModel, StoreUserRaises, Untouched, input
  <2>4. CASE StoreReply(r) \/ StoreReplyRaises(r)
    BY <2>4 DEF TypeOK, StoreReply, StoreReplyRaises, Untouched, input
  <2>5. QED
    BY <1>2, <2>1, <2>2, <2>3, <2>4 DEF Working
<1>3. QED
  BY <1>1, <1>2

\* The types of one request's part of the state.
TypeOf(r) ==
    /\ pulled[r] \in 0..Len(reply[r])
    /\ handler[r] \in {"none", "starting", "waiting", "ended", "gone"}
    /\ job[r] \in {"none", "queued", "augment", "user", "forward", "reply", "closing",
                   "finished"}
    /\ job[r] # "none" => handler[r] \notin {"none", "starting"}
    /\ queue[r] \in Seq(Items) /\ sent[r] \in Seq(Items)
    /\ failed[r] \in BOOLEAN /\ raised[r] \in BOOLEAN
    /\ memory[r] \in SUBSET {"user", "model", "reply"}

LEMMA TypeOfOK == TypeOK => \A r \in Requests : TypeOf(r)
<1> SUFFICES ASSUME TypeOK, NEW r \in Requests
             PROVE  TypeOf(r)
  OBVIOUS
<1>1. reply[r] \in Seq(Chunks) /\ Len(reply[r]) \in Nat
  BY RepliesAssumption, LenProperties DEF TypeOK
<1>2. pulled[r] \in 0..Len(reply[r])
  BY <1>1 DEF TypeOK
<1>3. QED
  BY <1>2 DEF TypeOK, TypeOf, Items

\* A chunk of the reply that has not come yet, and the head and the tail of the queue.
LEMMA ReplyType ==
    ASSUME TypeOK, NEW r \in Requests
    PROVE  /\ reply[r] \in Seq(Chunks) /\ Len(reply[r]) \in Nat /\ pulled[r] \in Nat
           /\ pulled[r] < Len(reply[r]) => reply[r][pulled[r] + 1] \in Chunks
           /\ queue[r] # <<>> => Head(queue[r]) \in Items /\ Tail(queue[r]) \in Seq(Items)
<1>1. reply[r] \in Seq(Chunks) /\ Len(reply[r]) \in Nat /\ pulled[r] \in 0..Len(reply[r])
  BY RepliesAssumption, LenProperties, TypeOfOK DEF TypeOK, TypeOf
<1>2. pulled[r] < Len(reply[r]) => reply[r][pulled[r] + 1] \in Chunks
  BY <1>1, ElementOfSeq
<1>3. queue[r] # <<>> => Head(queue[r]) \in Items /\ Tail(queue[r]) \in Seq(Items)
  BY HeadTailProperties DEF TypeOK, Items
<1>4. QED
  BY <1>1, <1>2, <1>3

\* What each step does to its own request.
LEMMA OwnStep ==
    ASSUME TypeInv, NEW r \in Requests, Handling(r) \/ Working(r) \/ Disconnect(r)
    PROVE  /\ TypeOf(r)' /\ Progress(r)'
           /\ \/ job'[r] \in {"none", "queued", "finished"}
              \/ r \in Busy
              \/ Cardinality(Busy) < Threads
<1>0. TypeOK /\ TypeOf(r) /\ Progress(r)
  BY TypeOfOK DEF TypeInv
<1>1. /\ reply[r] \in Seq(Chunks) /\ Len(reply[r]) \in Nat /\ pulled[r] \in Nat
      /\ pulled[r] < Len(reply[r]) => reply[r][pulled[r] + 1] \in Chunks
      /\ queue[r] # <<>> => Head(queue[r]) \in Items /\ Tail(queue[r]) \in Seq(Items)
  BY <1>0, ReplyType
<1>2. UNCHANGED <<kind, reply>>
  BY <1>0, OneRequest
<1> USE DEF TypeOf, Progress, Ended, Streams, Busy
<1>3. CASE Arrive(r)
  BY <1>0, <1>2, <1>3 DEF Arrive, TypeOK
<1>4. CASE StartResponse(r)
  <2>1. <<"start">> \in Seq(Items)
    BY DEF Items, Markers
  <2>2. QED
    BY <1>0, <1>2, <1>4, <2>1 DEF StartResponse, TypeOK
<1>5. CASE SendNext(r)
  <2>1. Append(sent[r], Head(queue[r])) \in Seq(Items)
    BY <1>0, <1>1, <1>5, AppendProperties DEF SendNext
  <2>2. TypeOf(r)' /\ job' = job
    BY <1>0, <1>1, <1>2, <1>5, <2>1 DEF SendNext, TypeOK
  <2>3. Progress(r)'
    BY <1>0, <1>2, <1>5 DEF SendNext, TypeOK
  <2>4. QED
    BY <1>0, <2>2, <2>3
<1>6. CASE Respond(r)
  <2>1. <<"start", IF failed[r] THEN "error" ELSE "result">> \in Seq(Items)
    <3>1. <<"start", "error">> \in Seq(Items) /\ <<"start", "result">> \in Seq(Items)
      BY DEF Items, Markers
    <3>2. QED
      BY <3>1
  <2>2. QED
    BY <1>0, <1>2, <1>6, <2>1 DEF Respond, TypeOK
<1>7. CASE SendRaises(r) \/ Disconnect(r)
  BY <1>0, <1>2, <1>7 DEF SendRaises, Disconnect, TypeOK
<1>8. CASE StartJob(r) \/ Augment(r)
  BY <1>0, <1>2, <1>8 DEF StartJob, Augment, TypeOK
<1>9. CASE AugmentRaises(r) \/ UpstreamFails(r)
  <2>1. Append(queue[r], "error") \in Seq(Items)
    BY <1>0, AppendProperties DEF Items, Markers
  <2>2. Fail(r) /\ job[r] \in {"augment", "forward"}
    BY <1>9 DEF AugmentRaises, UpstreamFails
  <2>3. QED
    BY <1>0, <1>2, <2>1, <2>2 DEF Fail, TypeOK
<1>10. CASE ReceiveChunk(r)
  <2>1. Append(queue[r], reply[r][pulled[r] + 1]) \in Seq(Items)
    BY <1>0, <1>1, <1>10, AppendProperties DEF ReceiveChunk, Items
  <2>2. QED
    BY <1>0, <1>1, <1>2, <1>10, <2>1 DEF ReceiveChunk, TypeOK
<1>11. CASE UpstreamEnds(r)
  BY <1>0, <1>1, <1>2, <1>11 DEF UpstreamEnds, AfterReply, TypeOK
<1>12. CASE StoreUserAndModel(r) \/ StoreUserRaises(r)
  <2>1. CASE StoreUserAndModel(r)
    <3>1. /\ job[r] = "user" /\ UNCHANGED <<pulled, handler, queue, sent, failed, raised>>
          /\ job'[r] \in IF Streams(r) THEN {"forward"} ELSE {"reply", "closing"}
          /\ memory'[r] = memory[r] \cup {"user", "model"}
      BY <1>0, <2>1 DEF StoreUserAndModel, AfterReply, TypeOK
    <3>2. QED
      BY <1>0, <1>2, <3>1
  <2>2. CASE StoreUserRaises(r)
    BY <1>0, <1>2, <2>2 DEF StoreUserRaises, TypeOK
  <2>3. QED
    BY <1>12, <2>1, <2>2
<1>13. CASE StoreReply(r) \/ StoreReplyRaises(r)
  <2>1. CASE StoreReply(r)
    <3>1. /\ job[r] = "reply" /\ UNCHANGED <<pulled, handler, queue, sent, failed, raised>>
          /\ job'[r] = "closing" /\ memory'[r] = memory[r] \cup {"reply"}
      BY <1>0, <2>1 DEF StoreReply, TypeOK
    <3>2. QED
      BY <1>0, <1>2, <3>1
  <2>2. CASE StoreReplyRaises(r)
    BY <1>0, <1>2, <2>2 DEF StoreReplyRaises, TypeOK
  <2>3. QED
    BY <1>13, <2>1, <2>2
<1>14. CASE CloseJob(r)
  <2>1. Append(queue[r], "end") \in Seq(Items)
    BY <1>0, AppendProperties DEF Items, Markers
  <2>2. QED
    BY <1>0, <1>2, <1>14, <2>1 DEF CloseJob, TypeOK
<1>15. QED
  BY <1>3, <1>4, <1>5, <1>6, <1>7, <1>8, <1>9, <1>10, <1>11, <1>12, <1>13, <1>14
  DEF Handling, Working

\* A step changes each part of the state in one place at most.
OnePlace(r) ==
    /\ pulled' = [pulled EXCEPT ![r] = pulled'[r]]
    /\ handler' = [handler EXCEPT ![r] = handler'[r]]
    /\ job' = [job EXCEPT ![r] = job'[r]]
    /\ queue' = [queue EXCEPT ![r] = queue'[r]]
    /\ sent' = [sent EXCEPT ![r] = sent'[r]]
    /\ failed' = [failed EXCEPT ![r] = failed'[r]]
    /\ raised' = [raised EXCEPT ![r] = raised'[r]]
    /\ memory' = [memory EXCEPT ![r] = memory'[r]]
    /\ connected' \in [Requests -> BOOLEAN]

LEMMA OnePlaceStep ==
    ASSUME TypeOK, NEW r \in Requests, Handling(r) \/ Working(r) \/ Disconnect(r)
    PROVE  OnePlace(r)
<1> USE DEF TypeOK, OnePlace
<1>1. CASE Arrive(r)
  BY <1>1 DEF Arrive
<1>2. CASE StartResponse(r)
  BY <1>2 DEF StartResponse
<1>3. CASE SendNext(r)
  BY <1>3 DEF SendNext
<1>4. CASE Respond(r)
  BY <1>4 DEF Respond
<1>5. CASE SendRaises(r) \/ Disconnect(r)
  BY <1>5 DEF SendRaises, Disconnect
<1>6. CASE StartJob(r) \/ Augment(r)
  BY <1>6 DEF StartJob, Augment
<1>7. CASE AugmentRaises(r) \/ UpstreamFails(r)
  BY <1>7 DEF AugmentRaises, UpstreamFails, Fail
<1>8. CASE ReceiveChunk(r) \/ UpstreamEnds(r)
  BY <1>8 DEF ReceiveChunk, UpstreamEnds
<1>9. CASE StoreUserAndModel(r) \/ StoreUserRaises(r)
  BY <1>9 DEF StoreUserAndModel, StoreUserRaises
<1>10. CASE StoreReply(r) \/ StoreReplyRaises(r)
  BY <1>10 DEF StoreReply, StoreReplyRaises
<1>11. CASE CloseJob(r)
  BY <1>11 DEF CloseJob
<1>12. QED
  BY <1>1, <1>2, <1>3, <1>4, <1>5, <1>6, <1>7, <1>8, <1>9, <1>10, <1>11
  DEF Handling, Working

LEMMA ExceptType ==
    ASSUME NEW S, NEW T, NEW f \in [S -> T], NEW x \in S, NEW g,
           g = [f EXCEPT ![x] = g[x]], g[x] \in T
    PROVE  g \in [S -> T]
  OBVIOUS

LEMMA TypeNext == TypeInv /\ [Next]_vars => TypeInv'
<1> SUFFICES ASSUME TypeInv, [Next]_vars
             PROVE  TypeInv'
  OBVIOUS
<1>0. TypeOK
  BY DEF TypeInv
<1>1. ASSUME NEW r \in Requests, Handling(r) \/ Working(r) \/ Disconnect(r)
      PROVE  TypeInv'
  <2>1. /\ UNCHANGED <<kind, reply>>
        /\ \A q \in Requests \ {r} : Untouched(q)
    BY <1>0, <1>1, OneRequest
  <2>2. TypeOf(r)' /\ Progress(r)'
    BY <1>1, OwnStep
  <2>3. OnePlace(r)
    BY <1>0, <1>1, OnePlaceStep
  <2>4. IsFiniteSet(Busy') /\ Cardinality(Busy') <= Threads
    <3>1. \/ job'[r] \in {"none", "queued", "finished"}
          \/ r \in Busy
          \/ Cardinality(Busy) < Threads
      BY <1>1, OwnStep
    <3>2. \A q \in Requests \ {r} : job'[q] = job[q]
      BY <2>1 DEF Untouched
    <3>3. QED
      BY <3>1, <3>2, BusyStep
  <2>5. \A q \in Requests : TypeOf(q)' /\ Progress(q)'
    <3>1. ASSUME NEW q \in Requests, q # r
          PROVE  TypeOf(q)' /\ Progress(q)'
      <4>1. TypeOf(q) /\ Progress(q) /\ Untouched(q)
        BY <1>0, <2>1, <3>1, TypeOfOK DEF TypeInv
      <4>2. QED
        BY <4>1 DEF TypeOf, Progress, Untouched, Streams
    <3>2. QED
      BY <2>2, <3>1
  <2>6. TypeOK'
    <3>1. kind' \in [Requests -> {"stream", "plain"}] /\ reply' \in [Requests -> Replies]
      BY <1>0, <2>1 DEF TypeOK
    <3>2. /\ handler' \in [Requests -> {"none", "starting", "waiting", "ended", "gone"}]
          /\ job' \in [Requests -> {"none", "queued", "augment", "user", "forward",
                                     "reply", "closing", "finished"}]
      <4>1. handler' \in [Requests -> {"none", "starting", "waiting", "ended", "gone"}]
        <5>1. /\ handler \in [Requests -> {"none", "starting", "waiting", "ended", "gone"}]
              /\ handler'[r] \in {"none", "starting", "waiting", "ended", "gone"}
              /\ handler' = [handler EXCEPT ![r] = handler'[r]]
          BY <1>0, <2>2, <2>3 DEF TypeOK, OnePlace, TypeOf
        <5>2. QED
          BY <5>1, ExceptType
      <4>2. job' \in [Requests -> {"none", "queued", "augment", "user", "forward",
                                   "reply", "closing", "finished"}]
        <5>1. /\ job \in [Requests -> {"none", "queued", "augment", "user", "forward",
                                        "reply", "closing", "finished"}]
              /\ job'[r] \in {"none", "queued", "augment", "user", "forward", "reply",
                               "closing", "finished"}
              /\ job' = [job EXCEPT ![r] = job'[r]]
          BY <1>0, <2>2, <2>3 DEF TypeOK, OnePlace, TypeOf
        <5>2. QED
          BY <5>1, ExceptType
      <4>3. QED
        BY <4>1, <4>2
    <3>3. /\ queue' \in [Requests -> Seq(Items)]
          /\ sent' \in [Requests -> Seq(Items)]
      BY <1>0, <2>2, <2>3 DEF TypeOK, OnePlace, TypeOf, Items
    <3>4. /\ failed' \in [Requests -> BOOLEAN]
          /\ raised' \in [Requests -> BOOLEAN]
          /\ memory' \in [Requests -> SUBSET {"user", "model", "reply"}]
      <4>1. failed' \in [Requests -> BOOLEAN] /\ raised' \in [Requests -> BOOLEAN]
        BY <1>0, <2>2, <2>3 DEF TypeOK, OnePlace, TypeOf
      <4>2. /\ memory \in [Requests -> SUBSET {"user", "model", "reply"}]
            /\ memory'[r] \in SUBSET {"user", "model", "reply"}
            /\ memory' = [memory EXCEPT ![r] = memory'[r]]
        BY <1>0, <2>2, <2>3 DEF TypeOK, OnePlace, TypeOf
      <4>3. QED
        BY <4>1, <4>2, ExceptType
    <3>5. /\ pulled' \in [Requests -> Nat]
          /\ \A q \in Requests : (pulled[q] <= Len(reply[q]))'
          /\ \A q \in Requests : (job[q] # "none" => handler[q] \notin {"none", "starting"})'
      <4>1. \A q \in Requests : reply'[q] \in Seq(Chunks) /\ Len(reply'[q]) \in Nat
        BY <3>1, RepliesAssumption, LenProperties
      <4>2. \A q \in Requests : pulled'[q] \in 0..Len(reply'[q])
        BY <2>5 DEF TypeOf
      <4>3. \A q \in Requests : pulled'[q] \in Nat /\ pulled'[q] <= Len(reply'[q])
        BY <4>1, <4>2
      <4>4. pulled' \in [Requests -> Nat]
        BY <1>0, <2>3, <4>3, ExceptType DEF TypeOK, OnePlace
      <4>5. QED
        BY <2>5, <4>3, <4>4 DEF TypeOf
    <3>6. QED
      BY <2>3, <2>4, <3>1, <3>2, <3>3, <3>4, <3>5 DEF TypeOK, OnePlace, Items
  <2>7. QED
    BY <2>4, <2>5, <2>6 DEF TypeInv
<1>2. CASE UNCHANGED vars
  BY <1>2 DEF TypeInv, TypeOK, Progress, Busy, Streams, vars, input
<1>3. QED
  BY <1>1, <1>2 DEF Next

LEMMA TypeTheorem == Spec => []TypeInv
  BY TypeInit, TypeNext, PTL DEF Spec

\* The state of every request is well formed, no more jobs run than the executor has
\* threads, and the job of a stream does not begin before its head is sent, for any
\* requests, replies and failures (_stream_response and _run_sync of the proxy).
THEOREM ChatTypeCorrect == Spec => []TypeOK
<1>1. TypeInv => TypeOK
  BY DEF TypeInv
<1>2. QED
  BY <1>1, TypeTheorem, PTL

------------------------------------------------------------------------------
(* What is stored of an exchange *)

LEMMA StoredInit == Init => StoredInv
  BY DEF Init, StoredInv, Stored

\* The text of a request is that of the chunks it has received.
LEMMA HasTextKept ==
    ASSUME NEW q \in Requests, UNCHANGED <<kind[q], reply[q], pulled[q]>>
    PROVE  HasText(q)' <=> HasText(q)
  BY DEF HasText, Recorded, Received, Streams

LEMMA StoredStep ==
    ASSUME TypeInv, NEW r \in Requests, Stored(r), Handling(r) \/ Working(r) \/ Disconnect(r)
    PROVE  Stored(r)'
<1>0. TypeOK /\ TypeOf(r) /\ Progress(r)
  BY TypeOfOK DEF TypeInv
<1>1. UNCHANGED <<kind, reply>> /\ OnePlace(r)
  BY <1>0, OneRequest, OnePlaceStep
<1>2. CASE Handling(r) \/ Disconnect(r)
  <2>1. CASE Arrive(r)
    BY <1>0, <2>1 DEF Arrive, Stored, TypeOK
  <2>2. CASE StartResponse(r)
    BY <1>0, <2>2 DEF StartResponse, Stored, TypeOK, TypeOf
  <2>3. CASE SendNext(r) \/ Respond(r) \/ SendRaises(r) \/ Disconnect(r)
    <3>1. UNCHANGED <<kind, reply, pulled, job, failed, raised, memory>>
      BY <2>3 DEF SendNext, Respond, SendRaises, Disconnect, input
    <3>2. HasText(r)' <=> HasText(r)
      BY <3>1, HasTextKept
    <3>3. QED
      BY <3>1, <3>2 DEF Stored, Streams
  <2>4. QED
    BY <1>2, <2>1, <2>2, <2>3 DEF Handling
<1>3. CASE ReceiveChunk(r)
  BY <1>1, <1>3 DEF ReceiveChunk, Stored, Streams
<1>4. CASE Working(r) /\ ~ReceiveChunk(r)
  <2>1. UNCHANGED pulled
    BY <1>4 DEF Working, StartJob, Augment, AugmentRaises, UpstreamFails, Fail, UpstreamEnds,
                StoreUserAndModel, StoreUserRaises, StoreReply, StoreReplyRaises, CloseJob
  <2>2. HasText(r)' <=> HasText(r)
    BY <1>1, <2>1, HasTextKept
  <2>3. CASE StartJob(r) \/ Augment(r)
    <3>1. /\ \/ job[r] = "queued" /\ job'[r] = "augment"
             \/ job[r] = "augment" /\ job'[r] = IF Streams(r) THEN "user" ELSE "forward"
          /\ UNCHANGED <<failed, raised, memory>>
      BY <1>0, <2>3 DEF StartJob, Augment, TypeOK
    <3>2. QED
      BY <1>1, <3>1 DEF Stored, Streams
  <2>4. CASE AugmentRaises(r) \/ UpstreamFails(r)
    BY <1>0, <1>1, <2>4 DEF AugmentRaises, UpstreamFails, Fail, Stored, TypeOK
  <2>5. CASE UpstreamEnds(r)
    <3>1. /\ job[r] = "forward" /\ UNCHANGED <<failed, raised, memory>>
          /\ job'[r] = IF Streams(r) THEN AfterReply(r) ELSE "user"
      BY <1>0, <2>5 DEF UpstreamEnds, TypeOK
    <3>2. QED
      BY <1>1, <2>2, <3>1 DEF Stored, Streams, AfterReply
  <2>6. CASE StoreUserAndModel(r)
    <3>1. /\ job[r] = "user" /\ UNCHANGED <<failed, raised>>
          /\ job'[r] = IF Streams(r) THEN "forward" ELSE AfterReply(r)
          /\ memory'[r] = memory[r] \cup {"user", "model"}
      BY <1>0, <2>6 DEF StoreUserAndModel, TypeOK
    <3>2. ~raised[r] => memory'[r] = {"user", "model"}
      BY <3>1 DEF Stored
    <3>3. QED
      BY <1>1, <2>2, <3>1, <3>2 DEF Stored, Streams, AfterReply
  <2>7. CASE StoreUserRaises(r) \/ StoreReplyRaises(r)
    BY <1>0, <2>7 DEF StoreUserRaises, StoreReplyRaises, Stored, TypeOK
  <2>8. CASE StoreReply(r)
    <3>1. /\ job[r] = "reply" /\ UNCHANGED <<failed, raised>>
          /\ job'[r] = "closing" /\ memory'[r] = memory[r] \cup {"reply"}
      BY <1>0, <2>8 DEF StoreReply, TypeOK
    <3>2. QED
      BY <2>2, <3>1 DEF Stored
  <2>9. CASE CloseJob(r)
    <3>1. /\ job[r] = "closing" /\ UNCHANGED <<failed, raised, memory>>
          /\ job'[r] = "finished"
      BY <1>0, <2>9 DEF CloseJob, TypeOK
    <3>2. QED
      BY <2>2, <3>1 DEF Stored
  <2>10. QED
    BY <1>4, <2>3, <2>4, <2>5, <2>6, <2>7, <2>8, <2>9 DEF Working
<1>5. QED
  BY <1>2, <1>3, <1>4

LEMMA StoredNext == TypeInv /\ StoredInv /\ [Next]_vars => StoredInv'
<1> SUFFICES ASSUME TypeInv, StoredInv, [Next]_vars, NEW q \in Requests
             PROVE  Stored(q)'
  BY DEF StoredInv
<1>0. TypeOK /\ Stored(q)
  BY DEF TypeInv, StoredInv
<1>1. ASSUME NEW r \in Requests, Handling(r) \/ Working(r) \/ Disconnect(r)
      PROVE  Stored(q)'
  <2>1. CASE q = r
    BY <1>0, <1>1, <2>1, StoredStep
  <2>2. CASE q # r
    <3>1. Untouched(q)
      BY <1>0, <1>1, <2>2, OneRequest
    <3>2. HasText(q)' <=> HasText(q)
      BY <3>1, HasTextKept DEF Untouched
    <3>3. QED
      BY <1>0, <3>1, <3>2 DEF Stored, Untouched, Streams
  <2>3. QED
    BY <2>1, <2>2
<1>2. CASE UNCHANGED vars
  <2>1. HasText(q)' <=> HasText(q)
    BY <1>2, HasTextKept DEF vars, input
  <2>2. QED
    BY <1>0, <1>2, <2>1 DEF Stored, vars, input, Streams
<1>3. QED
  BY <1>1, <1>2 DEF Next

------------------------------------------------------------------------------
(* What the client of a stream is sent *)

LEMMA FlowInit == Init => FlowInv
  BY DEF Init, FlowInv, Flow, Ended

\* The job hands over one more item.
LEMMA Emit ==
    ASSUME NEW r, TypeOf(r), sent[r] # <<>>, InLine(r), EmittedLen(r) \in Nat,
           NEW x \in Items,
           queue'[r] = Append(queue[r], x), sent'[r] = sent[r],
           EmittedLen(r)' = EmittedLen(r) + 1,
           \A i \in 1..EmittedLen(r) : EmittedAt(r, i)' = EmittedAt(r, i),
           EmittedAt(r, EmittedLen(r))' = x
    PROVE  InLine(r)' /\ queue'[r] # <<>>
<1>1. PICK n \in Nat : n = Len(sent[r]) - 1 /\ Len(sent[r]) = n + 1
  <2>1. Len(sent[r]) \in Nat \ {0}
    BY EmptySeq DEF TypeOf
  <2>2. Len(sent[r]) - 1 \in Nat /\ Len(sent[r]) = (Len(sent[r]) - 1) + 1
    BY <2>1
  <2>3. QED
    BY <2>2
<1>2. PICK m \in Nat : m = Len(queue[r])
  BY LenProperties DEF TypeOf
<1>3. /\ Len(queue'[r]) = m + 1 /\ queue'[r] # <<>> /\ queue'[r][m + 1] = x
      /\ \A i \in 1..m : queue'[r][i] = queue[r][i]
  BY <1>2, AppendProperties DEF TypeOf
<1>4. n + m = EmittedLen(r) /\ EmittedLen(r)' = n + m + 1
  BY <1>1, <1>2 DEF InLine
<1>5. \A i \in 1..n : sent'[r][i + 1] = EmittedAt(r, i)'
  <2>1. \A i \in 1..n : i \in 1..EmittedLen(r) /\ sent[r][i + 1] = EmittedAt(r, i)
    BY <1>1, <1>4 DEF InLine
  <2>2. QED
    BY <2>1
<1>6. \A i \in 1..(m + 1) : queue'[r][i] = EmittedAt(r, n + i)'
  <2>1. ASSUME NEW i \in 1..m
        PROVE  queue'[r][i] = EmittedAt(r, n + i)'
    <3>1. PICK k \in 1..EmittedLen(r) : k = n + i
      BY <1>4
    <3>2. queue'[r][i] = EmittedAt(r, k)
      BY <1>1, <1>2, <1>3, <3>1 DEF InLine
    <3>3. QED
      BY <3>1, <3>2
  <2>2. queue'[r][m + 1] = EmittedAt(r, n + (m + 1))'
    <3>1. PICK k : k = EmittedLen(r)'
      OBVIOUS
    <3>2. EmittedAt(r, k)' = x /\ k = n + (m + 1)
      BY <1>4, <3>1 DEF EmittedAt
    <3>3. QED
      BY <1>3, <3>2
  <2>3. QED
    <3>1. \A i \in 1..(m + 1) : i \in 1..m \/ i = m + 1
      OBVIOUS
    <3>2. QED
      BY <2>1, <2>2, <3>1
<1>7. Len(sent'[r]) - 1 = n
  BY <1>1
<1>8. /\ (Len(sent[r]) - 1 + Len(queue[r]) = EmittedLen(r))'
      /\ (\A i \in 1..(Len(sent[r]) - 1) : sent[r][i + 1] = EmittedAt(r, i))'
      /\ (\A i \in 1..Len(queue[r]) : queue[r][i] = EmittedAt(r, Len(sent[r]) - 1 + i))'
  <2>1. n + (m + 1) = EmittedLen(r)'
    BY <1>4
  <2>2. QED
    BY <1>3, <1>5, <1>6, <1>7, <2>1
<1>9. QED
  BY <1>3, <1>8 DEF InLine

\* The handler sends the next item.
LEMMA Pass ==
    ASSUME NEW r, TypeOf(r), sent[r] # <<>>, InLine(r), queue[r] # <<>>,
           queue'[r] = Tail(queue[r]), sent'[r] = Append(sent[r], Head(queue[r])),
           UNCHANGED <<reply[r], pulled[r], failed[r], job[r]>>
    PROVE  /\ InLine(r)'
           /\ Len(sent[r]) \in 1..EmittedLen(r)
           /\ Head(queue[r]) = EmittedAt(r, Len(sent[r]))
           /\ queue'[r] = <<>> <=> Len(sent[r]) = EmittedLen(r)
<1>1. PICK n \in Nat : n = Len(sent[r]) - 1 /\ Len(sent[r]) = n + 1
  <2>1. Len(sent[r]) \in Nat \ {0}
    BY EmptySeq DEF TypeOf
  <2>2. Len(sent[r]) - 1 \in Nat /\ Len(sent[r]) = (Len(sent[r]) - 1) + 1
    BY <2>1
  <2>3. QED
    BY <2>2
<1>2. PICK m \in Nat \ {0} : m = Len(queue[r])
  BY EmptySeq DEF TypeOf
<1>3. /\ Len(queue'[r]) = m - 1 /\ queue'[r] \in Seq(Items) /\ Head(queue[r]) \in Items
      /\ \A i \in 1..(m - 1) : queue'[r][i] = queue[r][i + 1]
  BY <1>2, HeadTailProperties DEF TypeOf
<1>4. Head(queue[r]) = queue[r][1]
  BY DEF TypeOf
<1>5. /\ Len(sent'[r]) = n + 2
      /\ \A i \in 1..(n + 1) : sent'[r][i] = sent[r][i]
      /\ sent'[r][n + 2] = Head(queue[r])
  <2>1. Len(sent[r]) = n + 1
    BY <1>1, LenProperties DEF TypeOf
  <2>2. QED
    BY <1>3, <2>1, AppendProperties DEF TypeOf
<1>6. /\ n + m = EmittedLen(r) /\ EmittedLen(r)' = n + m
      /\ \A i : EmittedAt(r, i)' = EmittedAt(r, i)
  BY <1>1, <1>2 DEF InLine, EmittedLen, EmittedAt
<1>7. \A i \in 1..m : queue[r][i] = EmittedAt(r, n + i)
  BY <1>1, <1>2 DEF InLine
<1>8. Head(queue[r]) = EmittedAt(r, n + 1)
  BY <1>2, <1>4, <1>7
<1>9. \A i \in 1..(n + 1) : sent'[r][i + 1] = EmittedAt(r, i)
  <2>1. \A i \in 1..n : sent[r][i + 1] = EmittedAt(r, i)
    BY <1>1 DEF InLine
  <2>2. ASSUME NEW i \in 1..n
        PROVE  sent'[r][i + 1] = EmittedAt(r, i)
    BY <1>5, <2>1
  <2>3. QED
    BY <1>5, <1>8, <2>2
<1>10. \A i \in 1..(m - 1) : queue'[r][i] = EmittedAt(r, (n + 1) + i)
  <2>1. ASSUME NEW i \in 1..(m - 1)
        PROVE  queue'[r][i] = EmittedAt(r, (n + 1) + i)
    <3>1. i + 1 \in 1..m /\ n + (i + 1) = (n + 1) + i
      BY <1>2
    <3>2. QED
      BY <1>3, <1>7, <3>1
  <2>2. QED
    BY <2>1
<1>11. Len(sent'[r]) - 1 = n + 1 /\ Len(sent[r]) = n + 1
  BY <1>1, <1>5, LenProperties DEF TypeOf
<1>12. InLine(r)'
  <2>1. (n + 1) + (m - 1) = EmittedLen(r)'
    BY <1>6
  <2>2. \A i \in 1..(n + 1) : sent'[r][i + 1] = EmittedAt(r, i)'
    BY <1>6, <1>9
  <2>3. \A i \in 1..(m - 1) : queue'[r][i] = EmittedAt(r, (n + 1) + i)'
    BY <1>6, <1>10
  <2>4. /\ (Len(sent[r]) - 1 + Len(queue[r]) = EmittedLen(r))'
        /\ (\A i \in 1..(Len(sent[r]) - 1) : sent[r][i + 1] = EmittedAt(r, i))'
        /\ (\A i \in 1..Len(queue[r]) : queue[r][i] = EmittedAt(r, Len(sent[r]) - 1 + i))'
    BY <1>3, <1>11, <2>1, <2>2, <2>3
  <2>5. QED
    BY <2>4 DEF InLine
<1>13. queue'[r] = <<>> <=> m = 1
  <2>1. queue'[r] = <<>> <=> Len(queue'[r]) = 0
    BY <1>3, EmptySeq
  <2>2. QED
    BY <1>2, <1>3, <2>1
<1>14. /\ Head(queue[r]) = EmittedAt(r, Len(sent[r]))
       /\ queue'[r] = <<>> <=> Len(sent[r]) = EmittedLen(r)
  <2>1. n + m = EmittedLen(r) /\ n \in Nat /\ m \in Nat \ {0}
    BY <1>2, <1>6
  <2>2. n + 1 = EmittedLen(r) <=> m = 1
    BY <2>1
  <2>3. QED
    BY <1>1, <1>8, <1>13, <2>2
<1>15. Len(sent[r]) \in 1..EmittedLen(r)
  <2>1. n + m = EmittedLen(r) /\ n \in Nat /\ m \in Nat \ {0}
    BY <1>2, <1>6
  <2>2. n + 1 \in 1..EmittedLen(r)
    BY <2>1
  <2>3. QED
    BY <1>1, <2>2
<1>16. QED
  BY <1>12, <1>14, <1>15

\* Only the end marker is "end".
LEMMA EndMarker ==
    ASSUME TypeOK, NEW r \in Requests, NEW i \in Nat \ {0}
    PROVE  EmittedAt(r, i) = "end" <=>
              i > pulled[r] + (IF failed[r] THEN 1 ELSE 0)
<1>1. /\ reply[r] \in Seq(Chunks) /\ Len(reply[r]) \in Nat /\ pulled[r] \in Nat
      /\ pulled[r] \in 0..Len(reply[r])
  BY ReplyType, TypeOfOK DEF TypeOf
<1>2. CASE i <= pulled[r]
  <2>1. i \in 1..Len(reply[r])
    BY <1>1, <1>2
  <2>2. reply[r][i] \in Chunks
    BY <1>1, <2>1, ElementOfSeq
  <2>3. reply[r][i] # "end"
    BY <2>2, ChunksAssumption DEF Markers
  <2>4. EmittedAt(r, i) # "end"
    BY <1>2, <2>3 DEF EmittedAt
  <2>5. QED
    BY <1>1, <1>2, <2>4
<1>3. CASE i > pulled[r]
  BY <1>1, <1>3 DEF EmittedAt
<1>4. QED
  BY <1>1, <1>2, <1>3

\* While the job runs its steps leave what it has handed over alone.
LEMMA Steady ==
    ASSUME NEW r, Flow(r),
           UNCHANGED <<kind[r], reply[r], pulled[r], failed[r], queue[r], sent[r]>>,
           job[r] # "finished", job'[r] # "finished", sent[r] # <<>>,
           UNCHANGED handler[r]
    PROVE  Flow(r)'
<1>1. EmittedLen(r)' = EmittedLen(r) /\ \A i : EmittedAt(r, i)' = EmittedAt(r, i)
  BY DEF EmittedLen, EmittedAt
<1>2. InLine(r) => InLine(r)'
  BY <1>1 DEF InLine
<1>3. QED
  BY <1>2 DEF Flow, Streams, Ended

LEMMA FlowStep ==
    ASSUME TypeInv, NEW r \in Requests, Flow(r), Handling(r) \/ Working(r) \/ Disconnect(r)
    PROVE  Flow(r)'
<1>0. TypeOK /\ TypeOf(r) /\ Progress(r)
  BY TypeOfOK DEF TypeInv
<1>1. UNCHANGED <<kind, reply>> /\ OnePlace(r)
  BY <1>0, OneRequest, OnePlaceStep
<1>2. /\ reply[r] \in Seq(Chunks) /\ Len(reply[r]) \in Nat /\ pulled[r] \in Nat
      /\ pulled[r] < Len(reply[r]) => reply[r][pulled[r] + 1] \in Chunks
  BY <1>0, ReplyType
<1>3. EmittedLen(r) \in Nat
  BY <1>2 DEF EmittedLen
<1>4. job[r] \notin {"none", "finished"} /\ Streams(r) => sent[r] # <<>> /\ InLine(r)
  BY DEF Flow
<1>5. CASE Arrive(r) \/ Disconnect(r)
  <2>1. /\ UNCHANGED <<pulled, queue, sent, failed>>
        /\ handler'[r] = handler[r] \/ (handler[r] = "none" /\ handler'[r] # "ended")
        /\ job'[r] = job[r] \/ (~Streams(r) /\ handler[r] = "none")
    <3>1. CASE Arrive(r)
      <4>1. handler[r] = "none" /\ handler'[r] \in {"starting", "waiting"}
        BY <1>0, <3>1 DEF Arrive, TypeOK
      <4>2. UNCHANGED <<pulled, queue, sent, failed>> /\ (Streams(r) => job' = job)
        BY <3>1 DEF Arrive
      <4>3. QED
        BY <4>1, <4>2
    <3>2. CASE Disconnect(r)
      BY <3>2 DEF Disconnect
    <3>3. QED
      BY <1>5, <3>1, <3>2
  <2>2. handler[r] = "none" => job[r] = "none"
    BY <1>0 DEF TypeOf
  <2>3. Streams(r) => InLine(r)' = InLine(r)
    BY <1>1, <2>1 DEF InLine, EmittedLen, EmittedAt
  <2>4. (Ended(r) => job[r] = "finished")'
    BY <2>1, <2>2 DEF Flow, Ended
  <2>5. Streams(r) => job'[r] = job[r] /\ (Ended(r)' <=> Ended(r))
    BY <2>1 DEF Ended
  <2>6. QED
    BY <1>1, <2>1, <2>3, <2>4, <2>5 DEF Flow, Streams
<1>6. CASE StartResponse(r)
  <2>1. /\ handler[r] = "starting" /\ sent'[r] = <<"start">> /\ job'[r] = "queued"
        /\ handler'[r] = "waiting" /\ UNCHANGED <<pulled, queue, failed>>
    BY <1>0, <1>6 DEF StartResponse, TypeOK
  <2>2. job[r] = "none" /\ pulled[r] = 0 /\ ~failed[r]
    BY <1>0, <2>1 DEF TypeOf, Progress
  <2>3. EmittedLen(r) = 0 /\ EmittedLen(r)' = 0
    BY <2>1, <2>2 DEF EmittedLen
  <2>4. Streams(r) => queue[r] = <<>>
    <3>1. CASE sent[r] = <<>>
      BY <3>1 DEF Flow
    <3>2. CASE sent[r] # <<>> /\ Streams(r)
      <4>1. Len(sent[r]) \in Nat \ {0} /\ Len(queue[r]) \in Nat
        BY <1>0, <3>2, EmptySeq, LenProperties DEF TypeOf
      <4>2. Len(sent[r]) - 1 + Len(queue[r]) = 0
        BY <2>3, <3>2 DEF Flow, InLine
      <4>3. Len(queue[r]) = 0
        <5>1. PICK n \in Nat \ {0}, m \in Nat : n = Len(sent[r]) /\ m = Len(queue[r])
          BY <4>1
        <5>2. n - 1 + m = 0
          BY <4>2, <5>1
        <5>3. m = 0
          <6>1. n \in Nat \ {0} /\ m \in Nat
            OBVIOUS
          <6>2. QED
            BY <5>2, <6>1
        <5>4. QED
          BY <5>1, <5>3
      <4>4. QED
        BY <1>0, <4>3, EmptySeq DEF TypeOf
    <3>3. QED
      BY <3>1, <3>2
  <2>5. Streams(r) => InLine(r)'
    <3>1. Len(<<"start">>) = 1 /\ Len(<<>>) = 0
      OBVIOUS
    <3>2. QED
      BY <2>1, <2>3, <2>4, <3>1 DEF InLine
  <2>6. QED
    BY <1>1, <2>1, <2>5 DEF Flow, Streams, Ended
<1>7. CASE SendNext(r)
  <2>1. /\ handler[r] = "waiting" /\ queue[r] # <<>> /\ queue'[r] = Tail(queue[r])
        /\ sent'[r] = Append(sent[r], Head(queue[r]))
        /\ handler'[r] = IF Head(queue[r]) = "end" THEN "ended" ELSE "waiting"
        /\ UNCHANGED <<pulled, job, failed>>
    BY <1>0, <1>7 DEF SendNext, TypeOK
  <2>2. Streams(r) /\ sent[r] # <<>> /\ InLine(r)
    BY <1>0, <2>1 DEF Progress, Flow
  <2>3. /\ InLine(r)'
        /\ Len(sent[r]) \in 1..EmittedLen(r)
        /\ Head(queue[r]) = EmittedAt(r, Len(sent[r]))
        /\ queue'[r] = <<>> <=> Len(sent[r]) = EmittedLen(r)
    BY <1>0, <1>1, <2>1, <2>2, Pass
  <2>4. Head(queue[r]) = "end" <=>
           Len(sent[r]) > pulled[r] + (IF failed[r] THEN 1 ELSE 0)
    BY <1>0, <1>3, <2>3, EndMarker
  <2>5. Head(queue[r]) = "end" => job[r] = "finished" /\ queue'[r] = <<>>
    BY <1>2, <2>3, <2>4 DEF EmittedLen
  <2>6. job[r] = "finished" /\ queue'[r] = <<>> => Head(queue[r]) = "end"
    BY <1>2, <2>3, <2>4 DEF EmittedLen
  <2>7. sent'[r] # <<>>
    <3>1. Head(queue[r]) \in Items
      BY <1>0, <2>1, HeadTailProperties DEF TypeOf
    <3>2. QED
      BY <1>0, <2>1, <3>1, AppendProperties DEF TypeOf
  <2>8. QED
    BY <2>1, <2>3, <2>5, <2>6, <2>7 DEF Flow, Ended
<1>8. CASE Respond(r)
  <2>1. ~Streams(r) /\ job[r] = "finished" /\ UNCHANGED job
    BY <1>8 DEF Respond
  <2>2. QED
    BY <1>1, <2>1 DEF Flow, Streams
<1>9. CASE SendRaises(r)
  <2>1. /\ UNCHANGED <<pulled, job, queue, sent, failed>>
        /\ handler'[r] = "gone" /\ handler[r] \in {"starting", "waiting"}
        /\ \/ handler[r] = "starting"
           \/ queue[r] # <<>>
           \/ ~Streams(r)
    BY <1>0, <1>9 DEF SendRaises, TypeOK
  <2>2. InLine(r)' = InLine(r)
    BY <1>1, <2>1 DEF InLine, EmittedLen, EmittedAt
  <2>3. handler[r] = "starting" => job[r] # "finished"
    BY <1>0 DEF TypeOf
  <2>4. QED
    BY <1>1, <2>1, <2>2, <2>3 DEF Flow, Streams, Ended
<1>10. CASE ~Streams(r) /\ Working(r)
  <2>1. job[r] # "finished" /\ UNCHANGED handler
    BY <1>10 DEF Working, StartJob, Augment, AugmentRaises, UpstreamFails, Fail, ReceiveChunk,
                UpstreamEnds, StoreUserAndModel, StoreUserRaises, StoreReply,
                StoreReplyRaises, CloseJob
  <2>2. QED
    BY <1>1, <1>10, <2>1 DEF Flow, Streams, Ended
<1>11. CASE /\ Streams(r)
            /\ \/ StartJob(r) \/ Augment(r) \/ UpstreamEnds(r)
               \/ StoreUserAndModel(r) \/ StoreUserRaises(r)
               \/ StoreReply(r) \/ StoreReplyRaises(r)
  <2>1. /\ UNCHANGED <<pulled, handler, queue, sent, failed>>
        /\ job[r] \notin {"none", "finished"} /\ job'[r] # "finished"
    <3>1. CASE StartJob(r) \/ Augment(r) \/ StoreReply(r) \/ StoreReplyRaises(r)
      BY <1>0, <3>1 DEF StartJob, Augment, StoreReply, StoreReplyRaises, TypeOK
    <3>2. CASE UpstreamEnds(r)
      BY <1>0, <3>2 DEF UpstreamEnds, AfterReply, TypeOK
    <3>3. CASE StoreUserAndModel(r)
      BY <1>0, <3>3 DEF StoreUserAndModel, AfterReply, TypeOK
    <3>4. CASE StoreUserRaises(r)
      BY <1>0, <3>4 DEF StoreUserRaises, TypeOK
    <3>5. QED
      BY <1>11, <3>1, <3>2, <3>3, <3>4
  <2>2. UNCHANGED <<kind[r], reply[r], pulled[r], failed[r], queue[r], sent[r], handler[r]>>
    BY <1>1, <2>1
  <2>3. QED
    BY <1>4, <1>11, <2>1, <2>2, Steady
<1>12. CASE Streams(r) /\ (AugmentRaises(r) \/ UpstreamFails(r))
  <2>1. /\ job[r] \in {"augment", "forward"} /\ job'[r] = "closing" /\ failed'[r] = TRUE
        /\ queue'[r] = Append(queue[r], "error") /\ UNCHANGED <<pulled, handler, sent>>
    BY <1>0, <1>12 DEF AugmentRaises, UpstreamFails, Fail, TypeOK
  <2>2. ~failed[r]
    BY <1>0, <2>1 DEF Progress
  <2>3. /\ EmittedLen(r) = pulled[r] /\ EmittedLen(r)' = pulled[r] + 1
        /\ \A i \in 1..EmittedLen(r) : EmittedAt(r, i)' = EmittedAt(r, i)
        /\ EmittedAt(r, EmittedLen(r))' = "error"
    BY <1>1, <1>2, <2>1, <2>2 DEF EmittedLen, EmittedAt
  <2>4. InLine(r)' /\ queue'[r] # <<>>
    <3>1. sent[r] # <<>> /\ InLine(r) /\ "error" \in Items
      BY <1>4, <1>12, <2>1 DEF Items, Markers
    <3>2. QED
      BY <1>0, <1>3, <2>1, <2>3, <3>1, Emit
  <2>5. QED
    BY <1>1, <1>4, <1>12, <2>1, <2>4 DEF Flow, Streams, Ended
<1>13. CASE Streams(r) /\ ReceiveChunk(r)
  <2>1. /\ job[r] = "forward" /\ pulled[r] < Len(reply[r]) /\ pulled'[r] = pulled[r] + 1
        /\ queue'[r] = Append(queue[r], reply[r][pulled[r] + 1])
        /\ UNCHANGED <<job, handler, sent, failed>>
    BY <1>0, <1>13 DEF ReceiveChunk, TypeOK
  <2>2. ~failed[r]
    BY <1>0, <2>1 DEF Progress
  <2>3. /\ EmittedLen(r) = pulled[r] /\ EmittedLen(r)' = pulled[r] + 1
        /\ \A i \in 1..EmittedLen(r) : EmittedAt(r, i)' = EmittedAt(r, i)
        /\ EmittedAt(r, EmittedLen(r))' = reply[r][pulled[r] + 1]
    BY <1>1, <1>2, <2>1, <2>2 DEF EmittedLen, EmittedAt
  <2>4. InLine(r)' /\ queue'[r] # <<>>
    <3>1. sent[r] # <<>> /\ InLine(r) /\ reply[r][pulled[r] + 1] \in Items
      BY <1>2, <1>4, <1>13, <2>1 DEF Items
    <3>2. QED
      BY <1>0, <1>3, <2>1, <2>3, <3>1, Emit
  <2>5. QED
    BY <1>1, <1>4, <1>13, <2>1, <2>4 DEF Flow, Streams, Ended
<1>14. CASE Streams(r) /\ CloseJob(r)
  <2>1. /\ job[r] = "closing" /\ job'[r] = "finished"
        /\ queue'[r] = Append(queue[r], "end") /\ UNCHANGED <<pulled, handler, sent, failed>>
    BY <1>0, <1>14 DEF CloseJob, TypeOK
  <2>2. /\ EmittedLen(r)' = EmittedLen(r) + 1
        /\ \A i \in 1..EmittedLen(r) : EmittedAt(r, i)' = EmittedAt(r, i)
        /\ EmittedAt(r, EmittedLen(r))' = "end"
    BY <1>1, <1>2, <2>1 DEF EmittedLen, EmittedAt
  <2>3. InLine(r)' /\ queue'[r] # <<>>
    <3>1. sent[r] # <<>> /\ InLine(r) /\ "end" \in Items
      BY <1>4, <1>14, <2>1 DEF Items, Markers
    <3>2. QED
      BY <1>0, <1>3, <2>1, <2>2, <3>1, Emit
  <2>4. ~Ended(r)
    BY <2>1 DEF Flow
  <2>5. QED
    BY <1>1, <1>4, <1>14, <2>1, <2>3, <2>4 DEF Flow, Streams, Ended
<1>15. QED
  BY <1>5, <1>6, <1>7, <1>8, <1>9, <1>10, <1>11, <1>12, <1>13, <1>14
  DEF Handling, Working

LEMMA FlowNext == TypeInv /\ FlowInv /\ [Next]_vars => FlowInv'
<1> SUFFICES ASSUME TypeInv, FlowInv, [Next]_vars, NEW q \in Requests
             PROVE  Flow(q)'
  BY DEF FlowInv
<1>0. TypeOK /\ Flow(q)
  BY DEF TypeInv, FlowInv
<1>1. ASSUME NEW r \in Requests, Handling(r) \/ Working(r) \/ Disconnect(r)
      PROVE  Flow(q)'
  <2>1. CASE q = r
    BY <1>0, <1>1, <2>1, FlowStep
  <2>2. CASE q # r
    <3>1. Untouched(q)
      BY <1>0, <1>1, <2>2, OneRequest
    <3>2. InLine(q)' = InLine(q)
      BY <3>1 DEF InLine, EmittedLen, EmittedAt, Untouched
    <3>3. QED
      BY <1>0, <3>1, <3>2 DEF Flow, Untouched, Streams, Ended
  <2>3. QED
    BY <2>1, <2>2
<1>2. CASE UNCHANGED vars
  <2>1. InLine(q)' = InLine(q)
    BY <1>2 DEF InLine, EmittedLen, EmittedAt, vars, input
  <2>2. QED
    BY <1>0, <1>2, <2>1 DEF Flow, vars, input, Streams, Ended
<1>3. QED
  BY <1>1, <1>2 DEF Next

LEMMA ChatInv == Spec => [](TypeInv /\ StoredInv /\ FlowInv)
  BY TypeInit, TypeNext, StoredInit, StoredNext, FlowInit, FlowNext, PTL DEF Spec

\* A response that ended, or a job that finished, without an error leaves in memory the
\* user's turn, the model and, if it has text, the reply, whatever the other requests
\* do and whenever the client leaves (complete, complete_stream and produce: memory is
\* written before the end marker, and the job does not depend on its reader).
THEOREM RememberedTheorem == Spec => []Remembered
<1>1. TypeInv /\ StoredInv /\ FlowInv => Remembered
  BY DEF StoredInv, Stored, FlowInv, Flow, Remembered
<1>2. QED
  BY <1>1, ChatInv, PTL

\* The frames after the head are the items handed over, in order.
LEMMA FramesLemma ==
    ASSUME TypeOK, NEW r \in Requests, sent[r] # <<>>, InLine(r)
    PROVE  /\ Tail(sent[r]) \in Seq(Items)
           /\ Len(Tail(sent[r])) \in Nat
           /\ Len(Tail(sent[r])) + Len(queue[r]) = EmittedLen(r)
           /\ \A i \in 1..Len(Tail(sent[r])) : Tail(sent[r])[i] = EmittedAt(r, i)
<1>1. /\ Tail(sent[r]) \in Seq(Items) /\ Len(Tail(sent[r])) = Len(sent[r]) - 1
      /\ \A i \in 1..Len(Tail(sent[r])) : Tail(sent[r])[i] = sent[r][i + 1]
  BY HeadTailProperties, TypeOfOK DEF TypeOf
<1>2. Len(Tail(sent[r])) \in Nat
  BY <1>1, LenProperties
<1>3. QED
  BY <1>1, <1>2 DEF InLine

\* The first n chunks of a reply, and what may follow them.
LEMMA PrefixLemma ==
    ASSUME TypeOK, NEW r \in Requests, NEW n \in 0..Len(reply[r]),
           NEW rest \in Seq(Items), NEW frames \in Seq(Items),
           Len(frames) = n + Len(rest),
           \A i \in 1..n : frames[i] = reply[r][i],
           \A i \in 1..Len(rest) : frames[n + i] = rest[i]
    PROVE  frames = SubSeq(reply[r], 1, n) \o rest
<1>1. reply[r] \in Seq(Chunks) /\ Len(reply[r]) \in Nat
  BY ReplyType
<1>2. PICK head : head = SubSeq(reply[r], 1, n)
  OBVIOUS
<1>3. head \in Seq(Items) /\ Len(head) = n /\ \A i \in 1..n : head[i] = reply[r][i]
  <2>1. \A i \in 1..n : reply[r][i] \in Items
    BY <1>1, ElementOfSeq DEF Items
  <2>2. /\ head \in Seq(Items) /\ Len(head) = IF 1 <= n THEN n - 1 + 1 ELSE 0
        /\ \A i \in 1..n - 1 + 1 : head[i] = reply[r][1 + i - 1]
    BY <1>2, <2>1, SubSeqProperties
  <2>3. QED
    BY <1>1, <2>2
<1>4. PICK m \in Nat : m = Len(rest)
  BY LenProperties
<1>5. /\ head \o rest \in Seq(Items) /\ Len(head \o rest) = n + m
      /\ \A i \in 1..n + m : (head \o rest)[i] = IF i <= n THEN head[i] ELSE rest[i - n]
  BY <1>3, <1>4, ConcatProperties
<1>6. \A i \in 1..n + m : frames[i] = (head \o rest)[i]
  <2>1. ASSUME NEW i \in 1..n + m
        PROVE  frames[i] = (head \o rest)[i]
    <3>0. i \in Nat /\ n \in Nat /\ m \in Nat /\ i >= 1
      BY <1>1, <2>1
    <3>1. CASE i <= n
      <4>1. i \in 1..n /\ i \in 1..n + m
        BY <3>0, <3>1
      <4>2. QED
        BY <1>3, <1>5, <3>1, <4>1
    <3>2. CASE i > n
      <4>1. i - n \in 1..m /\ n + (i - n) = i
        BY <1>1, <2>1, <3>2
      <4>2. QED
        BY <1>4, <1>5, <2>1, <3>2, <4>1
    <3>3. i <= n \/ i > n
      BY <3>0
    <3>4. QED
      BY <3>1, <3>2, <3>3
  <2>2. QED
    BY <2>1
<1>7. QED
  BY <1>2, <1>4, <1>5, <1>6, SeqEqual

\* A client gets the chunks that the upstream sent, each once, in order and as they
\* are; a response that ends has the whole reply, or what came of it and one error
\* event, for any replies, failures and interleavings of jobs and handlers
\* (_stream_response).
THEOREM PassthroughTheorem == Spec => []Passthrough
<1>1. TypeInv /\ FlowInv => Passthrough
  <2> SUFFICES ASSUME TypeInv, FlowInv, NEW r \in Requests, Streams(r), sent[r] # <<>>
               PROVE  IF Ended(r)
                      THEN IF failed[r]
                           THEN \E n \in 0..Len(reply[r]) :
                                   Tail(sent[r]) = SubSeq(reply[r], 1, n) \o <<"error", "end">>
                           ELSE Tail(sent[r]) = reply[r] \o <<"end">>
                      ELSE \E n \in 0..Len(reply[r]) :
                              \/ Tail(sent[r]) = SubSeq(reply[r], 1, n)
                              \/ failed[r] /\ Tail(sent[r]) = SubSeq(reply[r], 1, n) \o <<"error">>
    BY DEF Passthrough
  <2>a. TypeOK
    BY DEF TypeInv
  <2>0. /\ TypeOK /\ Progress(r) /\ Flow(r) /\ InLine(r)
        /\ reply[r] \in Seq(Chunks) /\ Len(reply[r]) \in Nat /\ pulled[r] \in 0..Len(reply[r])
    BY ReplyType, TypeOfOK DEF TypeInv, FlowInv, Flow, TypeOf
  <2>1. PICK frames \in Seq(Items) : frames = Tail(sent[r])
    BY <2>0, FramesLemma
  <2>2. PICK m \in Nat : m = Len(frames)
    BY <2>1, LenProperties
  <2>3. PICK p \in 0..Len(reply[r]) : p = pulled[r]
    BY <2>0
  <2>4. PICK k \in Nat : k = Len(queue[r]) /\ (k = 0 <=> queue[r] = <<>>)
    <3>1. Len(queue[r]) \in Nat /\ (Len(queue[r]) = 0 <=> queue[r] = <<>>)
      BY <2>0, LenProperties, EmptySeq, TypeOfOK DEF TypeOf
    <3>2. QED
      BY <3>1
  <2>5. /\ m + k = p + (IF failed[r] THEN 1 ELSE 0) + (IF job[r] = "finished" THEN 1 ELSE 0)
        /\ \A i \in 1..m : frames[i] = EmittedAt(r, i)
    BY <2>0, <2>1, <2>2, <2>3, <2>4, FramesLemma DEF EmittedLen
  <2>6. \A i \in 1..m : i <= p => frames[i] = reply[r][i]
    BY <2>3, <2>5 DEF EmittedAt
  <2>7. failed[r] => \A i \in 1..m : i = p + 1 => frames[i] = "error"
    BY <2>3, <2>5 DEF EmittedAt
  <2>8. \A i \in 1..m : i > p + (IF failed[r] THEN 1 ELSE 0) => frames[i] = "end"
    BY <2>3, <2>5 DEF EmittedAt
  <2>9. <<>> \in Seq(Items) /\ <<"end">> \in Seq(Items) /\ <<"error">> \in Seq(Items)
        /\ <<"error", "end">> \in Seq(Items)
    BY DEF Items, Markers
  <2>10. CASE Ended(r)
    <3>1. job[r] = "finished" /\ k = 0
      BY <2>0, <2>4, <2>10 DEF Flow
    <3>2. CASE failed[r]
      <4>1. m = p + 2
        BY <2>3, <2>5, <3>1, <3>2
      <4>2. frames[p + 1] = "error" /\ frames[p + 2] = "end"
        BY <2>3, <2>7, <2>8, <3>2, <4>1
      <4>3. \A i \in 1..2 : frames[p + i] = <<"error", "end">>[i]
        <5>1. \A i \in 1..2 : i = 1 \/ i = 2
          OBVIOUS
        <5>2. QED
          BY <4>2, <5>1
      <4>4. Len(<<"error", "end">>) = 2
        OBVIOUS
      <4>5. \A i \in 1..p : frames[i] = reply[r][i]
        BY <2>3, <2>6, <4>1
      <4>6. frames = SubSeq(reply[r], 1, p) \o <<"error", "end">>
        <5>1. PICK rest \in Seq(Items) : rest = <<"error", "end">>
          BY <2>9
        <5>2. Len(frames) = p + Len(rest)
          BY <2>2, <4>1, <4>4, <5>1
        <5>3. \A i \in 1..Len(rest) : frames[p + i] = rest[i]
          BY <4>3, <4>4, <5>1
        <5>4. frames = SubSeq(reply[r], 1, p) \o rest
          BY <2>a, <4>5, <5>2, <5>3, PrefixLemma
        <5>5. QED
          BY <5>1, <5>4
      <4>7. QED
        BY <2>1, <2>10, <3>2, <4>6
    <3>3. CASE ~failed[r]
      <4>1. p = Len(reply[r]) /\ m = p + 1
        BY <2>0, <2>3, <2>5, <3>1, <3>3 DEF Progress
      <4>2. frames[p + 1] = "end"
        BY <2>3, <2>8, <3>3, <4>1
      <4>3. \A i \in 1..1 : frames[p + i] = <<"end">>[i]
        BY <4>2
      <4>4. Len(<<"end">>) = 1
        OBVIOUS
      <4>5. \A i \in 1..p : frames[i] = reply[r][i]
        BY <2>3, <2>6, <4>1
      <4>6. frames = SubSeq(reply[r], 1, p) \o <<"end">>
        <5>1. PICK rest \in Seq(Items) : rest = <<"end">>
          BY <2>9
        <5>2. Len(frames) = p + Len(rest)
          BY <2>2, <4>1, <4>4, <5>1
        <5>3. \A i \in 1..Len(rest) : frames[p + i] = rest[i]
          BY <4>3, <4>4, <5>1
        <5>4. frames = SubSeq(reply[r], 1, p) \o rest
          BY <2>a, <4>5, <5>2, <5>3, PrefixLemma
        <5>5. QED
          BY <5>1, <5>4
      <4>7. SubSeq(reply[r], 1, p) = reply[r]
        BY <2>0, <4>1
      <4>8. QED
        BY <2>1, <2>10, <3>3, <4>6, <4>7
    <3>4. QED
      BY <3>2, <3>3
  <2>11. CASE ~Ended(r)
    <3>1. m <= p + (IF failed[r] THEN 1 ELSE 0)
      BY <2>0, <2>3, <2>4, <2>5, <2>11 DEF Flow
    <3>2. CASE m <= p
      <4>1. m \in 0..Len(reply[r]) /\ \A i \in 1..m : frames[i] = reply[r][i]
        BY <2>3, <2>6, <3>2
      <4>2. Len(<<>>) = 0 /\ \A i \in 1..0 : frames[m + i] = <<>>[i]
        OBVIOUS
      <4>3. Len(frames) = m + Len(<<>>)
        BY <2>2, <4>2
      <4>4. frames = SubSeq(reply[r], 1, m) \o <<>>
        <5>1. PICK rest \in Seq(Items) : rest = <<>>
          BY <2>9
        <5>2. Len(frames) = m + Len(rest) /\ \A i \in 1..Len(rest) : frames[m + i] = rest[i]
          BY <4>2, <4>3, <5>1
        <5>3. frames = SubSeq(reply[r], 1, m) \o rest
          BY <2>a, <4>1, <5>2, PrefixLemma
        <5>4. QED
          BY <5>1, <5>3
      <4>5. SubSeq(reply[r], 1, m) \in Seq(Chunks)
        <5>1. \A i \in 1..m : reply[r][i] \in Chunks
          BY <2>0, <4>1, ElementOfSeq
        <5>2. QED
          BY <5>1, SubSeqProperties
      <4>6. frames = SubSeq(reply[r], 1, m)
        BY <4>4, <4>5, ConcatEmptySeq
      <4>7. QED
        BY <2>1, <2>11, <4>1, <4>6
    <3>3. CASE m > p
      <4>1. failed[r] /\ m = p + 1
        BY <2>3, <3>1, <3>3
      <4>2. frames[p + 1] = "error"
        BY <2>3, <2>7, <4>1
      <4>3. \A i \in 1..1 : frames[p + i] = <<"error">>[i]
        BY <4>2
      <4>4. Len(<<"error">>) = 1
        OBVIOUS
      <4>5. \A i \in 1..p : frames[i] = reply[r][i]
        BY <2>3, <2>6, <4>1
      <4>6. frames = SubSeq(reply[r], 1, p) \o <<"error">>
        <5>1. PICK rest \in Seq(Items) : rest = <<"error">>
          BY <2>9
        <5>2. Len(frames) = p + Len(rest)
          BY <2>2, <4>1, <4>4, <5>1
        <5>3. \A i \in 1..Len(rest) : frames[p + i] = rest[i]
          BY <4>3, <4>4, <5>1
        <5>4. frames = SubSeq(reply[r], 1, p) \o rest
          BY <2>a, <4>5, <5>2, <5>3, PrefixLemma
        <5>5. QED
          BY <5>1, <5>4
      <4>7. QED
        BY <2>1, <2>11, <4>1, <4>6
    <3>4. p \in Nat
      BY <2>0
    <3>5. m <= p \/ m > p
      BY <3>4
    <3>6. QED
      BY <3>2, <3>3, <3>5
  <2>12. QED
    BY <2>10, <2>11
<1>2. QED
  BY <1>1, ChatInv, PTL

------------------------------------------------------------------------------
(* The text of a reply *)

\* Symbols, and what stands for half a character when it is decoded alone.
DecodedSymbols == Symbols \cup {"garbled"}

Accumulators == [buf : Seq(DecodedSymbols), parts : Seq(DecodedSymbols)]

LEMMA KeepType ==
    ASSUME NEW text \in Seq(DecodedSymbols), NEW symbol \in DecodedSymbols
    PROVE  Keep(text, symbol) \in Seq(DecodedSymbols)
  BY DEF Keep

LEMMA HandleType ==
    ASSUME NEW acc \in Accumulators, NEW symbol \in DecodedSymbols
    PROVE  Handle(acc, symbol) \in Accumulators
<1>1. acc.parts \o acc.buf \in Seq(DecodedSymbols) /\ <<>> \in Seq(DecodedSymbols)
  BY ConcatProperties DEF Accumulators
<1>2. Keep(acc.buf, symbol) \in Seq(DecodedSymbols)
  BY KeepType DEF Accumulators
<1>3. QED
  BY <1>1, <1>2 DEF Handle, Accumulators

LEMMA DecodedType ==
    ASSUME NEW bytes \in Seq(Symbols)
    PROVE  /\ Decoded(bytes) \in Seq(DecodedSymbols)
           /\ Len(Decoded(bytes)) = Len(bytes)
<1>1. ASSUME NEW n \in 1..Len(bytes)
      PROVE  Decoded(bytes)[n] \in DecodedSymbols
  BY <1>1 DEF Decoded, DecodedSymbols
<1>2. DOMAIN Decoded(bytes) = 1..Len(bytes) /\ Len(bytes) \in Nat
  BY DEF Decoded
<1>3. Decoded(bytes) \in [1..Len(bytes) -> DecodedSymbols]
  BY <1>1, <1>2 DEF Decoded
<1>4. QED
  BY <1>2, <1>3

\* The loops over chunks and symbols, unfolded.
LEMMA JoinedLoop ==
    ASSUME NEW chunks \in Seq(Chunks)
    PROVE  \E f : /\ f \in [0..Len(chunks) -> Seq(Symbols)]
                  /\ f[0] = <<>>
                  /\ \A k \in 1..Len(chunks) : f[k] = Extended(f[k - 1], chunks[k])
                  /\ Joined(chunks) = f[Len(chunks)]
<1> DEFINE m == Len(chunks)
           S == Seq(Symbols)
           first == <<>>
           step == [k \in 1..m |-> [u \in S |-> Extended(u, chunks[k])]]
           Loop(g) == [k \in 0..m |-> IF k = 0 THEN <<>> ELSE Extended(g[k - 1], chunks[k])]
           Run == CHOOSE g : g = Loop(g)
<1>1. m \in Nat /\ first \in S
  OBVIOUS
<1>2. step \in Steps(1..m, S)
  <2>1. ASSUME NEW k \in 1..m, NEW u \in S PROVE Extended(u, chunks[k]) \in S
    <3>1. chunks[k] \in Chunks
      BY <2>1
    <3>2. Bytes[chunks[k]] \in Seq(Symbols)
      BY <3>1, ChunksAssumption
    <3>3. QED
      BY <3>2, ConcatProperties DEF Extended
  <2>2. QED
    BY <2>1 DEF Steps
<1>3. \A k \in 1..m : \A u \in S : step[k][u] = Extended(u, chunks[k])
  OBVIOUS
<1>4. Joined(chunks) = Run[m]
  BY DEF Joined
<1>5. first = <<>>
  OBVIOUS
<1> HIDE DEF first, step, m, S
<1>6. PICK f : CountsTo(f, m, S, first, step)
  BY <1>1, <1>2, UptoRecursion
<1>7. f \in [0..m -> S] /\ f[0] = first /\ \A k \in 1..m : f[k] = step[k][f[k - 1]]
  BY <1>6 DEF CountsTo
<1>8. ASSUME NEW k \in 1..m PROVE f[k] = Extended(f[k - 1], chunks[k])
  <2>1. k - 1 \in 0..m
    BY <1>1
  <2>2. QED
    BY <1>3, <1>7, <2>1
<1>9. f = Loop(f)
  BY <1>1, <1>5, <1>7, <1>8
<1>10. Run = Loop(Run)
  BY <1>9
<1> HIDE DEF Run
<1>11. Run[0] = first /\ \A k \in 1..m : Run[k] = Extended(Run[k - 1], chunks[k])
  <2>1. ASSUME NEW k \in 0..m
        PROVE  Run[k] = IF k = 0 THEN <<>> ELSE Extended(Run[k - 1], chunks[k])
    BY <1>10, Zenon
  <2>2. QED
    BY <1>1, <1>5, <2>1
<1> DEFINE T == {k \in 0..m : Run[k] = f[k]}
<1>12. T = 0..m
  <2>1. T \in SUBSET (0..m) /\ 0 \in T
    BY <1>1, <1>7, <1>11
  <2>2. ASSUME NEW k \in T, k < m PROVE k + 1 \in T
    <3>1. k + 1 \in 1..m /\ Run[k] = f[k] /\ (k + 1) - 1 = k
      BY <1>1, <2>2
    <3>2. Run[k + 1] = f[k + 1]
      BY <1>8, <1>11, <3>1
    <3>3. QED
      BY <3>1, <3>2
  <2> HIDE DEF T
  <2>3. QED
    BY <1>1, <2>1, <2>2, UptoInduction
<1>13. Run[m] = f[m]
  BY <1>1, <1>12
<1>14. QED
  BY <1>4, <1>5, <1>7, <1>8, <1>13 DEF m, S


LEMMA TextsLoop ==
    ASSUME NEW symbols \in Seq(Symbols)
    PROVE  \E f : /\ f \in [0..Len(symbols) -> Seq(DecodedSymbols)]
                  /\ f[0] = <<>>
                  /\ \A k \in 1..Len(symbols) : f[k] = Keep(f[k - 1], symbols[k])
                  /\ Texts(symbols) = f[Len(symbols)]
<1> DEFINE m == Len(symbols)
           S == Seq(DecodedSymbols)
           first == <<>>
           step == [k \in 1..m |-> [u \in S |-> Keep(u, symbols[k])]]
           Loop(g) == [k \in 0..m |-> IF k = 0 THEN <<>> ELSE Keep(g[k - 1], symbols[k])]
           Run == CHOOSE g : g = Loop(g)
<1>1. m \in Nat /\ first \in S
  OBVIOUS
<1>2. step \in Steps(1..m, S)
  <2>1. ASSUME NEW k \in 1..m, NEW u \in S PROVE Keep(u, symbols[k]) \in S
    <3>1. symbols[k] \in DecodedSymbols
      BY <2>1 DEF DecodedSymbols
    <3>2. QED
      BY <3>1, KeepType
  <2>2. QED
    BY <2>1 DEF Steps
<1>3. \A k \in 1..m : \A u \in S : step[k][u] = Keep(u, symbols[k])
  OBVIOUS
<1>4. Texts(symbols) = Run[m]
  BY DEF Texts
<1>5. first = <<>>
  OBVIOUS
<1> HIDE DEF first, step, m, S
<1>6. PICK f : CountsTo(f, m, S, first, step)
  BY <1>1, <1>2, UptoRecursion
<1>7. f \in [0..m -> S] /\ f[0] = first /\ \A k \in 1..m : f[k] = step[k][f[k - 1]]
  BY <1>6 DEF CountsTo
<1>8. ASSUME NEW k \in 1..m PROVE f[k] = Keep(f[k - 1], symbols[k])
  <2>1. k - 1 \in 0..m
    BY <1>1
  <2>2. QED
    BY <1>3, <1>7, <2>1
<1>9. f = Loop(f)
  BY <1>1, <1>5, <1>7, <1>8
<1>10. Run = Loop(Run)
  BY <1>9
<1> HIDE DEF Run
<1>11. Run[0] = first /\ \A k \in 1..m : Run[k] = Keep(Run[k - 1], symbols[k])
  <2>1. ASSUME NEW k \in 0..m
        PROVE  Run[k] = IF k = 0 THEN <<>> ELSE Keep(Run[k - 1], symbols[k])
    BY <1>10, Zenon
  <2>2. QED
    BY <1>1, <1>5, <2>1
<1> DEFINE T == {k \in 0..m : Run[k] = f[k]}
<1>12. T = 0..m
  <2>1. T \in SUBSET (0..m) /\ 0 \in T
    BY <1>1, <1>7, <1>11
  <2>2. ASSUME NEW k \in T, k < m PROVE k + 1 \in T
    <3>1. k + 1 \in 1..m /\ Run[k] = f[k] /\ (k + 1) - 1 = k
      BY <1>1, <2>2
    <3>2. Run[k + 1] = f[k + 1]
      BY <1>8, <1>11, <3>1
    <3>3. QED
      BY <3>1, <3>2
  <2> HIDE DEF T
  <2>3. QED
    BY <1>1, <2>1, <2>2, UptoInduction
<1>13. Run[m] = f[m]
  BY <1>1, <1>12
<1>14. QED
  BY <1>4, <1>5, <1>7, <1>8, <1>13 DEF m, S


LEMMA HandleLoop ==
    ASSUME NEW acc \in Accumulators, NEW symbols \in Seq(DecodedSymbols)
    PROVE  \E f : /\ f \in [0..Len(symbols) -> Accumulators]
                  /\ f[0] = acc
                  /\ \A k \in 1..Len(symbols) : f[k] = Handle(f[k - 1], symbols[k])
                  /\ HandleAll(acc, symbols) = f[Len(symbols)]
<1> DEFINE m == Len(symbols)
           S == Accumulators
           first == acc
           step == [k \in 1..m |-> [u \in S |-> Handle(u, symbols[k])]]
           Loop(g) == [k \in 0..m |-> IF k = 0 THEN acc ELSE Handle(g[k - 1], symbols[k])]
           Run == CHOOSE g : g = Loop(g)
<1>1. m \in Nat /\ first \in S
  OBVIOUS
<1>2. step \in Steps(1..m, S)
  <2>1. ASSUME NEW k \in 1..m, NEW u \in S PROVE Handle(u, symbols[k]) \in S
    <3>1. symbols[k] \in DecodedSymbols
      BY <2>1
    <3>2. QED
      BY <3>1, HandleType
  <2>2. QED
    BY <2>1 DEF Steps
<1>3. \A k \in 1..m : \A u \in S : step[k][u] = Handle(u, symbols[k])
  OBVIOUS
<1>4. HandleAll(acc, symbols) = Run[m]
  BY DEF HandleAll
<1>5. first = acc
  OBVIOUS
<1> HIDE DEF first, step, m, S
<1>6. PICK f : CountsTo(f, m, S, first, step)
  BY <1>1, <1>2, UptoRecursion
<1>7. f \in [0..m -> S] /\ f[0] = first /\ \A k \in 1..m : f[k] = step[k][f[k - 1]]
  BY <1>6 DEF CountsTo
<1>8. ASSUME NEW k \in 1..m PROVE f[k] = Handle(f[k - 1], symbols[k])
  <2>1. k - 1 \in 0..m
    BY <1>1
  <2>2. QED
    BY <1>3, <1>7, <2>1
<1>9. f = Loop(f)
  BY <1>1, <1>5, <1>7, <1>8
<1>10. Run = Loop(Run)
  BY <1>9
<1> HIDE DEF Run
<1>11. Run[0] = first /\ \A k \in 1..m : Run[k] = Handle(Run[k - 1], symbols[k])
  <2>1. ASSUME NEW k \in 0..m
        PROVE  Run[k] = IF k = 0 THEN acc ELSE Handle(Run[k - 1], symbols[k])
    BY <1>10, Zenon
  <2>2. QED
    BY <1>1, <1>5, <2>1
<1> DEFINE T == {k \in 0..m : Run[k] = f[k]}
<1>12. T = 0..m
  <2>1. T \in SUBSET (0..m) /\ 0 \in T
    BY <1>1, <1>7, <1>11
  <2>2. ASSUME NEW k \in T, k < m PROVE k + 1 \in T
    <3>1. k + 1 \in 1..m /\ Run[k] = f[k] /\ (k + 1) - 1 = k
      BY <1>1, <2>2
    <3>2. Run[k + 1] = f[k + 1]
      BY <1>8, <1>11, <3>1
    <3>3. QED
      BY <3>1, <3>2
  <2> HIDE DEF T
  <2>3. QED
    BY <1>1, <2>1, <2>2, UptoInduction
<1>13. Run[m] = f[m]
  BY <1>1, <1>12
<1>14. QED
  BY <1>4, <1>5, <1>7, <1>8, <1>13 DEF m, S


LEMMA FeedType ==
    ASSUME NEW acc \in Accumulators, NEW chunk \in Chunks
    PROVE  Feed(acc, chunk) \in Accumulators
<1>1. Bytes[chunk] \in Seq(Symbols)
  BY ChunksAssumption
<1>2. Decoded(Bytes[chunk]) \in Seq(DecodedSymbols)
  BY <1>1, DecodedType
<1> DEFINE symbols == Decoded(Bytes[chunk])
<1> HIDE DEF symbols
<1>3. symbols \in Seq(DecodedSymbols) /\ Len(symbols) \in Nat
  BY <1>2 DEF symbols
<1>4. HandleAll(acc, symbols) \in Accumulators
  BY <1>3, HandleLoop
<1>5. QED
  BY <1>4 DEF Feed, symbols

LEMMA FeedLoop ==
    ASSUME NEW chunks \in Seq(Chunks)
    PROVE  \E f : /\ f \in [0..Len(chunks) -> Accumulators]
                  /\ f[0] = [buf |-> <<>>, parts |-> <<>>]
                  /\ \A k \in 1..Len(chunks) : f[k] = Feed(f[k - 1], chunks[k])
                  /\ Accumulated(chunks) = f[Len(chunks)]
<1> DEFINE m == Len(chunks)
           S == Accumulators
           first == [buf |-> <<>>, parts |-> <<>>]
           step == [k \in 1..m |-> [u \in S |-> Feed(u, chunks[k])]]
           Loop(g) == [k \in 0..m |-> IF k = 0 THEN [buf |-> <<>>, parts |-> <<>>] ELSE Feed(g[k - 1], chunks[k])]
           Run == CHOOSE g : g = Loop(g)
<1>1. m \in Nat /\ first \in S
  BY DEF Accumulators
<1>2. step \in Steps(1..m, S)
  <2>1. ASSUME NEW k \in 1..m, NEW u \in S PROVE Feed(u, chunks[k]) \in S
    <3>1. chunks[k] \in Chunks
      BY <2>1
    <3>2. QED
      BY <3>1, FeedType
  <2>2. QED
    BY <2>1 DEF Steps
<1>3. \A k \in 1..m : \A u \in S : step[k][u] = Feed(u, chunks[k])
  OBVIOUS
<1>4. Accumulated(chunks) = Run[m]
  BY DEF Accumulated
<1>5. first = [buf |-> <<>>, parts |-> <<>>]
  OBVIOUS
<1> HIDE DEF first, step, m, S
<1>6. PICK f : CountsTo(f, m, S, first, step)
  BY <1>1, <1>2, UptoRecursion
<1>7. f \in [0..m -> S] /\ f[0] = first /\ \A k \in 1..m : f[k] = step[k][f[k - 1]]
  BY <1>6 DEF CountsTo
<1>8. ASSUME NEW k \in 1..m PROVE f[k] = Feed(f[k - 1], chunks[k])
  <2>1. k - 1 \in 0..m
    BY <1>1
  <2>2. QED
    BY <1>3, <1>7, <2>1
<1>9. f = Loop(f)
  BY <1>1, <1>5, <1>7, <1>8
<1>10. Run = Loop(Run)
  BY <1>9
<1> HIDE DEF Run
<1>11. Run[0] = first /\ \A k \in 1..m : Run[k] = Feed(Run[k - 1], chunks[k])
  <2>1. ASSUME NEW k \in 0..m
        PROVE  Run[k] = IF k = 0 THEN [buf |-> <<>>, parts |-> <<>>] ELSE Feed(Run[k - 1], chunks[k])
    BY <1>10, Zenon
  <2>2. QED
    BY <1>1, <1>5, <2>1
<1> DEFINE T == {k \in 0..m : Run[k] = f[k]}
<1>12. T = 0..m
  <2>1. T \in SUBSET (0..m) /\ 0 \in T
    BY <1>1, <1>7, <1>11
  <2>2. ASSUME NEW k \in T, k < m PROVE k + 1 \in T
    <3>1. k + 1 \in 1..m /\ Run[k] = f[k] /\ (k + 1) - 1 = k
      BY <1>1, <2>2
    <3>2. Run[k + 1] = f[k + 1]
      BY <1>8, <1>11, <3>1
    <3>3. QED
      BY <3>1, <3>2
  <2> HIDE DEF T
  <2>3. QED
    BY <1>1, <2>1, <2>2, UptoInduction
<1>13. Run[m] = f[m]
  BY <1>1, <1>12
<1>14. QED
  BY <1>4, <1>5, <1>7, <1>8, <1>13 DEF m, S

\* The bytes of a reply are those of its chunks, each at its place.
LEMMA JoinedAt ==
    ASSUME NEW chunks \in Seq(Chunks)
    PROVE  \E j :
              /\ j \in [0..Len(chunks) -> Seq(Symbols)]
              /\ j[0] = <<>> /\ j[Len(chunks)] = Joined(chunks)
              /\ \A k \in 1..Len(chunks) :
                    /\ Len(j[k]) = Len(j[k - 1]) + Len(Bytes[chunks[k]])
                    /\ Len(j[k]) <= Len(Joined(chunks))
                    /\ \A n \in 1..Len(Bytes[chunks[k]]) :
                          Joined(chunks)[Len(j[k - 1]) + n] = Bytes[chunks[k]][n]
<1> DEFINE m == Len(chunks)
           b == Joined(chunks)
<1>1. PICK j : /\ j \in [0..m -> Seq(Symbols)]
               /\ j[0] = <<>>
               /\ \A k \in 1..m : j[k] = Extended(j[k - 1], chunks[k])
               /\ b = j[m]
  BY JoinedLoop
<1>2. m \in Nat
  OBVIOUS
<1>3. ASSUME NEW k \in 1..m
      PROVE  /\ Bytes[chunks[k]] \in Seq(Symbols)
             /\ k - 1 \in 0..m
             /\ j[k - 1] \in Seq(Symbols) /\ j[k] \in Seq(Symbols)
             /\ Len(j[k]) = Len(j[k - 1]) + Len(Bytes[chunks[k]])
             /\ \A n \in 1..Len(j[k - 1]) : j[k][n] = j[k - 1][n]
             /\ \A n \in 1..Len(Bytes[chunks[k]]) :
                   j[k][Len(j[k - 1]) + n] = Bytes[chunks[k]][n]
  <2>1. chunks[k] \in Chunks /\ k - 1 \in 0..m
    BY <1>2
  <2>2. Bytes[chunks[k]] \in Seq(Symbols)
    BY <2>1, ChunksAssumption
  <2>3. j[k - 1] \in Seq(Symbols) /\ j[k] \in Seq(Symbols)
    BY <1>1, <2>1
  <2> DEFINE c == Bytes[chunks[k]]
             before == j[k - 1]
  <2>4. j[k] = before \o c
    BY <1>1 DEF Extended
  <2> HIDE DEF c, before
  <2>5. /\ Len(before \o c) = Len(before) + Len(c)
        /\ \A n \in 1..Len(before) : (before \o c)[n] = before[n]
        /\ \A n \in 1..Len(c) : (before \o c)[Len(before) + n] = c[n]
    <3>1. /\ c \in Seq(Symbols) /\ before \in Seq(Symbols)
          /\ Len(c) \in Nat /\ Len(before) \in Nat
      BY <2>2, <2>3 DEF c, before
    <3>2. /\ Len(before \o c) = Len(before) + Len(c)
          /\ \A n \in 1..(Len(before) + Len(c)) :
                (before \o c)[n] = IF n <= Len(before) THEN before[n] ELSE c[n - Len(before)]
      BY <3>1, ConcatProperties
    <3>3. ASSUME NEW n \in 1..Len(before) PROVE (before \o c)[n] = before[n]
      BY <3>1, <3>2
    <3>4. ASSUME NEW n \in 1..Len(c) PROVE (before \o c)[Len(before) + n] = c[n]
      <4> DEFINE p == Len(before) + n
      <4>1. p \in 1..(Len(before) + Len(c)) /\ ~(p <= Len(before)) /\ p - Len(before) = n
        BY <3>1
      <4> HIDE DEF p
      <4>2. (before \o c)[p] = c[n]
        BY <3>2, <4>1
      <4>3. QED
        BY <4>2 DEF p
    <3>5. QED
      BY <3>2, <3>3, <3>4
  <2>6. QED
    BY <2>1, <2>2, <2>3, <2>4, <2>5 DEF c, before
<1> HIDE DEF m, b
\* What is joined stays where it is.
<1> DEFINE Kept(k, i) == Len(j[k]) <= Len(j[i]) /\ \A n \in 1..Len(j[k]) : j[i][n] = j[k][n]
<1>4. ASSUME NEW k \in 0..m
      PROVE  \A i \in 0..m : k <= i => Kept(k, i)
  <2> DEFINE T == {i \in 0..m : k <= i => Kept(k, i)}
  <2>1. \A i \in 0..m : j[i] \in Seq(Symbols) /\ Len(j[i]) \in Nat
    BY <1>1
  <2>2. 0 \in T
    BY <1>2, <2>1
  <2>3. ASSUME NEW i \in T, i < m PROVE i + 1 \in T
    <3>1. i + 1 \in 1..m /\ (i + 1) - 1 = i /\ i \in 0..m
      BY <1>2, <2>3
    <3>2. CASE k <= i
      <4>1. Kept(k, i)
        BY <2>3, <3>2
      <4>2. Len(j[i]) <= Len(j[i + 1]) /\ \A n \in 1..Len(j[i]) : j[i + 1][n] = j[i][n]
        <5> DEFINE next == i + 1
        <5>1. next \in 1..m /\ next - 1 = i
          BY <3>1
        <5> HIDE DEF next
        <5>2. /\ Len(j[next]) = Len(j[next - 1]) + Len(Bytes[chunks[next]])
              /\ Bytes[chunks[next]] \in Seq(Symbols)
              /\ \A n \in 1..Len(j[next - 1]) : j[next][n] = j[next - 1][n]
          BY <1>3, <5>1
        <5>3. Len(Bytes[chunks[next]]) \in Nat
          BY <5>2
        <5>4. Len(j[next]) = Len(j[i]) + Len(Bytes[chunks[next]])
                 /\ \A n \in 1..Len(j[i]) : j[next][n] = j[i][n]
          BY <5>1, <5>2
        <5>5. Len(j[i]) \in Nat
          BY <2>1, <3>1
        <5>6. Len(j[i]) <= Len(j[next])
          <6>1. ASSUME NEW p \in Nat, NEW q \in Nat, NEW t, t = p + q PROVE p <= t
            BY <6>1
          <6>2. QED
            BY <5>3, <5>4, <5>5, <6>1
        <5>7. QED
          BY <5>4, <5>6 DEF next
      <4>3. Kept(k, i + 1)
        BY <2>1, <3>1, <4>1, <4>2
      <4>4. QED
        BY <3>1, <4>3
    <3>3. CASE k = i + 1
      BY <2>1, <3>1, <3>3
    <3>4. CASE k > i + 1
      BY <3>1, <3>4
    <3>5. QED
      BY <3>1, <3>2, <3>3, <3>4
  <2>4. T \in SUBSET (0..m)
    OBVIOUS
  <2> HIDE DEF T
  <2>5. T = 0..m
    BY <1>2, <2>2, <2>3, <2>4, UptoInduction
  <2>6. QED
    BY <2>5 DEF T
<1> HIDE DEF Kept
<1>5. ASSUME NEW k \in 1..m
      PROVE  /\ Len(j[k]) = Len(j[k - 1]) + Len(Bytes[chunks[k]])
             /\ Len(j[k]) <= Len(b)
             /\ \A n \in 1..Len(Bytes[chunks[k]]) : b[Len(j[k - 1]) + n] = Bytes[chunks[k]][n]
  <2>1. k \in 0..m /\ m \in 0..m /\ k <= m
    BY <1>2
  <2>2. Kept(k, m)
    BY <1>4, <2>1
  <2>3. Len(j[k]) <= Len(b) /\ \A n \in 1..Len(j[k]) : b[n] = j[k][n]
    BY <1>1, <2>2 DEF Kept
  <2>4. Len(j[k - 1]) \in Nat /\ Len(Bytes[chunks[k]]) \in Nat
    BY <1>3
  <2>5. ASSUME NEW n \in 1..Len(Bytes[chunks[k]])
        PROVE  b[Len(j[k - 1]) + n] = Bytes[chunks[k]][n]
    <3>1. Len(j[k - 1]) + n \in 1..Len(j[k])
      <4>1. Len(j[k]) = Len(j[k - 1]) + Len(Bytes[chunks[k]])
        BY <1>3
      <4> DEFINE p == Len(j[k - 1])
                 q == Len(Bytes[chunks[k]])
      <4>2. p \in Nat /\ q \in Nat /\ Len(j[k]) = p + q /\ n \in 1..q
        BY <2>4, <4>1
      <4> HIDE DEF p, q
      <4>3. p + n \in 1..Len(j[k])
        BY <4>2
      <4>4. QED
        BY <4>3 DEF p
    <3>2. QED
      BY <1>3, <2>3, <3>1
  <2>6. QED
    BY <1>3, <2>3, <2>5
<1>6. QED
  BY <1>1, <1>5 DEF m, b

\* The last symbol of a chunk.
LastSymbol(chunk) == Bytes[chunk][Len(Bytes[chunk])]

\* A chunk that ends with a character, in a reply whose characters are whole, is decoded to
\* what it is.
LEMMA DecodedWhole ==
    ASSUME NEW b \in Seq(Symbols), Encoded(b), NEW c \in Seq(Symbols), NEW at \in Nat,
           at + Len(c) <= Len(b), \A n \in 1..Len(c) : b[at + n] = c[n],
           c # <<>> => c[Len(c)] # "lead",
           at = 0 \/ b[at] # "lead"
    PROVE  \A n \in 1..Len(c) : Decoded(c)[n] = c[n]
<1> SUFFICES ASSUME NEW n \in 1..Len(c) PROVE Decoded(c)[n] = c[n]
  OBVIOUS
<1>0. n \in Nat /\ 1 <= n /\ n <= Len(c) /\ Len(c) \in Nat
  OBVIOUS
<1>1. at + n \in DOMAIN b /\ DOMAIN c = 1..Len(c) /\ Len(c) \in Nat /\ Len(b) \in Nat
  OBVIOUS
<1>2. b[at + n] = c[n]
  OBVIOUS
<1>3. CASE c[n] = "lead"
  <2>1. n # Len(c)
    BY <1>3
  <2>2. b[(at + n) + 1] = "trail"
    BY <1>1, <1>2, <1>3 DEF Encoded
  <2>3. n + 1 \in 1..Len(c) /\ at + (n + 1) = (at + n) + 1
    BY <1>0, <2>1
  <2>4. c[n + 1] = "trail"
    <3>1. b[at + (n + 1)] = c[n + 1]
      BY <2>3
    <3>2. QED
      BY <2>2, <2>3, <3>1
  <2>5. QED
    BY <1>1, <1>3, <2>1, <2>4 DEF Decoded
<1>4. CASE c[n] = "trail"
  <2>1. at + n > 1 /\ b[(at + n) - 1] = "lead"
    <3> DEFINE p == at + n
    <3>1. p \in DOMAIN b /\ b[p] = "trail"
      BY <1>1, <1>2, <1>4
    <3> HIDE DEF p
    <3>2. p > 1 /\ b[p - 1] = "lead"
      BY <3>1 DEF Encoded
    <3>3. QED
      BY <3>2 DEF p
  <2>2. n # 1
    <3>1. CASE n = 1
      <4>1. (at + n) - 1 = at /\ at # 0
        BY <2>1, <3>1
      <4>2. QED
        BY <2>1, <4>1
    <3>2. QED
      BY <3>1
  <2>3. n - 1 \in 1..Len(c) /\ at + (n - 1) = (at + n) - 1
    BY <1>0, <2>2
  <2>4. c[n - 1] = "lead"
    <3>1. b[at + (n - 1)] = c[n - 1]
      BY <2>3
    <3>2. QED
      BY <2>1, <2>3, <3>1
  <2>5. QED
    BY <1>1, <1>4, <2>2, <2>4 DEF Decoded
<1>5. CASE c[n] \notin {"lead", "trail"}
  BY <1>1, <1>5 DEF Decoded
<1>6. QED
  BY <1>3, <1>4, <1>5

\* The accumulator has the text up to a place, and its buffer is empty where an event ended.
Caught(acc, kept, b, p) ==
    /\ acc \in Accumulators
    /\ acc.parts \o acc.buf = kept[p]
    /\ p = 0 \/ b[p] = "end" => acc.buf = <<>>

\* One more symbol.
LEMMA HandleCatches ==
    ASSUME NEW b \in Seq(Symbols), NEW kept, NEW p \in 1..Len(b),
           kept[p] = Keep(kept[p - 1], b[p]), NEW acc, Caught(acc, kept, b, p - 1)
    PROVE  Caught(Handle(acc, b[p]), kept, b, p)
<1> DEFINE x == b[p]
<1>1. /\ x \in DecodedSymbols
      /\ acc.parts \in Seq(DecodedSymbols) /\ acc.buf \in Seq(DecodedSymbols)
  BY DEF DecodedSymbols, Caught, Accumulators
<1>2. Handle(acc, x) \in Accumulators
  BY <1>1, HandleType DEF Caught
<1>3. p # 0
  OBVIOUS
<1> HIDE DEF x
<1>4. acc.parts \o acc.buf = kept[p - 1] /\ kept[p] = Keep(kept[p - 1], x)
  BY DEF Caught, x
<1>5. CASE x = "end"
  <2> DEFINE parts == acc.parts \o acc.buf
  <2>1. Handle(acc, x).parts = parts /\ Handle(acc, x).buf = <<>>
    BY <1>5 DEF Handle
  <2>2. parts \in Seq(DecodedSymbols)
    BY <1>1, ConcatProperties
  <2>3. kept[p] = parts
    BY <1>4, <1>5 DEF Keep, IsText
  <2> HIDE DEF parts
  <2>4. parts \o <<>> = parts
    BY <2>2, ConcatEmptySeq
  <2>5. /\ Handle(acc, x).parts \o Handle(acc, x).buf = kept[p]
        /\ Handle(acc, x).buf = <<>>
    <3>1. Handle(acc, x).parts \o Handle(acc, x).buf = parts \o <<>>
      BY <2>1
    <3>2. QED
      BY <2>1, <2>3, <2>4, <3>1
  <2>6. QED
    BY <1>2, <2>5 DEF Caught, x
<1>6. CASE x # "end"
  <2>1. Handle(acc, x) = [acc EXCEPT !.buf = Keep(acc.buf, x)]
    BY <1>6 DEF Handle
  <2>2. Handle(acc, x).parts = acc.parts /\ Handle(acc, x).buf = Keep(acc.buf, x)
    BY <2>1 DEF Caught, Accumulators
  <2>3. acc.parts \o Keep(acc.buf, x) = Keep(acc.parts \o acc.buf, x)
    <3>1. CASE IsText(x)
      <4>1. Append(acc.buf, x) = acc.buf \o <<x>>
        BY <1>1, AppendIsConcat
      <4>2. acc.parts \o acc.buf \in Seq(DecodedSymbols) /\ <<x>> \in Seq(DecodedSymbols)
        BY <1>1, ConcatProperties
      <4>3. Append(acc.parts \o acc.buf, x) = (acc.parts \o acc.buf) \o <<x>>
        BY <1>1, <4>2, AppendIsConcat
      <4>4. (acc.parts \o acc.buf) \o <<x>> = acc.parts \o (acc.buf \o <<x>>)
        <5>1. ASSUME NEW A, NEW l \in Seq(A), NEW m \in Seq(A), NEW r \in Seq(A)
              PROVE  (l \o m) \o r = l \o (m \o r)
          BY <5>1, ConcatAssociative
        <5> DEFINE S == DecodedSymbols
                   s == acc.parts
                   t == acc.buf
                   u == <<x>>
        <5>2. s \in Seq(S) /\ t \in Seq(S) /\ u \in Seq(S)
          BY <1>1, <4>2
        <5> HIDE DEF S, s, t, u
        <5>3. (s \o t) \o u = s \o (t \o u)
          BY <5>1, <5>2
        <5>4. QED
          BY <5>3 DEF s, t, u
      <4>5. QED
        BY <3>1, <4>1, <4>3, <4>4 DEF Keep
    <3>2. CASE ~IsText(x)
      BY <3>2 DEF Keep
    <3>3. QED
      BY <3>1, <3>2
  <2>4. QED
    BY <1>2, <1>3, <1>4, <1>6, <2>2, <2>3 DEF Caught, x
<1>7. QED
  BY <1>5, <1>6 DEF x

\* One more chunk.
LEMMA FeedCatches ==
    ASSUME NEW b \in Seq(Symbols), Encoded(b), NEW kept,
           \A p \in 1..Len(b) : kept[p] = Keep(kept[p - 1], b[p]),
           NEW chunk \in Chunks, NEW at \in Nat, at + Len(Bytes[chunk]) <= Len(b),
           \A n \in 1..Len(Bytes[chunk]) : b[at + n] = Bytes[chunk][n],
           LastSymbol(chunk) # "lead", at = 0 \/ b[at] # "lead",
           NEW acc, Caught(acc, kept, b, at)
    PROVE  Caught(Feed(acc, chunk), kept, b, at + Len(Bytes[chunk]))
<1> DEFINE c == Bytes[chunk]
           symbols == Decoded(c)
<1>1. c \in Seq(Symbols) /\ Len(c) \in Nat
  BY ChunksAssumption
<1>2. symbols \in Seq(DecodedSymbols) /\ Len(symbols) = Len(c)
  BY <1>1, DecodedType
<1>3. \A n \in 1..Len(c) : symbols[n] = c[n]
  <2>1. c # <<>> => c[Len(c)] # "lead"
    BY DEF LastSymbol
  <2>2. at + Len(c) <= Len(b) /\ \A n \in 1..Len(c) : b[at + n] = c[n]
    OBVIOUS
  <2> HIDE DEF c
  <2>3. QED
    BY <1>1, <2>1, <2>2, DecodedWhole
<1>4. at + Len(c) <= Len(b) /\ \A n \in 1..Len(c) : b[at + n] = c[n]
  OBVIOUS
<1>5. Feed(acc, chunk) = HandleAll(acc, symbols)
  BY DEF Feed
<1>6. acc \in Accumulators
  BY DEF Caught
<1> HIDE DEF symbols, c
<1>7. PICK h : /\ h \in [0..Len(symbols) -> Accumulators]
               /\ h[0] = acc
               /\ \A k \in 1..Len(symbols) : h[k] = Handle(h[k - 1], symbols[k])
               /\ HandleAll(acc, symbols) = h[Len(symbols)]
  BY <1>2, <1>6, HandleLoop
<1> DEFINE T == {n \in 0..Len(c) : Caught(h[n], kept, b, at + n)}
<1>8. 0 \in T
  BY <1>1, <1>7
<1>9. ASSUME NEW n \in T, n < Len(c) PROVE n + 1 \in T
  <2> DEFINE next == n + 1
             p == at + next
  <2>1. next \in 1..Len(c) /\ next - 1 = n /\ p \in 1..Len(b) /\ p - 1 = at + n
    <3>1. ASSUME NEW l \in Nat, NEW whole \in Nat, at + l <= whole, n \in 0..l, n < l
          PROVE  n + 1 \in 1..l /\ (n + 1) - 1 = n
                 /\ at + (n + 1) \in 1..whole /\ (at + (n + 1)) - 1 = at + n
      BY <3>1
    <3>2. n \in 0..Len(c) /\ Len(b) \in Nat
      BY <1>9
    <3>3. QED
      BY <1>1, <1>4, <1>9, <3>1, <3>2
  <2>2. Caught(h[n], kept, b, at + n)
    BY <1>9
  <2>3. b[p] = symbols[next]
    BY <1>3, <1>4, <2>1
  <2> HIDE DEF next, p
  <2>4. h[next] = Handle(h[n], b[p])
    BY <1>2, <1>7, <2>1, <2>3
  <2>5. kept[p] = Keep(kept[p - 1], b[p])
    BY <2>1
  <2>6. Caught(Handle(h[n], b[p]), kept, b, p)
    BY <2>1, <2>2, <2>5, HandleCatches
  <2>7. QED
    BY <2>1, <2>4, <2>6 DEF next, p
<1>10. T \in SUBSET (0..Len(c))
  OBVIOUS
<1> HIDE DEF T
<1>11. T = 0..Len(c)
  BY <1>1, <1>8, <1>9, <1>10, UptoInduction
<1>12. Caught(h[Len(c)], kept, b, at + Len(c))
  BY <1>1, <1>11 DEF T
<1>13. QED
  BY <1>2, <1>5, <1>7, <1>12 DEF c

\* All chunks: what is accumulated of a reply is its text.
LEMMA AccumulatedText ==
    ASSUME NEW chunks \in Seq(Chunks), Encoded(Joined(chunks)),
           \A n \in DOMAIN chunks : LastSymbol(chunks[n]) # "lead",
           Joined(chunks) # <<>> => Joined(chunks)[Len(Joined(chunks))] = "end"
    PROVE  Accumulated(chunks).parts = Texts(Joined(chunks))
<1> DEFINE m == Len(chunks)
           b == Joined(chunks)
<1>1. PICK j : /\ j \in [0..m -> Seq(Symbols)]
               /\ j[0] = <<>> /\ j[m] = b
               /\ \A k \in 1..m :
                     /\ Len(j[k]) = Len(j[k - 1]) + Len(Bytes[chunks[k]])
                     /\ Len(j[k]) <= Len(b)
                     /\ \A n \in 1..Len(Bytes[chunks[k]]) :
                           b[Len(j[k - 1]) + n] = Bytes[chunks[k]][n]
  BY JoinedAt
<1>2. m \in Nat /\ b \in Seq(Symbols)
  BY <1>1
<1>3. PICK f : /\ f \in [0..m -> Accumulators]
               /\ f[0] = [buf |-> <<>>, parts |-> <<>>]
               /\ \A k \in 1..m : f[k] = Feed(f[k - 1], chunks[k])
               /\ Accumulated(chunks) = f[m]
  BY FeedLoop
<1> HIDE DEF b
<1>4. PICK kept : /\ kept \in [0..Len(b) -> Seq(DecodedSymbols)]
                  /\ kept[0] = <<>>
                  /\ \A p \in 1..Len(b) : kept[p] = Keep(kept[p - 1], b[p])
                  /\ Texts(b) = kept[Len(b)]
  BY <1>2, TextsLoop
<1>5. ASSUME NEW k \in 1..m
      PROVE  /\ chunks[k] \in Chunks /\ k - 1 \in 0..m /\ LastSymbol(chunks[k]) # "lead"
             /\ Len(j[k - 1]) \in Nat
             /\ Len(Bytes[chunks[k]]) \in Nat \ {0}
  <2>1. chunks[k] \in Chunks /\ k - 1 \in 0..m /\ k \in DOMAIN chunks
    BY <1>2
  <2>2. j[k - 1] \in Seq(Symbols)
    BY <1>1, <2>1
  <2>3. Bytes[chunks[k]] \in Seq(Symbols) \ {<<>>}
    BY <2>1, ChunksAssumption
  <2>4. QED
    BY <2>1, <2>2, <2>3, EmptySeq
<1> HIDE DEF m
\* A place between two chunks.
<1>6. ASSUME NEW k \in 1..m
      PROVE  b[Len(j[k])] # "lead"
  <2> DEFINE c == Bytes[chunks[k]]
  <2>1. Len(c) \in 1..Len(c) /\ Len(j[k]) = Len(j[k - 1]) + Len(c)
    <3>1. ASSUME NEW l \in Nat \ {0} PROVE l \in 1..l
      BY <3>1
    <3>2. Len(c) \in 1..Len(c)
      BY <1>5, <3>1
    <3>3. Len(j[k]) = Len(j[k - 1]) + Len(c)
      BY <1>1
    <3>4. QED
      BY <3>2, <3>3
  <2>2. b[Len(j[k - 1]) + Len(c)] = c[Len(c)]
    BY <1>1, <2>1
  <2>3. c[Len(c)] # "lead"
    BY <1>5 DEF LastSymbol
  <2>4. QED
    BY <2>1, <2>2, <2>3
<1> DEFINE T == {k \in 0..m : Caught(f[k], kept, b, Len(j[k]))}
<1>7. 0 \in T
  <2>1. f[0] \in Accumulators /\ f[0].parts = <<>> /\ f[0].buf = <<>> /\ Len(j[0]) = 0
    BY <1>1, <1>2, <1>3
  <2>2. <<>> \o <<>> = <<>>
    OBVIOUS
  <2>3. f[0].parts \o f[0].buf = <<>> \o <<>>
    BY <2>1
  <2>4. Caught(f[0], kept, b, Len(j[0]))
    BY <1>4, <2>1, <2>2, <2>3 DEF Caught
  <2>5. QED
    BY <1>2, <2>4
<1>8. ASSUME NEW i \in T, i < m PROVE i + 1 \in T
  <2> DEFINE k == i + 1
             at == Len(j[i])
  <2>1. k \in 1..m /\ k - 1 = i /\ i \in 0..m /\ Caught(f[i], kept, b, at)
    BY <1>2, <1>8
  <2> HIDE DEF k
  <2>2. /\ chunks[k] \in Chunks /\ LastSymbol(chunks[k]) # "lead" /\ at \in Nat
        /\ Len(j[k]) = at + Len(Bytes[chunks[k]]) /\ Len(j[k]) <= Len(b)
        /\ \A n \in 1..Len(Bytes[chunks[k]]) : b[at + n] = Bytes[chunks[k]][n]
        /\ f[k] = Feed(f[i], chunks[k])
    BY <1>1, <1>3, <1>5, <2>1
  <2>3. at = 0 \/ b[at] # "lead"
    <3>1. CASE i = 0
      BY <1>1, <3>1
    <3>2. CASE i # 0
      BY <1>2, <1>6, <2>1, <3>2
    <3>3. QED
      BY <3>1, <3>2
  <2>4. Encoded(b)
    BY DEF b
  <2> HIDE DEF at
  <2>5. Caught(Feed(f[i], chunks[k]), kept, b, at + Len(Bytes[chunks[k]]))
    BY <1>2, <1>4, <2>1, <2>2, <2>3, <2>4, FeedCatches
  <2>6. QED
    BY <2>1, <2>2, <2>5 DEF k
<1>9. T \in SUBSET (0..m)
  OBVIOUS
<1> HIDE DEF T
<1>10. T = 0..m
  BY <1>2, <1>7, <1>8, <1>9, UptoInduction
<1>11. Caught(f[m], kept, b, Len(b))
  BY <1>1, <1>2, <1>10 DEF T
<1>12. f[m].buf = <<>> /\ f[m].parts \in Seq(DecodedSymbols)
  <2>1. Len(b) = 0 \/ b[Len(b)] = "end"
    <3>1. b # <<>> => b[Len(b)] = "end"
      BY DEF b
    <3>2. QED
      BY <1>2, <3>1
  <2>2. QED
    BY <1>11, <2>1 DEF Caught, Accumulators
<1>13. f[m].parts \o <<>> = f[m].parts
  BY <1>12, ConcatEmptySeq
<1>14. f[m].parts = kept[Len(b)]
  BY <1>11, <1>12, <1>13 DEF Caught
<1>15. QED
  BY <1>3, <1>4, <1>14 DEF b

\* What is remembered of a streamed reply is its text, however the network cut it and however
\* long it is (_SSEAccumulator keeps what follows the last event), and it is stored unless it
\* is empty.
THEOREM ReassembledTheorem == Spec => []Reassembled
<1>1. TypeInv /\ StoredInv => Reassembled
  <2> SUFFICES ASSUME TypeInv, StoredInv, NEW r \in Requests,
                      Streams(r), job[r] = "finished", ~failed[r], ~raised[r],
                      \A n \in DOMAIN reply[r] : LastSymbol(reply[r][n]) # "lead",
                      Joined(reply[r]) # <<>> =>
                          Joined(reply[r])[Len(Joined(reply[r]))] = "end"
               PROVE  /\ Recorded(r) = Texts(Joined(reply[r]))
                      /\ "reply" \in memory[r] <=> Recorded(r) # <<>>
    BY DEF Reassembled, LastSymbol
  <2>1. reply[r] \in Replies /\ reply[r] \in Seq(Chunks)
    BY RepliesAssumption DEF TypeInv, TypeOK
  <2>2. pulled[r] = Len(reply[r])
    BY DEF TypeInv, Progress
  <2>3. Received(r) = reply[r]
    BY <2>1, <2>2, SubSeqFull DEF Received
  <2>4. Encoded(Joined(reply[r]))
    BY <2>1, EncodingAssumption
  <2>5. Accumulated(reply[r]).parts = Texts(Joined(reply[r]))
    BY <2>1, <2>4, AccumulatedText
  <2>6. Recorded(r) = Texts(Joined(reply[r]))
    BY <2>3, <2>5 DEF Recorded, TextOf
  <2>7. memory[r] = {"user", "model"} \cup (IF HasText(r) THEN {"reply"} ELSE {})
    BY DEF StoredInv, Stored
  <2>8. QED
    BY <2>6, <2>7 DEF HasText
<1>2. QED
  BY <1>1, ChatInv, PTL
==============================================================================
