------------------------------ MODULE ChatProxy ------------------------------
(***************************************************************************)
(* The chat proxy's handling of requests: the ASGI handler on the event    *)
(* loop, the job that a thread of the loop's executor runs for it, the     *)
(* queue between the two, the upstream model and the client.               *)
(*                                                                         *)
(* A streaming response is a generator that the job drains into the queue; *)
(* a plain one is the job's return value.  Both augment the request,       *)
(* forward it and store the exchange in memory.  What memory holds is the  *)
(* matter of FactMemory; here it is what was stored of each exchange.      *)
(***************************************************************************)
EXTENDS Naturals, Sequences, FiniteSets

CONSTANTS
    Requests,   \* requests that clients make
    Chunks,     \* chunks of a reply, as the network cuts it
    Bytes,      \* what each chunk holds: a sequence of symbols
    Replies,    \* what the upstream may send: sequences of chunks
    Threads,    \* threads of the executor
    Faults      \* failures that happen: "augment", "upstream", "memory", "client"

Markers == {"start", "error", "result", "end"}

\* Text of the reply, the halves of one of its characters, the blank line that ends an
\* event, and anything else an event may say.
Symbols == {"text", "lead", "trail", "end", "other"}

ASSUME ChunksAssumption == Bytes \in [Chunks -> Seq(Symbols) \ {<<>>}] /\ Chunks \cap Markers = {}
ASSUME RepliesAssumption == Replies \subseteq Seq(Chunks)

Extended(bytes, chunk) == bytes \o Bytes[chunk]

\* The bytes of chunks, one after the other.
Joined(chunks) ==
    LET joined[n \in 0..Len(chunks)] ==
            IF n = 0 THEN <<>> ELSE Extended(joined[n - 1], chunks[n])
    IN joined[Len(chunks)]

\* No character lacks a half.
Encoded(bytes) ==
    \A n \in DOMAIN bytes :
        /\ bytes[n] = "lead" => n < Len(bytes) /\ bytes[n + 1] = "trail"
        /\ bytes[n] = "trail" => n > 1 /\ bytes[n - 1] = "lead"

ASSUME EncodingAssumption == \A chunks \in Replies : Encoded(Joined(chunks))
ASSUME ThreadsAssumption == Threads \in Nat \ {0}

VARIABLES
    kind,        \* "stream" or "plain"
    reply,       \* what the upstream has to say to each request
    pulled,      \* how many chunks of it the job has received
    handler,     \* what the handler of each request is doing
    job,         \* what its job is doing
    queue,       \* chunks and markers the job has handed to the event loop
    sent,        \* frames the handler has sent
    connected,   \* the client is there
    failed,      \* the job ended in an error
    raised,      \* a memory write raised and was swallowed
    memory       \* what was stored of the exchange

input == <<kind, reply>>
vars == <<input, pulled, handler, job, queue, sent, connected, failed, raised, memory>>

Init ==
    /\ kind \in [Requests -> {"stream", "plain"}]
    /\ reply \in [Requests -> Replies]
    /\ pulled = [r \in Requests |-> 0]
    /\ handler = [r \in Requests |-> "none"]
    /\ job = [r \in Requests |-> "none"]
    /\ queue = [r \in Requests |-> <<>>]
    /\ sent = [r \in Requests |-> <<>>]
    /\ connected = [r \in Requests |-> TRUE]
    /\ failed = [r \in Requests |-> FALSE]
    /\ raised = [r \in Requests |-> FALSE]
    /\ memory = [r \in Requests |-> {}]

Streams(r) == kind[r] = "stream"

IsText(symbol) == symbol \in {"text", "lead", "trail", "garbled"}

\* A chunk is decoded on its own: half a character is replaced.
Decoded(bytes) ==
    [n \in DOMAIN bytes |->
        IF \/ bytes[n] = "lead" /\ (n = Len(bytes) \/ bytes[n + 1] # "trail")
           \/ bytes[n] = "trail" /\ (n = 1 \/ bytes[n - 1] # "lead")
        THEN "garbled" ELSE bytes[n]]

Keep(text, symbol) == IF IsText(symbol) THEN Append(text, symbol) ELSE text

\* The text among some symbols.
Texts(symbols) ==
    LET kept[n \in 0..Len(symbols)] ==
            IF n = 0 THEN <<>> ELSE Keep(kept[n - 1], symbols[n])
    IN kept[Len(symbols)]

\* _handle of each event that has ended; what follows the last stays in the buffer, where
\* only its text matters.
Handle(acc, symbol) ==
    IF symbol = "end" THEN [buf |-> <<>>, parts |-> acc.parts \o acc.buf]
    ELSE [acc EXCEPT !.buf = Keep(@, symbol)]

HandleAll(acc, symbols) ==
    LET handled[n \in 0..Len(symbols)] ==
            IF n = 0 THEN acc ELSE Handle(handled[n - 1], symbols[n])
    IN handled[Len(symbols)]

\* Mutant of Feed: the buffer does not outlive the chunk.
FeedAlone(acc, chunk) == HandleAll([acc EXCEPT !.buf = <<>>], Decoded(Bytes[chunk]))

\* feed of _SSEAccumulator
Feed(acc, chunk) == HandleAll(acc, Decoded(Bytes[chunk]))

\* What the accumulator makes of a stream's chunks.
Accumulated(chunks) ==
    LET fed[n \in 0..Len(chunks)] ==
            IF n = 0 THEN [buf |-> <<>>, parts |-> <<>>] ELSE Feed(fed[n - 1], chunks[n])
    IN fed[Len(chunks)]

Received(r) == SubSeq(reply[r], 1, pulled[r])

\* The text of what a request received: what was accumulated of a stream, or the content of
\* a plain reply.
TextOf(streaming, chunks) ==
    IF streaming THEN Accumulated(chunks).parts ELSE Texts(Joined(chunks))

\* The text to store.
Recorded(r) == TextOf(Streams(r), Received(r))

HasText(r) == Recorded(r) # <<>>

------------------------------------------------------------------------------
(* The handler *)

\* Mutant of Arrive: every request goes to the executor at once.
ArriveAtOnce(r) ==
    /\ handler[r] = "none"
    /\ handler' = [handler EXCEPT ![r] = IF Streams(r) THEN "starting" ELSE "waiting"]
    /\ job' = [job EXCEPT ![r] = "queued"]
    /\ UNCHANGED <<input, pulled, queue, sent, connected, failed, raised, memory>>

\* A request arrives: a plain one goes to the executor at once.
Arrive(r) ==
    /\ handler[r] = "none"
    /\ IF Streams(r)
       THEN /\ handler' = [handler EXCEPT ![r] = "starting"]
            /\ UNCHANGED job
       ELSE /\ handler' = [handler EXCEPT ![r] = "waiting"]
            /\ job' = [job EXCEPT ![r] = "queued"]
    /\ UNCHANGED <<input, pulled, queue, sent, connected, failed, raised, memory>>

\* The head of the response goes out before anything is known of the upstream.
StartResponse(r) ==
    /\ handler[r] = "starting"
    /\ sent' = [sent EXCEPT ![r] = <<"start">>]
    /\ handler' = [handler EXCEPT ![r] = "waiting"]
    /\ job' = [job EXCEPT ![r] = "queued"]
    /\ UNCHANGED <<input, pulled, queue, connected, failed, raised, memory>>

\* The handler takes the next item off the queue and sends it; the end marker
\* ends the response.
SendNext(r) ==
    /\ handler[r] = "waiting"
    /\ queue[r] # <<>>
    /\ queue' = [queue EXCEPT ![r] = Tail(@)]
    /\ sent' = [sent EXCEPT ![r] = Append(@, Head(queue[r]))]
    /\ handler' = [handler EXCEPT ![r] = IF Head(queue[r]) = "end" THEN "ended" ELSE @]
    /\ UNCHANGED <<input, pulled, job, connected, failed, raised, memory>>

\* The job of a plain request is over: 200 with the reply, or 502.
Respond(r) ==
    /\ handler[r] = "waiting"
    /\ ~Streams(r)
    /\ job[r] = "finished"
    /\ sent' = [sent EXCEPT ![r] = <<"start", IF failed[r] THEN "error" ELSE "result">>]
    /\ handler' = [handler EXCEPT ![r] = "ended"]
    /\ UNCHANGED <<input, pulled, job, queue, connected, failed, raised, memory>>

\* The client goes away.
Disconnect(r) ==
    /\ "client" \in Faults
    /\ handler[r] \in {"starting", "waiting"}
    /\ connected[r]
    /\ connected' = [connected EXCEPT ![r] = FALSE]
    /\ UNCHANGED <<input, pulled, handler, job, queue, sent, failed, raised, memory>>

\* A server may raise out of send when the client is gone.  The job goes on.
SendRaises(r) ==
    /\ ~connected[r]
    /\ \/ handler[r] = "starting"
       \/ handler[r] = "waiting" /\ queue[r] # <<>>
       \/ handler[r] = "waiting" /\ ~Streams(r) /\ job[r] = "finished"
    /\ handler' = [handler EXCEPT ![r] = "gone"]
    /\ UNCHANGED <<input, pulled, job, queue, sent, connected, failed, raised, memory>>

------------------------------------------------------------------------------
(* The job *)

Busy == {r \in Requests : job[r] \notin {"none", "queued", "finished"}}

StartJob(r) ==
    /\ job[r] = "queued"
    /\ Cardinality(Busy) < Threads
    /\ job' = [job EXCEPT ![r] = "augment"]
    /\ UNCHANGED <<input, pulled, handler, queue, sent, connected, failed, raised, memory>>

\* A streaming request stores the user's turn first, a plain one after the reply.
Augment(r) ==
    /\ job[r] = "augment"
    /\ job' = [job EXCEPT ![r] = IF Streams(r) THEN "user" ELSE "forward"]
    /\ UNCHANGED <<input, pulled, handler, queue, sent, connected, failed, raised, memory>>

\* Mutants of Fail: an exception that ends the job without the end marker, and one
\* that ends the response as if the reply were whole.
FailWithoutEnd(r) ==
    /\ job' = [job EXCEPT ![r] = "finished"]
    /\ failed' = [failed EXCEPT ![r] = TRUE]
    /\ queue' = [queue EXCEPT ![r] = IF Streams(r) THEN Append(@, "error") ELSE @]
    /\ UNCHANGED <<input, pulled, handler, sent, connected, raised, memory>>

FailSilently(r) ==
    /\ job' = [job EXCEPT ![r] = "closing"]
    /\ failed' = [failed EXCEPT ![r] = TRUE]
    /\ UNCHANGED <<input, pulled, handler, queue, sent, connected, raised, memory>>

\* An exception reaches the end of the job: an error event of the stream, or the
\* exception that the plain handler turns into a 502.
Fail(r) ==
    /\ job' = [job EXCEPT ![r] = "closing"]
    /\ failed' = [failed EXCEPT ![r] = TRUE]
    /\ queue' = [queue EXCEPT ![r] = IF Streams(r) THEN Append(@, "error") ELSE @]
    /\ UNCHANGED <<input, pulled, handler, sent, connected, raised, memory>>

AugmentRaises(r) ==
    /\ "augment" \in Faults
    /\ job[r] = "augment"
    /\ Fail(r)

\* The upstream sends one more chunk, which the job passes on as it is.
ReceiveChunk(r) ==
    /\ job[r] = "forward"
    /\ pulled[r] < Len(reply[r])
    /\ pulled' = [pulled EXCEPT ![r] = @ + 1]
    /\ queue' = [queue EXCEPT ![r] =
                    IF Streams(r) THEN Append(@, reply[r][pulled[r] + 1]) ELSE @]
    /\ UNCHANGED <<input, handler, job, sent, connected, failed, raised, memory>>

\* The upstream refuses, breaks off or times out, anywhere in the reply.
UpstreamFails(r) ==
    /\ "upstream" \in Faults
    /\ job[r] = "forward"
    /\ Fail(r)

\* What is left to do once the reply is complete or the user's turn is stored.
AfterReply(r) == IF HasText(r) THEN "reply" ELSE "closing"

\* Mutant of UpstreamEnds: the end marker does not wait for the memory writes.
UpstreamEndsAtOnce(r) ==
    /\ job[r] = "forward"
    /\ pulled[r] = Len(reply[r])
    /\ job' = [job EXCEPT ![r] = IF Streams(r) THEN AfterReply(r) ELSE "user"]
    /\ queue' = [queue EXCEPT ![r] = IF Streams(r) THEN Append(@, "end") ELSE @]
    /\ UNCHANGED <<input, pulled, handler, sent, connected, failed, raised, memory>>

UpstreamEnds(r) ==
    /\ job[r] = "forward"
    /\ pulled[r] = Len(reply[r])
    /\ job' = [job EXCEPT ![r] = IF Streams(r) THEN AfterReply(r) ELSE "user"]
    /\ UNCHANGED <<input, pulled, handler, queue, sent, connected, failed, raised, memory>>

\* The last user turn is ingested and the request's model becomes the last model.
StoreUserAndModel(r) ==
    /\ job[r] = "user"
    /\ memory' = [memory EXCEPT ![r] = @ \cup {"user", "model"}]
    /\ job' = [job EXCEPT ![r] = IF Streams(r) THEN "forward" ELSE AfterReply(r)]
    /\ UNCHANGED <<input, pulled, handler, queue, sent, connected, failed, raised>>

\* Ingesting the turn raises: the model is not stored, nor the reply of a plain
\* request, whose writes share one try.
StoreUserRaises(r) ==
    /\ "memory" \in Faults
    /\ job[r] = "user"
    /\ raised' = [raised EXCEPT ![r] = TRUE]
    /\ job' = [job EXCEPT ![r] = IF Streams(r) THEN "forward" ELSE "closing"]
    /\ UNCHANGED <<input, pulled, handler, queue, sent, connected, failed, memory>>

StoreReply(r) ==
    /\ job[r] = "reply"
    /\ memory' = [memory EXCEPT ![r] = @ \cup {"reply"}]
    /\ job' = [job EXCEPT ![r] = "closing"]
    /\ UNCHANGED <<input, pulled, handler, queue, sent, connected, failed, raised>>

StoreReplyRaises(r) ==
    /\ "memory" \in Faults
    /\ job[r] = "reply"
    /\ raised' = [raised EXCEPT ![r] = TRUE]
    /\ job' = [job EXCEPT ![r] = "closing"]
    /\ UNCHANGED <<input, pulled, handler, queue, sent, connected, failed, memory>>

\* Mutant of CloseJob: the queue is bounded, and putting the end marker waits.
CloseJobWhenDrained(r) ==
    /\ job[r] = "closing"
    /\ queue[r] = <<>>
    /\ job' = [job EXCEPT ![r] = "finished"]
    /\ queue' = [queue EXCEPT ![r] = IF Streams(r) THEN Append(@, "end") ELSE @]
    /\ UNCHANGED <<input, pulled, handler, sent, connected, failed, raised, memory>>

\* The job is over, in every case: the end marker of the stream, or the return.
CloseJob(r) ==
    /\ job[r] = "closing"
    /\ job' = [job EXCEPT ![r] = "finished"]
    /\ queue' = [queue EXCEPT ![r] = IF Streams(r) THEN Append(@, "end") ELSE @]
    /\ UNCHANGED <<input, pulled, handler, sent, connected, failed, raised, memory>>

------------------------------------------------------------------------------

Handling(r) == Arrive(r) \/ StartResponse(r) \/ SendNext(r) \/ Respond(r) \/ SendRaises(r)

Working(r) ==
    \/ StartJob(r) \/ Augment(r) \/ AugmentRaises(r)
    \/ ReceiveChunk(r) \/ UpstreamFails(r) \/ UpstreamEnds(r)
    \/ StoreUserAndModel(r) \/ StoreUserRaises(r)
    \/ StoreReply(r) \/ StoreReplyRaises(r)
    \/ CloseJob(r)

Next == \E r \in Requests : Handling(r) \/ Working(r) \/ Disconnect(r)

\* The event loop runs what is ready and the executor's threads run.  Replies are
\* finite, and the client's timeout of 300 s ends an upstream that stops.
Fairness == \A r \in Requests : WF_vars(Handling(r)) /\ WF_vars(Working(r))

Spec == Init /\ [][Next]_vars /\ Fairness

------------------------------------------------------------------------------

\* The state is well formed, no more jobs run than there are threads, and a stream's
\* job begins after the head of its response is sent.
TypeOK ==
    /\ kind \in [Requests -> {"stream", "plain"}]
    /\ reply \in [Requests -> Replies]
    /\ pulled \in [Requests -> Nat] /\ \A r \in Requests : pulled[r] <= Len(reply[r])
    /\ handler \in [Requests -> {"none", "starting", "waiting", "ended", "gone"}]
    /\ job \in [Requests -> {"none", "queued", "augment", "user", "forward", "reply",
                             "closing", "finished"}]
    /\ Cardinality(Busy) <= Threads
    /\ \A r \in Requests : job[r] # "none" => handler[r] \notin {"none", "starting"}
    /\ queue \in [Requests -> Seq(Chunks \cup Markers)]
    /\ sent \in [Requests -> Seq(Chunks \cup Markers)]
    /\ connected \in [Requests -> BOOLEAN]
    /\ failed \in [Requests -> BOOLEAN]
    /\ raised \in [Requests -> BOOLEAN]
    /\ memory \in [Requests -> SUBSET {"user", "model", "reply"}]

Ended(r) == handler[r] = "ended"

\* The chunks that a client has been sent are the upstream's, in order; a response
\* that ends has all of them, or an error event after the last one and nothing else
\* ("raw SSE byte chunks unchanged").
Passthrough ==
    \A r \in Requests : Streams(r) /\ sent[r] # <<>> =>
        LET frames == Tail(sent[r])
            whole == reply[r] \o <<"end">>
        IN IF Ended(r)
           THEN IF failed[r]
                THEN \E n \in 0..Len(reply[r]) :
                        frames = SubSeq(reply[r], 1, n) \o <<"error", "end">>
                ELSE frames = whole
           ELSE \E n \in 0..Len(reply[r]) :
                   \/ frames = SubSeq(reply[r], 1, n)
                   \/ failed[r] /\ frames = SubSeq(reply[r], 1, n) \o <<"error">>

\* A client that has its response, and a client that left, find the exchange in
\* memory: the response ends after the last memory write, and the job outlives the
\* handler.  Only a write that raised, or a request that failed, stores less.
Remembered ==
    \A r \in Requests :
        /\ Ended(r) \/ job[r] = "finished"
        /\ ~failed[r] /\ ~raised[r]
        => memory[r] = {"user", "model"} \cup (IF HasText(r) THEN {"reply"} ELSE {})

\* What the proxy remembers of a streamed reply is the text of its events, wherever the
\* network cut it: unless it cut a character, or the stream ended without a blank line
\* after its last event ("chunks don't align to SSE events").
Reassembled ==
    \A r \in Requests :
        LET bytes == Joined(reply[r])
            last(chunk) == Bytes[chunk][Len(Bytes[chunk])]
            whole == \A n \in DOMAIN reply[r] : last(reply[r][n]) # "lead"
        IN /\ Streams(r) /\ job[r] = "finished" /\ ~failed[r] /\ ~raised[r]
           /\ whole /\ (bytes # <<>> => bytes[Len(bytes)] = "end")
           => /\ Recorded(r) = Texts(bytes)
              /\ "reply" \in memory[r] <=> Recorded(r) # <<>>

\* Every request ends, whatever fails upstream, in memory or at the client, however
\* few threads there are.
EveryRequestEnds ==
    \A r \in Requests : handler[r] # "none" ~> handler[r] \in {"ended", "gone"}

\* Jobs whose client has left end too, and give their thread back.
EveryJobEnds ==
    \A r \in Requests : job[r] = "queued" ~> job[r] = "finished"

==============================================================================
