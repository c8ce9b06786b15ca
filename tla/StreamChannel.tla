------------------------------ MODULE StreamChannel ------------------------------
(***************************************************************************)
(* One NIP-173 stream: a StreamWriter batches the parts of a file into     *)
(* chunks, each naming the chunk before it, and publishes them as          *)
(* ephemeral events to several relays at once; the relays forward them to  *)
(* the subscription of a StreamReader, which puts them back in order.      *)
(* A chunk is known by its position in chunks, which stands for the id of  *)
(* its event; chunk n names chunk n - 1 in its prev tag (0: no prev tag).  *)
(***************************************************************************)
EXTENDS Naturals, Sequences, FiniteSets

CONSTANTS
    Relays,        \* the relays of the stream
    MaxParts,      \* bound: parts of a file, handed to write() one per call
    BatchLimit,    \* parts that fit a chunk (maxChunkSize)
    MaxFailures,   \* bound: publications no relay acknowledges
    MaxChunks,     \* StreamReaderConfig.maxChunks
    MaxResult      \* StreamReaderConfig.maxResultSize, in parts

ASSUME StreamAssumption ==
    /\ MaxParts \in Nat /\ BatchLimit \in Nat \ {0}
    /\ MaxFailures \in Nat /\ MaxChunks \in Nat /\ MaxResult \in Nat

VARIABLES
    parts,       \* parts of the file the application writes
    gzip,        \* StreamMetadata.compression is "gzip", not "none"
    taken,       \* parts write() has put into the compressor
    chunks,      \* chunks created: [from, to, status]
    publishing,  \* publishPromises: chunks waiting for the relays' answers
    wDone,       \* StreamWriter.isDone
    wError,      \* StreamWriter.isError
    failures,    \* publications that failed
    wire,        \* <<relay, chunk>>: on its way through that relay
    sub,         \* the reader's subscription: "no", "open", "closed"
    seen,        \* ids the pool has passed on to this subscription
    buffer,      \* StreamReader.buffer, chunks keyed by their prev tag
    nextRef,     \* StreamReader.nextRef
    procs,       \* processBuffer calls awaiting processChunk: their chunk
    chunkCount,  \* StreamReader.chunkCount
    totalSize,   \* StreamReader.totalSize, in parts
    rDone,       \* StreamReader.isDone
    rError,      \* StreamReader.error
    results,     \* resultBuffer
    waiting,     \* the consumer has a promise in waitingPromiseHandlers
    received,    \* chunks the consumer was given
    told         \* how iteration ended for the consumer

file == <<parts, gzip>>
writerVars == <<taken, chunks, publishing, wDone, wError, failures>>
readerVars == <<sub, seen, buffer, nextRef, procs, chunkCount, totalSize,
                rDone, rError, results, waiting, received, told>>
streamVars == <<file, writerVars, wire, readerVars>>

Ids == 1 .. Len(chunks)
Prev(n) == n - 1
Size(n) == chunks[n].to - chunks[n].from
Flushed == IF chunks = <<>> THEN 0 ELSE chunks[Len(chunks)].to

Errors == {"none", "relayed", "maxChunks", "maxSize", "ttl", "decode", "state"}

Flags ==
    /\ gzip \in BOOLEAN /\ wDone \in BOOLEAN /\ wError \in BOOLEAN
    /\ rDone \in BOOLEAN /\ waiting \in BOOLEAN

ChunkType == [from : 0 .. parts, to : 0 .. parts, status : {"active", "done", "error"}]

WriterTypes ==
    /\ parts \in 0 .. MaxParts /\ taken \in 0 .. parts
    /\ chunks \in Seq(ChunkType) /\ publishing \subseteq Ids
    /\ failures \in 0 .. MaxFailures /\ wire \subseteq Relays \X Ids

ReaderTypes ==
    /\ sub \in {"no", "open", "closed"} /\ seen \subseteq Ids /\ buffer \subseteq Ids
    /\ nextRef \in 0 .. Len(chunks) /\ procs \in Seq(Ids)
    /\ chunkCount \in Nat /\ totalSize \in Nat /\ rError \in Errors
    /\ results \in Seq(Ids) /\ received \in Seq(Ids)
    /\ told \in {"no", "done", "error", "left"}

TypeOK == Flags /\ WriterTypes /\ ReaderTypes

WriterInit ==
    /\ parts \in 0 .. MaxParts /\ gzip \in BOOLEAN
    /\ taken = 0 /\ chunks = <<>> /\ publishing = {} /\ wire = {}
    /\ wDone = FALSE /\ wError = FALSE /\ failures = 0

ReaderInit ==
    /\ sub = "no" /\ seen = {} /\ buffer = {} /\ nextRef = 0 /\ procs = <<>>
    /\ chunkCount = 0 /\ totalSize = 0 /\ rDone = FALSE /\ rError = "none"
    /\ results = <<>> /\ waiting = FALSE /\ received = <<>> /\ told = "no"

StreamInit == WriterInit /\ ReaderInit

---------------------------------------------------------------------------
(* The writer.                                                             *)

Chunk(to, status) == [from |-> Flushed, to |-> to, status |-> status]

\* createAndPublishEvent for the chunks of sequence s: the event is sent to
\* every relay, which may forward it before the others have answered
Publish(s, pending) ==
    LET new == Len(chunks) + 1 .. Len(chunks) + Len(s)
    IN  /\ chunks' = chunks \o s
        /\ publishing' = pending \cup new
        /\ wire' = wire \cup (Relays \X new)

\* The compressor throws CompressionSizeLimitExceeded for the next part
BatchFull == taken - Flushed >= BatchLimit

\* write(part): a full batch is sent before the part is compressed; the
\* thresholds of size and time then decide whether what is there is sent.
Write(flush) ==
    /\ ~wError /\ ~wDone /\ taken < parts
    /\ LET first == IF BatchFull THEN <<Chunk(taken, "active")>> ELSE <<>>
           from == IF BatchFull THEN taken ELSE Flushed
           second == IF flush
                     THEN <<[from |-> from, to |-> taken + 1, status |-> "active"]>>
                     ELSE <<>>
       IN  Publish(first \o second, publishing)
    /\ taken' = taken + 1
    /\ UNCHANGED <<file, wDone, wError, failures, readerVars>>

\* nip44_v3 refuses an empty plaintext, and without compression an empty
\* batch is an empty plaintext
CanEncrypt(from, to) == gzip \/ to > from

\* write(empty, done): the last flush, whatever is left in the batch
WriteDone ==
    /\ ~wError /\ ~wDone /\ taken = parts
    /\ wDone' = TRUE
    /\ IF CanEncrypt(Flushed, taken)
       THEN Publish(<<Chunk(taken, "done")>>, publishing) /\ wError' = wError
       ELSE UNCHANGED <<chunks, publishing, wire>> /\ wError' = TRUE
    /\ UNCHANGED <<file, taken, failures, readerVars>>

\* publishToRelays resolved: at least one relay acknowledged the event
PublishSettles(n) ==
    /\ n \in publishing
    /\ publishing' = publishing \ {n}
    /\ UNCHANGED <<file, taken, chunks, wDone, wError, failures, wire, readerVars>>

\* publishToRelays failed: error() sends what the batch holds (gzip may hide it
\* behind a size of 0), then an error chunk; once write(done) was called it
\* throws instead, and nobody hears of it.
PublishFails(n, flush) ==
    /\ n \in publishing /\ failures < MaxFailures
    /\ failures' = failures + 1
    /\ flush => taken > Flushed /\ ~wDone
    /\ ~flush => gzip \/ taken = Flushed \/ wDone
    /\ wError' = (wError \/ ~wDone)
    /\ LET to == IF flush THEN taken ELSE Flushed
           pending == IF flush THEN <<Chunk(taken, "active")>> ELSE <<>>
           error == [from |-> to, to |-> to, status |-> "error"]
       IN  Publish(IF wDone THEN <<>> ELSE Append(pending, error), publishing \ {n})
    /\ UNCHANGED <<file, taken, wDone, readerVars>>

\* write(.., done) returned: waitPublished has seen every publication end
WriterReturned == wDone /\ ~wError /\ publishing = {}

---------------------------------------------------------------------------
(* The reader.                                                             *)

\* Fault: the promise the consumer waits for is forgotten.
SetError_KeepsWaiting(e) ==
    /\ rError' = (IF rError = "none" THEN e ELSE rError)
    /\ IF rError = "none"
       THEN sub' = "closed" /\ buffer' = {} /\ UNCHANGED <<waiting, told>>
       ELSE UNCHANGED <<sub, buffer, waiting, told>>

\* setError: the first error wins, closes the subscription and rejects the
\* waiting promise
SetError(e) ==
    /\ rError' = (IF rError = "none" THEN e ELSE rError)
    /\ IF rError = "none"
       THEN /\ sub' = "closed" /\ buffer' = {} /\ waiting' = FALSE
            /\ told' = IF waiting THEN "error" ELSE told
       ELSE UNCHANGED <<sub, buffer, waiting, told>>

\* [Symbol.asyncIterator]: iteration begins
Start ==
    /\ sub = "no"
    /\ sub' = "open"
    /\ UNCHANGED <<file, writerVars, wire, seen, buffer, nextRef, procs, chunkCount,
                   totalSize, rDone, rError, results, waiting, received, told>>

\* Fault: chunks are processed as they arrive.
Following_AnyChunk(buf, ref) == buf

\* The head of the loop of processBuffer: the chunk that follows nextRef
Following(buf, ref) == {n \in buf : Prev(n) = ref}

\* A relay forwards a chunk, the pool drops it when another relay was first,
\* and handleEvent takes it.
HandleEvent(r, n) ==
    /\ <<r, n>> \in wire /\ sub = "open"
    /\ wire' = wire \ {<<r, n>>}
    /\ IF n \in seen
       THEN UNCHANGED readerVars
       ELSE /\ seen' = seen \cup {n}
            /\ IF chunks[n].status = "error" \/ chunkCount >= MaxChunks
               THEN /\ SetError(IF chunks[n].status = "error"
                                THEN "relayed" ELSE "maxChunks")
                    /\ UNCHANGED <<nextRef, procs, chunkCount>>
               ELSE /\ chunkCount' = chunkCount + 1
                    /\ LET found == IF rDone \/ rError # "none" THEN {}
                                    ELSE Following(buffer \cup {n}, nextRef)
                       IN  /\ buffer' = (buffer \cup {n}) \ found
                           /\ procs' = IF found = {} THEN procs
                                       ELSE Append(procs, CHOOSE m \in found : TRUE)
                    /\ UNCHANGED <<sub, nextRef, rError, waiting, told>>
            /\ UNCHANGED <<totalSize, rDone, results, received>>
    /\ UNCHANGED <<file, writerVars>>

\* The relay never had the chunk, or forwards it while nobody is subscribed,
\* or the connection drops it: the events are ephemeral and kept nowhere.
LoseChunk(r, n) ==
    /\ <<r, n>> \in wire
    /\ wire' = wire \ {<<r, n>>}
    /\ UNCHANGED <<file, writerVars, readerVars>>

WithoutCall(i) == SubSeq(procs, 1, i - 1) \o SubSeq(procs, i + 1, Len(procs))

\* The rest of the loop body, then its head again, for call i
Continue(i, buf, done) ==
    LET n == procs[i]
        found == IF done \/ rError' # "none" THEN {} ELSE Following(buf, n)
    IN  /\ nextRef' = n
        /\ buffer' = buf \ found
        /\ procs' = IF found = {} THEN WithoutCall(i)
                    ELSE [procs EXCEPT ![i] = CHOOSE m \in found : TRUE]

\* processChunk returned the decrypted chunk of call i
ChunkProcessed(i) ==
    /\ i \in DOMAIN procs
    /\ LET n == procs[i]
           last == chunks[n].status = "done"
       IN  /\ totalSize' = totalSize + Size(n)
           /\ IF totalSize' > MaxResult
              THEN /\ SetError("maxSize")
                   /\ procs' = WithoutCall(i)
                   /\ UNCHANGED <<nextRef, rDone, results, received>>
              ELSE IF waiting /\ results # <<>>   \* "Bad iterator state"
              THEN /\ rError' = "state" /\ sub' = "closed" /\ waiting' = FALSE
                   /\ told' = "error"
                   /\ Continue(i, {}, rDone)
                   /\ UNCHANGED <<rDone, results, received>>
              ELSE /\ IF waiting
                      THEN received' = Append(received, n) /\ results' = results
                      ELSE results' = Append(results, n) /\ received' = received
                   /\ waiting' = FALSE
                   /\ rDone' = (rDone \/ last)
                   /\ sub' = IF last THEN "closed" ELSE sub
                   /\ rError' = rError
                   /\ Continue(i, IF last THEN {} ELSE buffer, rDone')
                   /\ told' = told
    /\ UNCHANGED <<file, writerVars, wire, seen, chunkCount>>

\* processChunk threw: the chunk does not decrypt or decompress
ChunkRejected(i) ==
    /\ i \in DOMAIN procs
    /\ rError' = (IF rError = "none" THEN "decode" ELSE rError)
    /\ sub' = "closed" /\ waiting' = FALSE
    /\ told' = IF waiting THEN "error" ELSE told
    /\ Continue(i, {}, rDone)
    /\ UNCHANGED <<file, writerVars, wire, seen, chunkCount, totalSize, rDone,
                   results, received>>

\* checkTtl: no event for longer than the ttl
TtlExpires ==
    /\ sub # "no" /\ ~rDone /\ rError = "none"
    /\ SetError("ttl")
    /\ UNCHANGED <<file, writerVars, wire, seen, nextRef, procs, chunkCount,
                   totalSize, rDone, results, received>>

\* Fault: the end is told as soon as the last chunk was processed.
NextCall_EndsEarly ==
    /\ sub # "no" /\ ~waiting /\ told = "no"
    /\ told' = (IF rError # "none" THEN "error" ELSE IF rDone THEN "done" ELSE told)
    /\ IF rError = "none" /\ ~rDone /\ results # <<>>
       THEN received' = Append(received, Head(results)) /\ results' = Tail(results)
       ELSE UNCHANGED <<received, results>>
    /\ waiting' = (rError = "none" /\ ~rDone /\ results = <<>>)
    /\ UNCHANGED <<file, writerVars, wire, sub, seen, buffer, nextRef, procs,
                   chunkCount, totalSize, rDone, rError>>

\* next(): an error first, then what is buffered, then the end, else a promise
NextCall ==
    /\ sub # "no" /\ ~waiting /\ told = "no"
    /\ told' = (IF rError # "none" THEN "error"
                ELSE IF rDone /\ results = <<>> THEN "done" ELSE told)
    /\ IF rError = "none" /\ results # <<>>
       THEN received' = Append(received, Head(results)) /\ results' = Tail(results)
       ELSE UNCHANGED <<received, results>>
    /\ waiting' = (rError = "none" /\ ~rDone /\ results = <<>>)
    /\ UNCHANGED <<file, writerVars, wire, sub, seen, buffer, nextRef, procs,
                   chunkCount, totalSize, rDone, rError>>

\* return(): the consumer leaves its loop (its own limit, an exception)
Leave ==
    /\ sub # "no" /\ ~waiting /\ told = "no"
    /\ told' = "left" /\ sub' = "closed" /\ buffer' = {}
    /\ UNCHANGED <<file, writerVars, wire, seen, nextRef, procs, chunkCount,
                   totalSize, rDone, rError, results, waiting, received>>

WriterNext ==
    \/ \E flush \in BOOLEAN : Write(flush)
    \/ WriteDone
    \/ \E n \in Ids : PublishSettles(n)
    \/ \E n \in Ids, flush \in BOOLEAN : PublishFails(n, flush)

RelayNext == \E r \in Relays, n \in Ids : LoseChunk(r, n)

ReaderNext ==
    \/ \E r \in Relays, n \in Ids : HandleEvent(r, n)
    \/ \E i \in DOMAIN procs : ChunkProcessed(i)
    \/ \E i \in DOMAIN procs : ChunkRejected(i)
    \/ TtlExpires
    \/ Leave

StreamNext == WriterNext \/ RelayNext \/ ReaderNext \/ Start \/ NextCall

StreamSpec == StreamInit /\ [][StreamNext]_streamVars

\* What runs by itself: a decryption ends, the ttl timer ticks until the
\* stream is done or failed, and a consumer's loop asks for the next chunk.
StreamFairness ==
    /\ WF_streamVars(\E i \in DOMAIN procs : ChunkProcessed(i) \/ ChunkRejected(i))
    /\ WF_streamVars(TtlExpires)
    /\ WF_streamVars(NextCall)

FairStreamSpec == StreamSpec /\ StreamFairness

---------------------------------------------------------------------------
(* What the reader owes its consumer.                                      *)

Given == received \o results

\* The chunks handed out or ready to be, in the order of the writer and
\* without a gap or a repetition, whatever order the relays forward them in
\* (processBuffer's chain of prev tags).
InOrder == \A k \in DOMAIN Given : Given[k] = k

\* Iteration ends with done only when the consumer has every part: no error
\* chunk, lost chunk or limit is ever taken for the end of the file.
DoneMeansWhole ==
    told = "done" => /\ received # <<>>
                     /\ chunks[Len(received)].status = "done"
                     /\ chunks[Len(received)].to = parts

\* The reader as a channel that hands out a growing prefix of the file.
Delivery == INSTANCE StreamDelivery
                WITH given <- IF received = <<>> THEN 0
                              ELSE chunks[received[Len(received)]].to,
                     outcome <- told

\* The stream implements that channel: the consumer's part of the file only
\* grows, ends with done only when it is whole, and not at all after its end.
DeliverySpec == Delivery!Spec

\* The chunks cover what was written, each from where the one before it ended,
\* and only the last flush of the whole file is done.
ChunksFollow ==
    /\ \A n \in Ids :
        /\ chunks[n].from = (IF n = 1 THEN 0 ELSE chunks[n - 1].to)
        /\ chunks[n].from <= chunks[n].to
        /\ chunks[n].status = "done" => chunks[n].to = parts
    /\ Flushed <= taken
    /\ wDone => taken = parts

\* The chunk being processed follows those handed out, was seen and has left
\* the buffer, so that no other call finds it there.
OneAfterAnother ==
    /\ buffer \subseteq seen
    /\ \A i \in DOMAIN procs : procs[i] = nextRef + 1 /\ procs[i] \in seen \ buffer
    /\ procs # <<>> \/ sub # "closed" => Len(Given) = nextRef

\* What ends a stream closes its subscription, and after the last chunk nothing
\* is handed out.
EndedIsClosed ==
    /\ rDone \/ rError # "none" \/ told = "left" => sub = "closed"
    /\ rDone => procs = <<>> /\ Given # <<>> /\ chunks[Len(Given)].status = "done"
    /\ told = "done" => rDone /\ results = <<>>
    /\ waiting => told = "no"

\* Only one call of processBuffer is past its await, and no promise waits
\* while results lie in the buffer (the code throws "Bad iterator state").
OneCallAtATime == Len(procs) <= 1 /\ (waiting => results = <<>> /\ rError = "none")

\* A loop over a stream ends: with every part, with an error, or because the
\* consumer left it. No lost chunk leaves the consumer waiting.
IterationEnds == (sub = "open") ~> (told # "no")

\* The reader is consistent: its state stays within its types, its results are
\* in order, and it holds one call at a time.
StreamInv ==
    TypeOK /\ InOrder /\ OneCallAtATime /\ ChunksFollow /\ OneAfterAnother /\ EndedIsClosed
=============================================================================
