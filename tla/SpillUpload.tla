----------------------------- MODULE SpillUpload -----------------------------
(***************************************************************************)
(* POST /api/files (spill_upload in routes/files/upload.rs).  The handler  *)
(* routes the bytes of the body to one buffer file per part.  For each     *)
(* part a pumper tails the file and sends what it reads through a bounded  *)
(* channel to an uploader, which posts the part to Telegram once it has    *)
(* all its bytes.  At the end of the body the handler collects the         *)
(* uploaders and inserts the row.                                          *)
(*                                                                         *)
(* Bytes are the positions 1.. of the body.  A step is what happens        *)
(* between two awaits; in particular a pumper that has read an end of file *)
(* looks at feed_done in a later step.                                     *)
(***************************************************************************)
EXTENDS PartPlan, Container, Sequences, SequencesExt

CONSTANTS
    Sizes,      \* bound: what X-File-Size may say
    Bodies,     \* bound: how long the body may be
    Splits,     \* bound: the split settings
    Limit,      \* max_file_size
    Block,      \* PART_SIZE of upload_stream
    MaxChunk,   \* bound: bytes in a chunk of the body
    QueueCap,   \* capacity of a part's channel (8)
    MaxFaults   \* bound: errors and hang-ups

ASSUME SpillAssumption ==
    /\ Sizes \subseteq 0..Limit /\ Bodies \subseteq Nat /\ Splits \subseteq Nat
    /\ {Limit, MaxFaults} \subseteq Nat /\ {Block, MaxChunk, QueueCap} \subseteq Nat \ {0}

VARIABLES
    declared, size,   \* the plan: declared bytes and part size
    sealed,           \* an encryption key is configured
    body,             \* the bytes the client means to send
    pc,               \* the handler
    fed, at,          \* bytes received, bytes routed
    complete,         \* feed_result is Ok
    meta,             \* the watch channel: "none", "named", "empty", "closed"
    feedDone,
    joined,           \* uploaders collected so far
    answer,           \* what the client was told
    file,             \* the buffer of each part
    buffers,          \* the buffers are on disk
    pump, got, hand,  \* the pumpers: state, bytes read, chunk to send
    chan,             \* the channel of each part
    up, doc,          \* the uploaders: state, bytes received
    posted,           \* the parts that have a message
    row,              \* the file was recorded
    faults,
    stale             \* history: parts ended on an end of file that was none any more

plan    == <<declared, size, sealed, body>>
feed    == <<fed, at, complete, meta, feedDone>>
handler == <<pc, joined, answer, row>>
pumps   == <<pump, got, hand>>
ups     == <<up, doc, posted>>
vars    == <<plan, handler, feed, file, buffers, pumps, chan, ups, faults, stale>>

N     == NParts(declared, size)
Parts == 0..(N - 1)
Want(i) == Expected(declared, size, i)

(* What upload_stream is told to send, and sends, for n bytes of the part. *)
SentSize(n) == IF sealed THEN EncryptedSize(n) ELSE n

ReadError == <<>>                      \* an io::Error in a channel

UpEnded(i) == up[i] \in {"ok", "err", "aborted"}     \* and dropped its receiver

Fault == faults < MaxFaults /\ faults' = faults + 1

-----------------------------------------------------------------------------
(* The feed. *)

FieldFound ==
    /\ pc = "field"
    /\ meta' \in {"named", "empty"}
    /\ pc' = "feed"
    /\ UNCHANGED <<plan, fed, at, complete, feedDone, joined, answer, row, file, buffers,
                   pumps, chan, ups, faults, stale>>

FieldMissing ==
    /\ pc = "field"
    /\ pc' = "end" /\ complete' = FALSE
    /\ UNCHANGED <<plan, fed, at, meta, feedDone, joined, answer, row, file, buffers,
                   pumps, chan, ups, faults, stale>>

Chunk ==
    /\ pc = "feed"
    /\ \E n \in 1..MaxChunk :
          /\ fed + n <= body
          /\ fed' = fed + n
          /\ IF fed' > Limit THEN pc' = "end" /\ complete' = FALSE
             ELSE pc' = "route" /\ UNCHANGED complete
    /\ UNCHANGED <<plan, at, meta, feedDone, joined, answer, row, file, buffers,
                   pumps, chan, ups, faults, stale>>

(* The router: how many of the chunk's bytes the owner of the next one takes. *)
Owner == OwnerOf(declared, size, at)
TakeAll == fed - at               \* mutant: a chunk goes where its first byte goes

Take  == LET room == PartEnd(declared, size, Owner) - at
         IN  IF fed - at < room THEN fed - at ELSE room

(* A body longer than declared takes nothing at its first byte too many: the *)
(* loop goes round for ever and never awaits.                                *)
Spins == pc = "route" /\ Take = 0

Route ==
    /\ pc = "route" /\ Take > 0
    /\ file' = [file EXCEPT ![Owner] = @ \o [k \in 1..Take |-> at + k]]
    /\ at' = at + Take
    /\ pc' = IF at' = fed THEN "feed" ELSE "route"
    /\ UNCHANGED <<plan, fed, complete, meta, feedDone, joined, answer, row, buffers,
                   pumps, chan, ups, faults, stale>>

BodyEnds ==
    /\ pc = "feed" /\ fed = body
    /\ pc' = "end"
    /\ UNCHANGED <<plan, feed, joined, answer, row, file, buffers, pumps, chan, ups, faults, stale>>

(* The body breaks off, or a buffer cannot be written. *)
FeedFails ==
    /\ pc = "feed" \/ (pc = "route" /\ Take > 0)
    /\ Fault
    /\ pc' = "end" /\ complete' = FALSE
    /\ UNCHANGED <<plan, fed, at, meta, feedDone, joined, answer, row, file, buffers,
                   pumps, chan, ups, stale>>

EndUntold ==                      \* mutant: the pumpers are told of a good end only
    /\ pc = "end"
    /\ feedDone' = complete
    /\ pc' = IF complete /\ fed = declared /\ meta = "named" THEN "collect" ELSE "abort"
    /\ UNCHANGED <<plan, fed, at, complete, meta, joined, answer, row, file, buffers,
                   pumps, chan, ups, faults, stale>>

EndAnyLength ==                   \* mutant: the length of the body is not compared
    /\ pc = "end"
    /\ feedDone' = TRUE
    /\ pc' = IF complete /\ meta = "named" THEN "collect" ELSE "abort"
    /\ UNCHANGED <<plan, fed, at, complete, meta, joined, answer, row, file, buffers,
                   pumps, chan, ups, faults, stale>>

End ==
    /\ pc = "end"
    /\ feedDone' = TRUE
    /\ pc' = IF complete /\ fed = declared /\ meta = "named" THEN "collect" ELSE "abort"
    /\ UNCHANGED <<plan, fed, at, complete, meta, joined, answer, row, file, buffers,
                   pumps, chan, ups, faults, stale>>

-----------------------------------------------------------------------------
(* collect_uploaders, the way out, and persist_row. *)

(* An aborted task stops at its next await; a message it had sent may land. *)
AbortAll(S) ==
    LET running == {i \in S : ~UpEnded(i)}
    IN  /\ up' = [i \in Parts |-> IF i \in running THEN "aborted" ELSE up[i]]
        /\ \E landed \in SUBSET {i \in running : up[i] = "post"} : posted' = posted \cup landed

AbortFeed ==
    /\ pc = "abort"
    /\ AbortAll(Parts)
    /\ pc' = "join_err"
    /\ UNCHANGED <<plan, feed, joined, answer, row, file, buffers, pumps, chan, doc, faults,
                   stale>>

(* The pumpers first, they hold the buffers open; then the buffers go. *)
Join ==
    /\ pc \in {"join_err", "join_ok"}
    /\ \A i \in Parts : pump[i] = "done"
    /\ buffers' = FALSE
    /\ IF pc = "join_ok" THEN pc' = "insert" /\ UNCHANGED answer
       ELSE pc' = "over" /\ answer' = "err"
    /\ UNCHANGED <<plan, feed, joined, row, file, pumps, chan, ups, faults, stale>>

CollectOk ==
    /\ pc = "collect" /\ up[joined] = "ok"
    /\ joined' = joined + 1
    /\ pc' = IF joined' = N THEN "join_ok" ELSE "collect"
    /\ UNCHANGED <<plan, feed, answer, row, file, buffers, pumps, chan, ups, faults, stale>>

(* The parts collected so far are rolled back as far as Telegram lets it. *)
CollectErr ==
    /\ pc = "collect" /\ up[joined] = "err"
    /\ up' = [i \in Parts |-> IF UpEnded(i) THEN up[i] ELSE "aborted"]
    /\ \E deleted \in SUBSET (0..(joined - 1)),
          landed \in SUBSET {i \in Parts : up[i] = "post"} :
             posted' = (posted \ deleted) \cup landed
    /\ pc' = "over" /\ answer' = "err"
    /\ UNCHANGED <<plan, feed, joined, row, file, buffers, pumps, chan, doc, faults, stale>>

Insert ==
    /\ pc = "insert"
    /\ pc' = "over"
    /\ \/ row' = TRUE /\ answer' = "ok" /\ UNCHANGED <<posted, faults>>
       \/ /\ Fault
          /\ answer' = "err" /\ UNCHANGED row
          /\ \E left \in SUBSET Parts : posted' = posted \cap left
    /\ UNCHANGED <<plan, feed, joined, file, buffers, pumps, chan, up, doc, stale>>

(* The client hangs up: the handler is dropped wherever it awaits, its tasks *)
(* are detached.                                                             *)
HangUp ==
    /\ pc \notin {"over", "gone"} /\ ~Spins
    /\ Fault
    /\ pc' = "gone"
    /\ meta' = IF meta = "none" THEN "closed" ELSE meta
    /\ UNCHANGED <<plan, fed, at, complete, feedDone, joined, answer, row, file, buffers,
                   pumps, chan, ups, stale>>

-----------------------------------------------------------------------------
(* The pumper of part i. *)

Pump(i, p) == pump' = [pump EXCEPT ![i] = p]

(* read(): all there is, or the end of the file. *)
ReadFile(i) ==
    /\ pump[i] = "tail"
    /\ LET bytes == SubSeq(file[i], got[i] + 1, Len(file[i]))
       IN  IF bytes = <<>> THEN Pump(i, "eof") /\ UNCHANGED <<got, hand>>
           ELSE /\ Pump(i, "send")
                /\ got' = [got EXCEPT ![i] = Len(file[i])]
                /\ hand' = [hand EXCEPT ![i] = bytes]
    /\ UNCHANGED <<plan, handler, feed, file, buffers, chan, ups, faults, stale>>

(* At an end of file the pumper asks whether the feed is over. *)
AtEof(i) ==
    /\ pump[i] = "eof"
    /\ Pump(i, IF feedDone THEN "done" ELSE "tail")
    /\ stale' = IF feedDone /\ Len(file[i]) > got[i] THEN stale \cup {i} ELSE stale
    /\ UNCHANGED <<plan, handler, feed, file, buffers, got, hand, chan, ups, faults>>

SendOrWait(i) ==                  \* mutant: the pumper waits for an uploader that is gone
    /\ pump[i] = "send" /\ ~UpEnded(i) /\ Len(chan[i]) < QueueCap
    /\ chan' = [chan EXCEPT ![i] = Append(@, hand[i])]
    /\ Pump(i, IF hand[i] = ReadError \/ got[i] >= Want(i) THEN "done" ELSE "tail")
    /\ hand' = [hand EXCEPT ![i] = <<>>]
    /\ UNCHANGED <<plan, handler, feed, file, buffers, got, ups, faults, stale>>

(* send() waits for room and fails when the uploader has dropped its end. *)
Send(i) ==
    /\ pump[i] = "send"
    /\ \/ /\ UpEnded(i) /\ Pump(i, "done") /\ UNCHANGED chan
       \/ /\ ~UpEnded(i) /\ Len(chan[i]) < QueueCap
          /\ chan' = [chan EXCEPT ![i] = Append(@, hand[i])]
          /\ Pump(i, IF hand[i] = ReadError \/ got[i] >= Want(i) THEN "done" ELSE "tail")
    /\ hand' = [hand EXCEPT ![i] = <<>>]
    /\ UNCHANGED <<plan, handler, feed, file, buffers, got, ups, faults, stale>>

ReadFails(i) ==
    /\ pump[i] = "tail"
    /\ Fault
    /\ Pump(i, "send") /\ hand' = [hand EXCEPT ![i] = ReadError]
    /\ UNCHANGED <<plan, handler, feed, file, buffers, got, chan, ups, stale>>

-----------------------------------------------------------------------------
(* The uploader of part i. *)

Up(i, u) == up' = [up EXCEPT ![i] = u]

(* upload_stream refuses an empty document, which a sealed part never is, and one of *)
(* more than 4000 blocks, which a sealed part at the cap is.                         *)
Sendable(i) == SentSize(Want(i)) \in 1..DocCap

LearnName(i) ==
    /\ up[i] = "name" /\ meta # "none"
    /\ Up(i, IF meta = "named" /\ Sendable(i) THEN "read" ELSE "err")
    /\ UNCHANGED <<plan, handler, feed, file, buffers, pumps, chan, doc, posted, faults, stale>>

(* upload_stream reads whole blocks; the last one only must not be empty. *)
LastBlock(i) == ((SentSize(Want(i)) + Block - 1) \div Block - 1) * Block

Receive(i) ==
    /\ up[i] = "read" /\ chan[i] # <<>>
    /\ chan' = [chan EXCEPT ![i] = Tail(@)]
    /\ IF Head(chan[i]) = ReadError
       THEN Up(i, "err") /\ UNCHANGED doc
       ELSE doc' = [doc EXCEPT ![i] = @ \o Head(chan[i])] /\ UNCHANGED up
    /\ UNCHANGED <<plan, handler, feed, file, buffers, pumps, posted, faults, stale>>

ReceiveEnd(i) ==
    /\ up[i] = "read" /\ chan[i] = <<>> /\ pump[i] = "done"
    /\ Up(i, IF SentSize(Len(doc[i])) > LastBlock(i) THEN "post" ELSE "err")
    /\ UNCHANGED <<plan, handler, feed, file, buffers, pumps, chan, doc, posted, faults, stale>>

(* No session can serve the chat, or a worker's call fails. *)
UploadFails(i) ==
    /\ up[i] = "read"
    /\ Fault
    /\ Up(i, "err")
    /\ UNCHANGED <<plan, handler, feed, file, buffers, pumps, chan, doc, posted, stale>>

(* Every worker of a large document has failed and the channel to them is full: the   *)
(* producer waits for room for ever, see UploadPipeline.                              *)
UploadHangs(i) ==
    /\ up[i] = "read"
    /\ Fault
    /\ Up(i, "stuck")
    /\ UNCHANGED <<plan, handler, feed, file, buffers, pumps, chan, doc, posted, stale>>

(* The document is sent; an error may come back although it has landed. *)
Post(i) ==
    /\ up[i] = "post"
    /\ \/ Up(i, "ok") /\ posted' = posted \cup {i} /\ UNCHANGED faults
       \/ Up(i, "err") /\ Fault /\ posted' \in {posted, posted \cup {i}}
    /\ UNCHANGED <<plan, handler, feed, file, buffers, pumps, chan, doc, stale>>

-----------------------------------------------------------------------------
Init ==
    /\ declared \in Sizes /\ body \in Bodies /\ sealed \in BOOLEAN
    /\ size \in {PartSize(declared, split) : split \in Splits} /\ Fits(declared, size)
    /\ pc = "field" /\ joined = 0 /\ answer = "none" /\ row = FALSE
    /\ fed = 0 /\ at = 0 /\ complete = TRUE /\ meta = "none" /\ feedDone = FALSE
    /\ file = [i \in Parts |-> <<>>] /\ buffers = TRUE
    /\ pump = [i \in Parts |-> IF Want(i) = 0 THEN "done" ELSE "tail"]
    /\ got = [i \in Parts |-> 0] /\ hand = [i \in Parts |-> <<>>]
    /\ chan = [i \in Parts |-> <<>>]
    /\ up = [i \in Parts |-> "name"] /\ doc = [i \in Parts |-> <<>>] /\ posted = {}
    /\ faults = 0 /\ stale = {}

(* What the handler does when the client sends something, and what it does by itself. *)
BodyStep == FieldFound \/ FieldMissing \/ Chunk \/ BodyEnds \/ FeedFails
Handle   == Route \/ End \/ AbortFeed \/ Join \/ CollectOk \/ CollectErr \/ Insert

PumpPart(i)   == ReadFile(i) \/ AtEof(i) \/ Send(i) \/ ReadFails(i)
UploadPart(i) == LearnName(i) \/ Receive(i) \/ ReceiveEnd(i) \/ UploadFails(i)
                   \/ UploadHangs(i) \/ Post(i)

Next == BodyStep \/ Handle \/ HangUp \/ \E i \in Parts : PumpPart(i) \/ UploadPart(i)

(* The runtime runs what can run and Telegram answers.  Nothing is assumed of the *)
(* client: it may stop sending, and neither go on nor go away.                    *)
Fairness ==
    /\ WF_vars(Handle)
    /\ \A i \in 0..(MaxParts - 1) :
          /\ WF_vars(i \in Parts /\ PumpPart(i))
          /\ WF_vars(i \in Parts /\ UploadPart(i))

Spec == Init /\ [][Next]_vars /\ Fairness

-----------------------------------------------------------------------------
(* Correctness *)

BytesOf(i) == [k \in 1..Want(i) |-> PartStart(size, i) + k]

(* A file is recorded only if the body was as long as declared, and each of  *)
(* its parts has a message that holds the part's bytes, however pumpers and  *)
(* uploaders overtook each other and the router cut the chunks.  One hole:   *)
(* "the writers' last buffers must reach disk before any pumper declares the *)
(* part truncated" (upload.rs:427-428), but a pumper that read an end of     *)
(* file before the last bytes were written, and looks at feed_done after     *)
(* them, drops these bytes, and the part may be posted without them.         *)
StoredUnlessStale ==
    row => /\ body = declared
           /\ \A i \in Parts : /\ i \in posted /\ IsPrefix(doc[i], BytesOf(i))
                                /\ (doc[i] = BytesOf(i) \/ i \in stale)

Stalled == pc \in {"field", "feed"}       \* the handler waits for the client
Hung    == pc = "collect" /\ up[joined] = "stuck"

(* A client that does not stall gets an answer, whatever broke and wherever  *)
(* the parts are: unless its body is longer than declared, the router never  *)
(* ends then, or the part it collects waits in upload_stream for ever        *)
(* (transfer.rs:248).                                                        *)
Answered == <>[]Stalled \/ <>(pc \in {"over", "gone"} \/ Spins \/ Hung)

PartEnded(i) == pump[i] = "done" /\ UpEnded(i)

(* Once the feed is over every task ends, also the pumper that waits for     *)
(* room while its uploader is aborted, and also if the client hangs up from  *)
(* then on.  (Before, a hang-up leaves pumpers that tail for ever.)  Only an *)
(* uploader that waits in upload_stream for ever stays, and then perhaps the *)
(* pumper that waits for room behind it.                                     *)
TasksEnd == feedDone ~> \A i \in Parts : PartEnded(i) \/ up[i] = "stuck"

(* An upload keeps the promise of UploadContract: it is recorded at one      *)
(* moment, with the client's bytes but for a part that a pumper closed early *)
(* on an end of file, and no rollback touches what is recorded.              *)
Document(i) == [part |-> i, data |-> doc[i]]
Documents   == [i \in 1..N |-> Document(i - 1)]

Contract == INSTANCE UploadContract
              WITH size <- declared, held <- {Document(i) : i \in posted},
                   rows <- IF row THEN {Documents} ELSE {}, torn <- stale # {}

Implements == Contract!Spec

=============================================================================
