-------------------------------- MODULE Download --------------------------------
(***************************************************************************)
(* Serving one range of a stored file (raw_file in routes/files/serve.rs,  *)
(* stream.rs): the parts one after the other, and for each part a few      *)
(* workers that fetch its chunks from Telegram, a shared file location     *)
(* that expires, and a merger that puts the chunks in order, drops what    *)
(* lies before the range and stops at its end.  Between the merger and the *)
(* end of the range an encrypted part is decrypted (crypt.rs).             *)
(*                                                                         *)
(* The bytes of the file and those of a container are numbered from 1; 0   *)
(* is the padding byte.  A step is what happens between two awaits; what   *)
(* Telegram answers to a refetch and the arrival of the answer are two.    *)
(***************************************************************************)
EXTENDS Container, Sequences, FiniteSets, SequencesExt

CONSTANTS
  Workers,    \* WORKERS tasks per part
  Files,      \* bound: the recorded sizes of a file's parts, which parts are
              \* encrypted, the ranges asked for (first and last byte), and what may be
              \* left of a document or of what it holds
  Chunk,      \* CHUNK
  MaxFaults   \* bound: documents that are too short, or hold too little, file references
              \* that expire, calls that fail, workers that die

ASSUME WorkersAssumption == IsFiniteSet(Workers) /\ Workers # {}
ASSUME FilesAssumption ==
  \A f \in Files :
    /\ f.sizes \in Seq(Nat \ {0}) /\ f.sizes # <<>>
    /\ f.sealed \subseteq 1..Len(f.sizes)
    /\ f.ranges \subseteq Nat \X Nat /\ f.left \subseteq Nat
ASSUME ChunkAssumption == Chunk \in Nat \ {0}
ASSUME BoundsAssumption == MaxFaults \in Nat

VARIABLES
  file,          \* the file
  start, len,    \* the range
  docSize,       \* what Telegram says a part's document holds
  content,       \* what it does hold
  result,        \* "none" while streaming, then "ok", "short", "err", "panic" or "gone"
  out,           \* the bytes sent to the client
  part, skip,    \* the part being streamed, and where in it the stream starts
  stream,        \* "closed", or "open" once the part's workers are spawned
  next,          \* the shared counter of chunks taken
  queue,         \* the channel from the workers to the merger
  pending,       \* chunks that arrived early
  nextIdx,       \* the chunk the merger hands out next
  discard,       \* bytes it still has to drop
  held, block,   \* DecryptingStream: bytes not decrypted yet, and the block they
                 \* start with, NoBlock before the header
  worker,        \* each worker: "take", "read", "rpc", "mark", "refetch", "store",
                 \* "send" or "fail" (a chunk, or an error, to send), "done"
  idx,           \* the chunk a worker is at
  gen, loc,      \* the generation and the location a worker has read
  slot,          \* LocSlot
  reference,     \* Telegram: how often the file reference has expired
  faults         \* so far

request   == <<file, start, len, docSize, content>>
place     == <<part, skip, stream>>
crypt     == <<held, block>>
merger    == <<pending, nextIdx, discard, crypt>>
locations == <<gen, loc, slot>>
trouble   == <<reference, faults>>
vars == <<request, result, out, place, next, queue, merger, worker, idx,
          locations, trouble>>

-----------------------------------------------------------------------------
(* Where the bytes are *)

Sizes == file.sizes
Sealed(p) == p \in file.sealed
Parts == 1..Len(Sizes)
Sum(s, n) == LET sum[i \in 0..n] == IF i = 0 THEN 0 ELSE sum[i - 1] + s[i] IN sum[n]
Base(p) == Sum(Sizes, p - 1)
Total == Base(Len(Sizes) + 1)
Least(a, b) == IF a <= b THEN a ELSE b

\* The part that holds byte s of the file.
Locate(s) == 1 + Cardinality({p \in Parts : Base(p + 1) <= s})

\* The size of the document that the upload of part p sent.
Stored(p) == IF Sealed(p) THEN EncryptedSize(Sizes[p]) ELSE Sizes[p]

\* Parts whose document is shorter than the upload sent, or holds less than it says.
Cut    == {p \in Parts : docSize[p] < Stored(p)}
Hollow == {p \in Parts : content[p] < docSize[p]}

\* Where in its document the part is read from.
From == IF Sealed(part) /\ skip > 0 THEN BlockStart(skip) ELSE skip

\* The grid counts from the start of the document.
FirstIdx == From \div Chunk
Chunks == (docSize[part] + Chunk - 1) \div Chunk - FirstIdx

\* fetch_chunk: the bytes of the document in chunk i of the stream, padded where it
\* holds less than it says.
ChunkBytes(i) ==
  LET offset == (FirstIdx + i) * Chunk
  IN  [k \in 1..Least(Chunk, docSize[part] - offset) |->
         IF offset + k <= content[part] THEN offset + k ELSE 0]

NoBlock == -1

\* What cap() still lets through.
Left == len - Len(out)

\* The body is over, and with it the stream and its receiver.
RxDropped == result # "none"

Fault == faults < MaxFaults /\ faults' = faults + 1

TxDropped == \A w \in Workers : worker[w] = "done"

-----------------------------------------------------------------------------
(* parts_stream_from and part_stream: the next part *)

OpenFails ==
  /\ result = "none"
  /\ stream = "closed"
  /\ Fault
  /\ result' = "err"
  /\ UNCHANGED <<request, out, place, next, queue, merger, worker, idx, locations,
                 reference>>

\* "Part content truncated": the document ends before the range starts.
OpenBeyond ==
  /\ result = "none"
  /\ stream = "closed"
  /\ docSize[part] <= From
  /\ result' = "err"
  /\ UNCHANGED <<request, out, place, next, queue, merger, worker, idx, locations,
                 trouble>>

Spawned ==
  CHOOSE W \in SUBSET Workers :
    Cardinality(W) = Least(Cardinality(Workers), Chunks)

Spawn ==
  /\ result = "none"
  /\ stream = "closed"
  /\ docSize[part] > From
  /\ stream' = "open"
  /\ worker' = [w \in Workers |-> IF w \in Spawned THEN "take" ELSE "done"]
  /\ next' = 0
  /\ queue' = <<>>
  /\ pending' = {}
  /\ nextIdx' = 0
  /\ discard' = From - FirstIdx * Chunk
  /\ held' = <<>>
  /\ block' = IF skip > 0 THEN skip \div BlockData ELSE NoBlock
  /\ slot' = [gen |-> 0, loc |-> reference]
  /\ UNCHANGED <<request, out, part, skip, idx, gen, loc, trouble>>

\* "Part is truncated", found when the workers are running already, and of a part
\* in plaintext only.
Open ==
  /\ Spawn
  /\ result' = IF ~Sealed(part) /\ docSize[part] < Sizes[part] THEN "err" ELSE "none"

-----------------------------------------------------------------------------
(* The merger, under cap() *)

Merging == result = "none" /\ stream = "open"

\* What cap() allows is sent; when the range is not at its end the body goes on as
\* after says.
Emit(bytes, after) ==
  /\ out' = out \o SubSeq(bytes, 1, Least(Left, Len(bytes)))
  /\ result' = IF Len(out') < len THEN after ELSE "ok"

\* DecryptingStream pulls what there is, and takes off the header when it has it.
Pull(bytes) ==
  LET all == held \o bytes
  IN  /\ IF block = NoBlock /\ Len(all) >= HeaderSize
         THEN /\ held' = SubSeq(all, HeaderSize + 1, Len(all))
              /\ block' = 0
              /\ result' = IF \E k \in 1..HeaderSize : all[k] = 0 THEN "err" ELSE "none"
         ELSE held' = all /\ UNCHANGED <<block, result>>
      /\ UNCHANGED out

\* Chunk i is the next one: its prefix is dropped.
HandOut(i) ==
  LET bytes   == ChunkBytes(i)
      dropped == Least(discard, Len(bytes))
      chunk   == SubSeq(bytes, dropped + 1, Len(bytes))
  IN  /\ discard' = discard - dropped
      /\ nextIdx' = nextIdx + 1
      /\ \/ Sealed(part) /\ Pull(chunk)
         \/ /\ ~Sealed(part)
            /\ Emit([k \in 1..Len(chunk) |-> IF chunk[k] = 0 THEN 0 ELSE Base(part) + chunk[k]],
                    "none")
            /\ UNCHANGED crypt

HandOutPending ==
  /\ Merging
  /\ nextIdx \in pending
  /\ HandOut(nextIdx)
  /\ pending' = pending \ {nextIdx}
  /\ UNCHANGED <<request, place, next, queue, worker, idx, locations, trouble>>

\* Variant: the order of arrival is taken for the order of the chunks.
RecvInOrder ==
  /\ Merging
  /\ queue # <<>>
  /\ Head(queue).ok
  /\ queue' = Tail(queue)
  /\ HandOut(Head(queue).idx)
  /\ UNCHANGED <<request, place, pending, next, worker, idx, locations, trouble>>

Recv ==
  /\ Merging
  /\ nextIdx \notin pending
  /\ queue # <<>>
  /\ Head(queue).ok
  /\ queue' = Tail(queue)
  /\ \/ /\ Head(queue).idx = nextIdx
        /\ HandOut(nextIdx)
        /\ UNCHANGED pending
     \/ /\ Head(queue).idx # nextIdx
        /\ pending' = pending \union {Head(queue).idx}
        /\ UNCHANGED <<out, nextIdx, discard, crypt, result>>
  /\ UNCHANGED <<request, place, next, worker, idx, locations, trouble>>

\* An error goes to the client as soon as it arrives, whatever chunk it is about.
RecvError ==
  /\ Merging
  /\ nextIdx \notin pending
  /\ queue # <<>>
  /\ ~Head(queue).ok
  /\ queue' = Tail(queue)
  /\ result' = "err"
  /\ UNCHANGED <<request, out, place, next, merger, worker, idx, locations, trouble>>

NextPart ==
  IF part < Len(Sizes)
  THEN part' = part + 1 /\ skip' = 0 /\ stream' = "closed" /\ UNCHANGED result
  ELSE result' = "short" /\ UNCHANGED place

PartDrained == Merging /\ nextIdx \notin pending /\ queue = <<>> /\ TxDropped

\* The first size bytes are a block and its tag: opened if genuine, refused if not.
\* What lies before the range is dropped from the first one.
Decrypt(size, after) ==
  LET first == HeaderSize + block * BlockSize
      drop  == IF block = skip \div BlockData THEN Intra(skip) ELSE 0
      genuine ==
        /\ size = Least(BlockSize, Stored(part) - first)
        /\ \A k \in 1..size : held[k] = first + k
  IN  IF genuine
      THEN /\ Emit([k \in 1..(size - BlockTag - drop) |->
                     Base(part) + block * BlockData + drop + k], after)
           /\ held' = SubSeq(held, size + 1, Len(held))
           /\ block' = block + 1
      ELSE result' = "err" /\ UNCHANGED <<out, crypt>>

\* try_decrypt_one, when the merger has nothing ready.
DecryptFull ==
  /\ Merging /\ Sealed(part)
  /\ nextIdx \notin pending /\ queue = <<>> /\ ~TxDropped
  /\ block # NoBlock /\ Len(held) >= BlockSize
  /\ Decrypt(BlockSize, "none")
  /\ UNCHANGED <<request, place, next, queue, pending, nextIdx, discard, worker, idx,
                 locations, trouble>>

\* Variant: a closed channel is the end of the part.
PartEndsAnyway ==
  /\ PartDrained
  /\ NextPart
  /\ UNCHANGED <<request, out, next, queue, merger, worker, idx, locations, trouble>>

\* The channel is closed: the part is over, or a worker died.
PartEnds ==
  /\ PartDrained
  /\ ~Sealed(part) \/ nextIdx < Chunks \/ Len(held) < BlockTag
  /\ IF nextIdx >= Chunks
     THEN NextPart
     ELSE result' = "err" /\ UNCHANGED place
  /\ UNCHANGED <<request, out, next, queue, merger, worker, idx, locations, trouble>>

\* The container is over.  One more block is decrypted, the last one may be short;
\* then DecryptingStream polls the merger again, which panics because it has ended.
ContainerEnds ==
  /\ PartDrained /\ Sealed(part) /\ nextIdx >= Chunks
  /\ Len(held) >= BlockTag
  /\ IF block = NoBlock THEN result' = "panic" /\ UNCHANGED <<out, crypt>>
     ELSE Decrypt(Least(BlockSize, Len(held)), "panic")
  /\ UNCHANGED <<request, place, next, queue, pending, nextIdx, discard, worker, idx,
                 locations, trouble>>

\* The client goes away.
ReaderGone ==
  /\ result = "none"
  /\ result' = "gone"
  /\ UNCHANGED <<request, out, place, next, queue, merger, worker, idx, locations,
                 trouble>>

-----------------------------------------------------------------------------
(* The workers *)

Go(w, to) == worker' = [worker EXCEPT ![w] = to]

\* What a worker knew of the location goes out of scope.
Forget(w) ==
  /\ gen' = [gen EXCEPT ![w] = 0]
  /\ loc' = [loc EXCEPT ![w] = 0]

\* Variant: the counter is read and not moved.
TakeSame(w) ==
  /\ worker[w] = "take"
  /\ IF next < Chunks
     THEN Go(w, "read") /\ idx' = [idx EXCEPT ![w] = next]
     ELSE Go(w, "done") /\ UNCHANGED idx
  /\ UNCHANGED <<request, result, out, place, next, queue, merger, locations, trouble>>

Take(w) ==
  /\ worker[w] = "take"
  /\ next' = next + 1
  /\ IF next < Chunks
     THEN Go(w, "read") /\ idx' = [idx EXCEPT ![w] = next]
     ELSE Go(w, "done") /\ UNCHANGED idx
  /\ UNCHANGED <<request, result, out, place, queue, merger, locations, trouble>>

Read(w) ==
  /\ worker[w] = "read"
  /\ gen' = [gen EXCEPT ![w] = slot.gen]
  /\ loc' = [loc EXCEPT ![w] = slot.loc]
  /\ Go(w, "rpc")
  /\ UNCHANGED <<request, result, out, place, next, queue, merger, idx, slot, trouble>>

\* upload.getFile.
Fetched(w) ==
  /\ worker[w] = "rpc"
  /\ \/ loc[w] = reference /\ Go(w, "send") /\ Forget(w)
     \/ loc[w] # reference /\ Go(w, "mark") /\ UNCHANGED <<gen, loc>>
  /\ UNCHANGED <<request, result, out, place, next, queue, merger, idx, slot, trouble>>

FetchFails(w) ==
  /\ worker[w] = "rpc"
  /\ Fault
  /\ Go(w, "fail")
  /\ Forget(w)
  /\ UNCHANGED <<request, result, out, place, next, queue, merger, idx, slot,
                 reference>>

\* Variant: the test on the generation is the wrong way round.
MarkInverted(w) ==
  /\ worker[w] = "mark"
  /\ Go(w, IF slot.gen = gen[w] THEN "read" ELSE "refetch")
  /\ UNCHANGED <<request, result, out, place, next, queue, merger, idx, locations,
                 trouble>>

\* mark_stale: only who saw the current generation refetches.
Mark(w) ==
  /\ worker[w] = "mark"
  /\ Go(w, IF slot.gen = gen[w] THEN "refetch" ELSE "read")
  /\ UNCHANGED <<request, result, out, place, next, queue, merger, idx, locations,
                 trouble>>

Refetched(w) ==
  /\ worker[w] = "refetch"
  /\ loc' = [loc EXCEPT ![w] = reference]
  /\ Go(w, "store")
  /\ UNCHANGED <<request, result, out, place, next, queue, merger, idx, gen, slot,
                 trouble>>

\* Only logged; the worker goes round with the location it has.
RefetchFails(w) ==
  /\ worker[w] = "refetch"
  /\ Fault
  /\ Go(w, "read")
  /\ UNCHANGED <<request, result, out, place, next, queue, merger, idx, locations,
                 reference>>

Store(w) ==
  /\ worker[w] = "store"
  /\ slot' = [gen |-> slot.gen + 1, loc |-> loc[w]]
  /\ Go(w, "read")
  /\ Forget(w)
  /\ UNCHANGED <<request, result, out, place, next, queue, merger, idx, trouble>>

\* tx.send waits for room.
Send(w) ==
  /\ worker[w] \in {"send", "fail"}
  /\ ~RxDropped
  /\ Len(queue) < 2 * Cardinality(Workers)
  /\ queue' = Append(queue, [idx |-> idx[w], ok |-> worker[w] = "send"])
  /\ Go(w, "take")
  /\ idx' = [idx EXCEPT ![w] = 0]
  /\ UNCHANGED <<request, result, out, place, next, merger, locations, trouble>>

\* Variant: a refused send is tried again.
SendRetried(w) ==
  /\ worker[w] \in {"send", "fail"}
  /\ RxDropped
  /\ UNCHANGED vars

SendRefused(w) ==
  /\ worker[w] \in {"send", "fail"}
  /\ RxDropped
  /\ Go(w, "done")
  /\ idx' = [idx EXCEPT ![w] = 0]
  /\ UNCHANGED <<request, result, out, place, next, queue, merger, locations, trouble>>

Dies(w) ==
  /\ worker[w] # "done"
  /\ Fault
  /\ Go(w, "done")
  /\ idx' = [idx EXCEPT ![w] = 0]
  /\ Forget(w)
  /\ UNCHANGED <<request, result, out, place, next, queue, merger, slot, reference>>

\* Telegram retires the file reference of the part.
Expire ==
  /\ result = "none"
  /\ Fault
  /\ reference' = reference + 1
  /\ UNCHANGED <<request, result, out, place, next, queue, merger, worker, idx,
                 locations>>

-----------------------------------------------------------------------------
\* raw_file goes on for a range that starts inside the file, and ends it there; with no
\* Range header it is the one from 0 that does not end.
Asked(first, last) ==
  /\ first <= last /\ first < Total
  /\ start = first /\ len = Least(last, Total - 1) - first + 1

Init ==
  /\ file \in Files
  /\ \E r \in file.ranges : Asked(r[1], r[2])
  /\ docSize \in [Parts -> file.left \union {Stored(p) : p \in Parts}]
  /\ content \in [Parts -> file.left \union {Stored(p) : p \in Parts}]
  /\ \A p \in Parts : content[p] <= docSize[p] /\ docSize[p] <= Stored(p)
  /\ faults = Cardinality(Cut) + Cardinality(Hollow) /\ faults <= MaxFaults
  /\ result = "none"
  /\ out = <<>>
  /\ part = Locate(start)
  /\ skip = start - Base(Locate(start))
  /\ stream = "closed"
  /\ next = 0
  /\ queue = <<>>
  /\ pending = {}
  /\ nextIdx = 0
  /\ discard = 0
  /\ held = <<>>
  /\ block = NoBlock
  /\ worker = [w \in Workers |-> "done"]
  /\ idx = [w \in Workers |-> 0]
  /\ gen = [w \in Workers |-> 0]
  /\ loc = [w \in Workers |-> 0]
  /\ slot = [gen |-> 0, loc |-> 0]
  /\ reference = 0

Serve ==
  \/ Open \/ OpenBeyond \/ OpenFails
  \/ HandOutPending \/ Recv \/ RecvError \/ DecryptFull \/ PartEnds \/ ContainerEnds

Work(w) ==
  \/ Take(w) \/ Read(w) \/ Fetched(w) \/ FetchFails(w) \/ Mark(w) \/ Refetched(w)
  \/ RefetchFails(w) \/ Store(w) \/ Send(w) \/ SendRefused(w)

Next ==
  \/ Serve \/ ReaderGone \/ Expire
  \/ \E w \in Workers : Work(w) \/ Dies(w)

\* The client reads on or goes away; every call is answered.
Fairness == WF_vars(Serve) /\ \A w \in Workers : WF_vars(Work(w))

Spec == Init /\ [][Next]_vars /\ Fairness

-----------------------------------------------------------------------------
(* Correctness *)

\* The whole blocks that a container of so many bytes holds, and what follows them.
Blocks(bytes) == IF bytes < HeaderSize THEN 0 ELSE (bytes - HeaderSize) \div BlockSize
Rest(bytes)   == IF bytes < HeaderSize THEN bytes ELSE (bytes - HeaderSize) % BlockSize

\* Part p is encrypted, its document lost its tail, and what is left ends with a
\* block, or inside a tag, or before the header could be told from one: nothing
\* tells the decryptor (crypt.rs:554, 678).
Clipped(p) ==
  Sealed(p) /\ p \in Cut /\ start < Base(p + 1) /\ Rest(docSize[p]) < BlockTag

\* The bytes of the file before the first one that is missing without notice.
Sound(byte) ==
  \A p \in Parts : Clipped(p) =>
    byte <= Base(p) + Blocks(docSize[p]) * BlockData

Kept(byte) ==
  \E p \in Parts : Base(p) < byte /\ byte <= Base(p + 1)
                  /\ (Sealed(p) \/ byte <= Base(p) + content[p])

\* The client gets the bytes of its range, each at its place, whatever the order in
\* which the workers finished and wherever the blocks were cut; only what Telegram
\* does not hold is padded ("so the byte positions the HTTP range promised still
\* line up").  After the tail of a container that was lost at the end of a block
\* the bytes are those of a later place.
RangeExact ==
  /\ Len(out) <= len
  /\ \A k \in 1..Len(out) : Sound(start + k) =>
       out[k] = IF Kept(start + k) THEN start + k ELSE 0

\* A body ends before its range does only for a reason, and never quietly: a truncated
\* part or a dead worker is reported, unless an encrypted part was cut where no one
\* notices, and no error is made up.
NeverShort ==
  /\ result = "short" => \E p \in Parts : Clipped(p)
  /\ result = "err" => faults > 0

\* "Serves a multi-part file as one contiguous byte stream ... so the client sees a
\* seamless download" (stream.rs:366-369): when all documents are whole, and no call
\* fails, a body ends with its range or with its client.
Seamless == faults = 0 => result \in {"none", "ok", "gone"}

\* A chunk of the part is with one worker, or on its way to the merger, or with it:
\* nothing is fetched twice, and nothing that was handed out comes again.
Fetching(w) == worker[w] \notin {"take", "done"}
OneHolder ==
  Merging =>
    /\ \A v, w \in Workers : Fetching(v) /\ Fetching(w) /\ idx[v] = idx[w] => v = w
    /\ \A j, k \in 1..Len(queue) : queue[j].idx = queue[k].idx => j = k
    /\ \A w \in Workers : Fetching(w) =>
         idx[w] >= nextIdx /\ idx[w] \notin pending \union {queue[k].idx : k \in 1..Len(queue)}
    /\ \A k \in 1..Len(queue) : queue[k].idx >= nextIdx /\ queue[k].idx \notin pending

\* The response ends, although file references expire on the way and every worker
\* may find out about it at the same time.
Ends == <>(result # "none")

\* When it has ended, however it did, no worker is left.
WorkersEnd == result # "none" ~> TxDropped

=============================================================================
