----------------------------- MODULE DownloadProofs -----------------------------
(***************************************************************************)
(* The arithmetic of encrypted parts, for every header, tag and block size *)
(* and every length; where the chunks of a part are while its workers      *)
(* fetch them; and what of the file the client has been sent, for any      *)
(* number of workers, files, ranges and faults.                            *)
(***************************************************************************)
EXTENDS Download, FiniteSetTheorems, SequenceTheorems, WellFoundedInduction, TLAPS

\* Division with remainder.
LEMMA Division ==
  ASSUME NEW a \in Nat, NEW b \in Nat \ {0}
  PROVE  /\ a \div b \in Nat /\ a % b \in 0..(b - 1)
         /\ a = b * (a \div b) + (a % b)
BY Z3

\* Quotient and remainder are the only ones.
LEMMA Unique ==
  ASSUME NEW q \in Nat, NEW b \in Nat \ {0}, NEW r \in 0..(b - 1)
  PROVE  (q * b + r) \div b = q /\ (q * b + r) % b = r
<1> DEFINE a == q * b + r
           d == a \div b
           s == a % b
<1>1. a \in Nat
  BY Z3
<1>2. d \in Nat /\ s \in 0..(b - 1) /\ a = b * d + s
  BY <1>1, Division
<1> HIDE DEF d, s
<1>3. ~(d < q)
  <2> SUFFICES ASSUME d <= q - 1 PROVE FALSE
    BY <1>2
  <2>1. b * d <= b * (q - 1)
    BY <1>2, Z3
  <2>2. b * (q - 1) = q * b - b
    BY Z3
  <2>3. b * d \in Int /\ q * b \in Int
    BY <1>2, Z3
  <2> QED BY <1>2, <2>1, <2>2, <2>3
<1>4. ~(q < d)
  <2> SUFFICES ASSUME q <= d - 1 PROVE FALSE
    BY <1>2
  <2>1. b * q <= b * (d - 1)
    BY <1>2, Z3
  <2>2. b * (d - 1) = b * d - b /\ b * q = q * b
    BY <1>2, Z3
  <2>3. b * d \in Int /\ q * b \in Int
    BY <1>2, Z3
  <2> QED BY <1>2, <2>1, <2>2, <2>3
<1>5. d = q
  BY <1>2, <1>3, <1>4
<1>6. b * d = q * b /\ q * b \in Int
  BY <1>5, Z3
<1>7. s = r
  BY <1>2, <1>6
<1> QED BY <1>5, <1>7 DEF d, s

LEMMA SizesPositive ==
  /\ HeaderSize \in Nat \ {0} /\ BlockTag \in Nat \ {0} /\ BlockData \in Nat \ {0}
  /\ BlockSize \in Nat \ {0} /\ BlockSize = BlockTag + BlockData
BY ContainerAssumption DEF BlockSize

-----------------------------------------------------------------------------
\* decrypted_size is the inverse of encrypted_size, whatever the length: the size of a
\* container tells the size of its plaintext, and no container is taken for a broken one.
\* (The test sizes_correspond tries six lengths.)
THEOREM SizesCorrespond ==
  ASSUME NEW plain \in Nat
  PROVE  DecryptedSize(EncryptedSize(plain)) = plain
<1> DEFINE blocks  == plain \div BlockData
           residue == plain % BlockData
           tail    == IF residue = 0 THEN 0 ELSE BlockTag + residue
           ct      == EncryptedSize(plain)
<1>1. blocks \in Nat /\ residue \in 0..(BlockData - 1) /\ plain = BlockData * blocks + residue
  BY SizesPositive, Division
<1>2. ct = HeaderSize + blocks * BlockSize + tail
  BY DEF EncryptedSize
<1> HIDE DEF blocks, residue, ct
<1>3. tail \in 0..(BlockSize - 1)
  BY <1>1, SizesPositive
<1>4. blocks * BlockSize \in Nat
  BY <1>1, SizesPositive, Z3
<1>5. ct - HeaderSize = blocks * BlockSize + tail /\ blocks * BlockSize + tail \in Nat
  BY <1>2, <1>3, <1>4, SizesPositive
<1> HIDE DEF tail
<1>6. (ct - HeaderSize) \div BlockSize = blocks /\ (ct - HeaderSize) % BlockSize = tail
  <2>1. /\ (blocks * BlockSize + tail) \div BlockSize = blocks
        /\ (blocks * BlockSize + tail) % BlockSize = tail
    BY <1>1, <1>3, SizesPositive, Unique
  <2> QED BY <1>5, <2>1
<1>7. ~(ct - HeaderSize < 0 \/ tail \in 1..(BlockTag - 1))
  BY <1>1, <1>5, SizesPositive DEF tail
<1>8. DecryptedSize(ct) = blocks * BlockData + (IF tail = 0 THEN 0 ELSE tail - BlockTag)
  BY <1>6, <1>7 DEF DecryptedSize
<1>9. (IF tail = 0 THEN 0 ELSE tail - BlockTag) = residue
  BY <1>1, SizesPositive DEF tail
<1>10. blocks * BlockData = BlockData * blocks /\ BlockData * blocks \in Int
  BY <1>1, SizesPositive, Z3
<1> QED BY <1>1, <1>8, <1>9, <1>10 DEF ct

\* A range that starts inside the plaintext is read from a block of the container that
\* holds its first byte: what lies before the block and what is dropped from it add up
\* to the start, and the byte, behind the block's tag, is inside the container.
THEOREM RangeStartsInside ==
  ASSUME NEW plain \in Nat, NEW offset \in 0..(plain - 1)
  PROVE  /\ (offset \div BlockData) * BlockData + Intra(offset) = offset
         /\ Intra(offset) \in 0..(BlockData - 1)
         /\ BlockStart(offset) >= HeaderSize
         /\ BlockStart(offset) + BlockTag + Intra(offset) < EncryptedSize(plain)
<1> DEFINE B == plain \div BlockData
           R == plain % BlockData
           b == offset \div BlockData
           r == offset % BlockData
<1>1. B \in Nat /\ R \in 0..(BlockData - 1) /\ plain = BlockData * B + R
  BY SizesPositive, Division
<1>2. b \in Nat /\ r \in 0..(BlockData - 1) /\ offset = BlockData * b + r
  <2>1. offset \in Nat
    OBVIOUS
  <2> QED BY <2>1, SizesPositive, Division
<1>3. EncryptedSize(plain) = HeaderSize + B * BlockSize + (IF R = 0 THEN 0 ELSE BlockTag + R)
  BY DEF EncryptedSize
<1>4. Intra(offset) = r /\ BlockStart(offset) = HeaderSize + b * BlockSize
  BY DEF Intra, BlockStart
<1> HIDE DEF B, R, b, r
<1>5. BlockData * b \in Nat /\ BlockData * B \in Nat /\ b * BlockSize \in Nat /\ B * BlockSize \in Nat
  BY <1>1, <1>2, SizesPositive, Z3
<1>6. b <= B
  <2> SUFFICES ASSUME B + 1 <= b PROVE FALSE
    BY <1>1, <1>2
  <2>1. BlockData * (B + 1) <= BlockData * b /\ BlockData * (B + 1) = BlockData * B + BlockData
    BY <1>1, <1>2, SizesPositive, Z3
  <2> QED BY <1>1, <1>2, <1>5, <2>1, SizesPositive
<1>7. BlockStart(offset) + BlockTag + Intra(offset) < EncryptedSize(plain)
  <2>1. CASE b = B
    <3>1. b * BlockSize = B * BlockSize /\ BlockData * b = BlockData * B
      BY <2>1
    <3>2. r < R
      BY <1>1, <1>2, <1>5, <3>1
    <3> QED BY <1>1, <1>2, <1>3, <1>4, <1>5, <3>1, <3>2, SizesPositive
  <2>2. CASE b + 1 <= B
    <3>1. BlockSize * (b + 1) <= BlockSize * B
      BY <1>1, <1>2, <2>2, SizesPositive, Z3
    <3>2. BlockSize * (b + 1) = b * BlockSize + BlockSize /\ BlockSize * B = B * BlockSize
      BY <1>1, <1>2, SizesPositive, Z3
    <3>3. b * BlockSize + BlockSize <= B * BlockSize
      BY <3>1, <3>2
    <3> QED BY <1>1, <1>2, <1>3, <1>4, <1>5, <3>3, SizesPositive
  <2> QED BY <1>1, <1>2, <1>6, <2>1, <2>2
<1>8. b * BlockData = BlockData * b
  BY <1>2, SizesPositive, Z3
<1> QED BY <1>2, <1>4, <1>5, <1>7, <1>8, SizesPositive DEF b

-----------------------------------------------------------------------------
(* The chunks of the part that is being streamed *)

Messages == [idx : Nat, ok : BOOLEAN]

\* The messages of a channel, and what is left when the first is received.
LEMMA Received ==
  ASSUME NEW q \in Seq(Messages)
  PROVE  /\ \A k \in 1..Len(q) : q[k] \in Messages /\ q[k].idx \in Nat
         /\ q # <<>> =>
              /\ Len(q) \in Nat \ {0} /\ Len(Tail(q)) = Len(q) - 1
              /\ Tail(q) \in Seq(Messages)
              /\ Head(q) = q[1]
              /\ \A k \in 1..Len(Tail(q)) : k + 1 \in 1..Len(q) /\ Tail(q)[k] = q[k + 1]
<1>1. \A k \in 1..Len(q) : q[k] \in Messages
  BY ElementOfSeq
<1>2. \A m \in Messages : m.idx \in Nat
  BY DEF Messages
<1>3. Len(q) \in Nat
  BY LenProperties
<1>4. ASSUME q # <<>>
      PROVE  /\ Len(q) # 0 /\ Len(Tail(q)) = Len(q) - 1
             /\ Tail(q) \in Seq(Messages)
             /\ Head(q) = q[1]
             /\ \A k \in 1..Len(Tail(q)) : Tail(q)[k] = q[k + 1]
  BY <1>4, HeadTailProperties, EmptySeq, LenProperties
<1> QED BY <1>1, <1>2, <1>3, <1>4

\* The values of the variables a chunk's number passes through.
ChunkTypes ==
  /\ next \in Nat /\ nextIdx \in Nat
  /\ pending \subseteq Nat
  /\ queue \in Seq(Messages)
  /\ worker \in [Workers -> {"take", "read", "rpc", "mark", "refetch", "store", "send",
                             "fail", "done"}]
  /\ idx \in [Workers -> Nat]

\* A chunk below the counter and not below the merger's place is with one worker, in one
\* place of the channel, or pending; the counter is ahead of all of them, so the chunk
\* that is taken next is none of them.
Apart ==
  /\ nextIdx <= next
  /\ \A w \in Workers : Fetching(w) =>
       /\ nextIdx <= idx[w] /\ idx[w] < next
       /\ idx[w] \notin pending
       /\ \A k \in 1..Len(queue) : queue[k].idx # idx[w]
  /\ \A v, w \in Workers : Fetching(v) /\ Fetching(w) /\ idx[v] = idx[w] => v = w
  /\ \A k \in 1..Len(queue) :
       nextIdx <= queue[k].idx /\ queue[k].idx < next /\ queue[k].idx \notin pending
  /\ \A j, k \in 1..Len(queue) : queue[j].idx = queue[k].idx => j = k
  /\ \A i \in pending : i < next

\* The inductive invariant.  It says nothing between two parts: the next part's
\* channel, counter and workers are new.
Handling == ChunkTypes /\ (Merging => Apart)

LEMMA HandlingSuffices == Handling => OneHolder
<1> SUFFICES ASSUME Handling, Merging PROVE OneHolder
  BY DEF OneHolder
<1>1. \A k \in 1..Len(queue) : queue[k].idx \in Nat
  BY Received DEF Handling, ChunkTypes
<1>2. \A w \in Workers : idx[w] \in Nat
  BY DEF Handling, ChunkTypes
<1> QED BY <1>1, <1>2 DEF Handling, OneHolder, Apart, ChunkTypes

\* Before the first part nothing is under way.
LEMMA HandlingInit == Init => Handling
<1> SUFFICES ASSUME Init PROVE Handling
  OBVIOUS
<1>1. ChunkTypes
  <2>1. <<>> \in Seq(Messages)
    BY EmptySeq
  <2> QED BY <2>1 DEF Init, ChunkTypes
<1>2. ~Merging
  BY DEF Init, Merging
<1> QED BY <1>1, <1>2 DEF Handling

\* A new part: its workers take, or have nothing to do.
LEMMA OpenKeeps ==
  ASSUME Handling, Open
  PROVE  Handling'
<1>1. ChunkTypes'
  <2>1. worker' \in [Workers -> {"take", "done"}]
    BY DEF Open, Spawn
  <2>2. queue' \in Seq(Messages)
    BY EmptySeq DEF Open, Spawn
  <2> QED BY <2>1, <2>2 DEF Handling, ChunkTypes, Open, Spawn, locations
<1>2. \A w \in Workers : ~Fetching(w)'
  <2> SUFFICES ASSUME NEW w \in Workers PROVE worker'[w] \in {"take", "done"}
    BY DEF Fetching
  <2> QED BY DEF Open, Spawn
<1>3. queue' = <<>> /\ pending' = {} /\ next' = 0 /\ nextIdx' = 0
  BY DEF Open, Spawn
<1>4. Apart'
  BY <1>2, <1>3 DEF Apart
<1> QED BY <1>1, <1>4 DEF Handling

\* No merger afterwards: the body has ended, or waits for its next part.
LEMMA EndKeeps ==
  ASSUME Handling, ChunkTypes', result' # "none" \/ stream' = "closed"
  PROVE  Handling'
BY DEF Handling, Merging

\* A step that touches neither chunks nor workers.
LEMMA IdleKeeps ==
  ASSUME Handling, Merging' => Merging, UNCHANGED <<next, nextIdx, pending, queue, worker, idx>>
  PROVE  Handling'
BY DEF Handling, ChunkTypes, Apart, Fetching

\* The chunk that is handed out next waits in the map; nobody else has it.
LEMMA HandOutPendingKeeps ==
  ASSUME Handling, HandOutPending
  PROVE  Handling'
<1>1. /\ nextIdx' = nextIdx + 1 /\ nextIdx \in pending /\ pending' = pending \ {nextIdx}
      /\ UNCHANGED <<next, queue, worker, idx>>
      /\ Merging
  BY DEF HandOutPending, HandOut
<1>2. ChunkTypes'
  BY <1>1 DEF Handling, ChunkTypes
<1>3. \A k \in 1..Len(queue) : queue[k].idx \in Nat
  BY Received DEF Handling, ChunkTypes
<1>4. Apart'
  BY <1>1, <1>3 DEF Handling, ChunkTypes, Apart, Fetching
<1> QED BY <1>2, <1>4 DEF Handling

\* The head leaves the channel: to the client if it is next, else into the map.
LEMMA RecvKeeps ==
  ASSUME Handling, Recv
  PROVE  Handling'
<1> DEFINE h == Head(queue).idx
<1>1. /\ Merging /\ nextIdx \notin pending
      /\ queue # <<>> /\ queue' = Tail(queue)
      /\ UNCHANGED <<next, worker, idx>>
      /\ \/ h = nextIdx /\ nextIdx' = nextIdx + 1 /\ pending' = pending
         \/ h # nextIdx /\ nextIdx' = nextIdx /\ pending' = pending \union {h}
  BY DEF Recv, HandOut
<1>2. /\ Len(queue) \in Nat \ {0}
      /\ Len(queue') = Len(queue) - 1
      /\ queue' \in Seq(Messages)
      /\ h = queue[1].idx
      /\ \A k \in 1..Len(queue') : k + 1 \in 1..Len(queue) /\ queue'[k] = queue[k + 1]
  <2>1. queue \in Seq(Messages)
    BY DEF Handling, ChunkTypes
  <2> QED BY <1>1, <2>1, Received
<1>3. \A k \in 1..Len(queue) : queue[k].idx \in Nat
  BY Received DEF Handling, ChunkTypes
<1>4. h \in Nat
  BY <1>2, <1>3
<1> HIDE DEF h
<1>5. ChunkTypes'
  <2>0. nextIdx \in Nat /\ pending \subseteq Nat
    BY DEF Handling, ChunkTypes
  <2>1. nextIdx' \in Nat /\ pending' \subseteq Nat
    <3>1. nextIdx + 1 \in Nat /\ pending \union {h} \subseteq Nat
      BY <1>4, <2>0
    <3> QED BY <1>1, <2>0, <3>1
  <2> QED BY <1>1, <1>2, <2>1 DEF Handling, ChunkTypes
<1>6. nextIdx <= h /\ h < next /\ h \notin pending
  BY <1>1, <1>2 DEF Handling, Apart
<1>7. \A w \in Workers : Fetching(w) => idx[w] # h
  BY <1>1, <1>2 DEF Handling, Apart
<1>8. \A k \in 1..Len(queue') : queue'[k].idx # h
  BY <1>1, <1>2, <1>3 DEF Handling, Apart
<1>9. Apart'
  <2>1. (nextIdx <= next)'
    BY <1>1, <1>6, <1>4 DEF Handling, ChunkTypes, Apart
  <2>2. \A w \in Workers : Fetching(w)' =>
          /\ nextIdx' <= idx[w]' /\ idx[w]' < next' /\ idx[w]' \notin pending'
          /\ \A k \in 1..Len(queue') : queue'[k].idx # idx[w]'
    BY <1>1, <1>2, <1>3, <1>4, <1>6, <1>7 DEF Handling, ChunkTypes, Apart, Fetching
  <2>3. \A v, w \in Workers : Fetching(v)' /\ Fetching(w)' /\ idx[v]' = idx[w]' => v = w
    BY <1>1 DEF Handling, Apart, Fetching
  <2>4. \A k \in 1..Len(queue') :
          nextIdx' <= queue'[k].idx /\ queue'[k].idx < next' /\ queue'[k].idx \notin pending'
    BY <1>1, <1>2, <1>3, <1>4, <1>6, <1>8 DEF Handling, ChunkTypes, Apart
  <2>5. \A j, k \in 1..Len(queue') : queue'[j].idx = queue'[k].idx => j = k
    BY <1>1, <1>2 DEF Handling, Apart
  <2>6. \A i \in pending' : i < next'
    BY <1>1, <1>6 DEF Handling, Apart
  <2> QED BY <2>1, <2>2, <2>3, <2>4, <2>5, <2>6 DEF Apart
<1> QED BY <1>5, <1>9 DEF Handling

\* The receiver gives up: a chunk that failed is not waited for.
LEMMA RecvErrorKeeps ==
  ASSUME Handling, RecvError
  PROVE  Handling'
<1>1. ChunkTypes'
  <2>1. queue \in Seq(Messages) /\ queue # <<>> /\ queue' = Tail(queue)
    BY DEF RecvError, Handling, ChunkTypes
  <2>2. queue' \in Seq(Messages)
    BY <2>1, Received
  <2> QED BY <2>2 DEF RecvError, Handling, ChunkTypes, merger
<1> QED BY <1>1, EndKeeps DEF RecvError

\* The steps of the merger and of the decryptor behind it that take no chunk.
LEMMA StreamKeeps ==
  ASSUME Handling,
         OpenBeyond \/ OpenFails \/ DecryptFull \/ PartEnds \/ ContainerEnds
           \/ ReaderGone \/ Expire
  PROVE  Handling'
<1>1. CASE OpenBeyond \/ OpenFails \/ ReaderGone \/ Expire
  BY <1>1, IdleKeeps DEF OpenBeyond, OpenFails, ReaderGone, Expire, Merging, place, merger
<1>2. CASE DecryptFull \/ ContainerEnds
  BY <1>2, IdleKeeps DEF DecryptFull, ContainerEnds, PartDrained, Merging
<1>3. CASE PartEnds
  BY <1>3, IdleKeeps DEF PartEnds, PartDrained, Merging, merger
<1> QED BY <1>1, <1>2, <1>3

\* The counter's value is nobody's chunk.
LEMMA TakeKeeps ==
  ASSUME Handling, NEW u \in Workers, Take(u)
  PROVE  Handling'
<1>1. /\ worker[u] = "take" /\ next' = next + 1
      /\ UNCHANGED <<result, stream, queue, pending, nextIdx>>
      /\ \/ worker' = [worker EXCEPT ![u] = "read"] /\ idx' = [idx EXCEPT ![u] = next]
         \/ worker' = [worker EXCEPT ![u] = "done"] /\ idx' = idx
  BY DEF Take, Go, place, merger
<1>2. ChunkTypes'
  BY <1>1 DEF Handling, ChunkTypes
<1>3. ASSUME Merging' PROVE Apart'
  <2>1. Apart
    BY <1>1, <1>3 DEF Merging, Handling
  <2>2. \A k \in 1..Len(queue) : queue[k].idx \in Nat
    BY Received DEF Handling, ChunkTypes
  <2>3. \A w \in Workers : w # u => (Fetching(w)' <=> Fetching(w)) /\ idx'[w] = idx[w]
    BY <1>1 DEF Fetching, Handling, ChunkTypes
  <2>4. Fetching(u)' => idx'[u] = next
    BY <1>1 DEF Fetching, Handling, ChunkTypes
  <2>5. \A w \in Workers : Fetching(w)' =>
          /\ nextIdx <= idx'[w] /\ idx'[w] < next + 1
          /\ idx'[w] \notin pending
          /\ \A k \in 1..Len(queue) : queue[k].idx # idx'[w]
    BY <2>1, <2>2, <2>3, <2>4 DEF Apart, Handling, ChunkTypes
  <2>6. \A v, w \in Workers : Fetching(v)' /\ Fetching(w)' /\ idx'[v] = idx'[w] => v = w
    BY <2>1, <2>3, <2>4 DEF Apart, Handling, ChunkTypes
  <2>7. \A k \in 1..Len(queue) : queue[k].idx < next + 1
    BY <2>1, <2>2 DEF Apart, Handling, ChunkTypes
  <2>8. nextIdx <= next + 1 /\ \A i \in pending : i < next + 1
    BY <2>1 DEF Apart, Handling, ChunkTypes
  <2> QED BY <1>1, <2>1, <2>5, <2>6, <2>7, <2>8 DEF Apart
<1> QED BY <1>2, <1>3 DEF Handling

\* A worker that fetches goes on with its chunk, or lets it go.
LEMMA FetchKeeps ==
  ASSUME Handling, NEW u \in Workers,
         worker[u] # "done",
         NEW to \in {"read", "rpc", "mark", "refetch", "store", "send", "fail", "done"},
         to # "done" => worker[u] # "take",
         worker' = [worker EXCEPT ![u] = to],
         to # "done" => idx' = idx,
         idx' = idx \/ idx' = [idx EXCEPT ![u] = 0],
         UNCHANGED <<result, stream, next, queue, pending, nextIdx>>
  PROVE  Handling'
<1>1. ChunkTypes'
  BY DEF Handling, ChunkTypes
<1>2. ASSUME Merging' PROVE Apart'
  <2>1. Apart
    BY <1>2 DEF Merging, Handling
  <2>2. \A w \in Workers : Fetching(w)' => Fetching(w) /\ idx'[w] = idx[w]
    BY DEF Fetching, Handling, ChunkTypes
  <2> QED BY <2>1, <2>2 DEF Apart
<1> QED BY <1>1, <1>2 DEF Handling

\* The chunk goes from the worker into the channel, behind the others.
LEMMA SendKeeps ==
  ASSUME Handling, NEW u \in Workers, Send(u)
  PROVE  Handling'
<1> DEFINE m == [idx |-> idx[u], ok |-> worker[u] = "send"]
<1>1. /\ Fetching(u)
      /\ queue' = Append(queue, m)
      /\ worker' = [worker EXCEPT ![u] = "take"]
      /\ idx' = [idx EXCEPT ![u] = 0]
      /\ UNCHANGED <<result, stream, next, pending, nextIdx>>
  BY DEF Send, Go, Fetching, place, merger
<1>2. m \in Messages /\ m.idx = idx[u]
  BY DEF Messages, Handling, ChunkTypes
<1> HIDE DEF m
<1>3. /\ queue' \in Seq(Messages)
      /\ Len(queue') = Len(queue) + 1
      /\ Len(queue) \in Nat
      /\ \A k \in 1..Len(queue) : queue'[k] = queue[k]
      /\ queue'[Len(queue) + 1] = m
  <2>1. queue \in Seq(Messages)
    BY DEF Handling, ChunkTypes
  <2> QED BY <1>1, <1>2, <2>1, AppendProperties, LenProperties
<1>4. ChunkTypes'
  BY <1>1, <1>3 DEF Handling, ChunkTypes
<1>5. ASSUME Merging' PROVE Apart'
  <2>1. Apart
    BY <1>1, <1>5 DEF Merging, Handling
  <2>2. \A w \in Workers : Fetching(w)' => w # u /\ Fetching(w) /\ idx'[w] = idx[w]
    BY <1>1 DEF Fetching, Handling, ChunkTypes
  <2>3. \A k \in 1..Len(queue') :
          \/ k \in 1..Len(queue) /\ queue'[k] = queue[k]
          \/ k = Len(queue) + 1 /\ queue'[k].idx = idx[u]
    BY <1>2, <1>3
  <2>4. nextIdx <= idx[u] /\ idx[u] < next /\ idx[u] \notin pending
    BY <1>1, <2>1 DEF Apart
  <2>5. \A w \in Workers : Fetching(w)' => \A k \in 1..Len(queue') : queue'[k].idx # idx'[w]
    BY <1>1, <2>1, <2>2, <2>3 DEF Apart
  <2>6. \A k \in 1..Len(queue') :
          nextIdx <= queue'[k].idx /\ queue'[k].idx < next /\ queue'[k].idx \notin pending
    BY <2>1, <2>3, <2>4 DEF Apart
  <2>7. \A j, k \in 1..Len(queue') : queue'[j].idx = queue'[k].idx => j = k
    BY <1>1, <2>1, <2>3 DEF Apart
  <2>8. \A w \in Workers : Fetching(w)' =>
          nextIdx <= idx'[w] /\ idx'[w] < next /\ idx'[w] \notin pending
    BY <2>1, <2>2 DEF Apart
  <2>9. \A v, w \in Workers : Fetching(v)' /\ Fetching(w)' /\ idx'[v] = idx'[w] => v = w
    BY <2>1, <2>2 DEF Apart
  <2> QED BY <1>1, <2>1, <2>5, <2>6, <2>7, <2>8, <2>9 DEF Apart
<1> QED BY <1>4, <1>5 DEF Handling

\* One step of a worker.
LEMMA WorkKeeps ==
  ASSUME Handling, NEW u \in Workers, Work(u) \/ Dies(u)
  PROVE  Handling'
<1>1. CASE Take(u)
  BY <1>1, TakeKeeps
<1>2. CASE Send(u)
  BY <1>2, SendKeeps
<1>3. CASE Read(u)
  BY <1>3, FetchKeeps DEF Read, Go, place, merger
<1>4. CASE Fetched(u)
  BY <1>4, FetchKeeps DEF Fetched, Go, place, merger
<1>5. CASE FetchFails(u)
  BY <1>5, FetchKeeps DEF FetchFails, Go, place, merger
<1>6. CASE Mark(u)
  BY <1>6, FetchKeeps DEF Mark, Go, place, merger
<1>7. CASE Refetched(u)
  BY <1>7, FetchKeeps DEF Refetched, Go, place, merger
<1>8. CASE RefetchFails(u)
  BY <1>8, FetchKeeps DEF RefetchFails, Go, place, merger
<1>9. CASE Store(u)
  BY <1>9, FetchKeeps DEF Store, Go, place, merger
<1>10. CASE SendRefused(u)
  BY <1>10, FetchKeeps DEF SendRefused, Go, place, merger
<1>11. CASE Dies(u)
  BY <1>11, FetchKeeps DEF Dies, Go, place, merger
<1> QED BY <1>1, <1>2, <1>3, <1>4, <1>5, <1>6, <1>7, <1>8, <1>9, <1>10, <1>11 DEF Work

LEMMA HandlingNext == Handling /\ [Next]_vars => Handling'
<1> SUFFICES ASSUME Handling, [Next]_vars PROVE Handling'
  OBVIOUS
<1>1. CASE Serve
  BY <1>1, OpenKeeps, HandOutPendingKeeps, RecvKeeps, RecvErrorKeeps, StreamKeeps DEF Serve
<1>2. CASE ReaderGone \/ Expire
  BY <1>2, StreamKeeps
<1>3. CASE \E w \in Workers : Work(w) \/ Dies(w)
  BY <1>3, WorkKeeps
<1>4. CASE UNCHANGED vars
  BY <1>4, IdleKeeps DEF vars, place, merger, Merging
<1> QED BY <1>1, <1>2, <1>3, <1>4 DEF Next

\* However many workers fetch, die or fail, and in whatever order their chunks arrive:
\* a chunk of the part that is streamed is in one place only, and none that was handed
\* out comes again (the shared counter of fetch_window and the merger of part_stream).
THEOREM ChunkInOnePlace == Spec => []OneHolder
<1>1. Init => Handling
  BY HandlingInit
<1>2. Handling /\ [Next]_vars => Handling'
  BY HandlingNext
<1>3. Handling => OneHolder
  BY HandlingSuffices
<1> QED BY <1>1, <1>2, <1>3, PTL DEF Spec

-----------------------------------------------------------------------------
(* Sums of sizes *)

\* A set of naturals has a least element.
LEMMA LeastOf ==
  ASSUME NEW T \in SUBSET Nat, T # {}
  PROVE  \E x \in T : \A y \in T : x <= y
<1> DEFINE Below == {s \in Nat \X Nat : s[1] < s[2]}
<1>1. IsWellFoundedOn(Below, Nat)
  BY NatLessThanWellFounded DEF OpToRel
<1>2. \A x, y \in Nat : <<y, x>> \notin Below => x <= y
  OBVIOUS
<1> HIDE DEF Below
<1>3. \E x \in T : \A y \in T : ~ (<<y, x>> \in Below)
  BY <1>1, WFMin
<1> QED BY <1>2, <1>3

\* Induction, over a set.
LEMMA Inductive ==
  ASSUME NEW S \in SUBSET Nat, 0 \in S, \A n \in Nat : n \in S => n + 1 \in S
  PROVE  S = Nat
<1> SUFFICES ASSUME Nat \ S # {} PROVE FALSE
  OBVIOUS
<1>1. PICK x \in Nat \ S : \A y \in Nat \ S : x <= y
  BY LeastOf
<1>2. x # 0 /\ x - 1 \in Nat /\ x - 1 \in S
  BY <1>1
<1> QED BY <1>1, <1>2

-----------------------------------------------------------------------------
(* Where the parts are in the file *)

\* What the recursive definition in Sum stands for, up to n.
RunningSums(F, s, n) ==
  F = [i \in 0..n |-> IF i = 0 THEN 0 ELSE F[i - 1] + s[i]]

LEMMA RunningSumsAgree ==
  ASSUME NEW s, NEW m \in Nat, NEW n \in Nat, m <= n,
         NEW F, RunningSums(F, s, m), NEW G, RunningSums(G, s, n)
  PROVE  \A i \in 0..m : F[i] = G[i]
<1> DEFINE S == {i \in Nat : i <= m => F[i] = G[i]}
<1>1. 0 \in S
  BY DEF RunningSums
<1>2. ASSUME NEW i \in Nat, i \in S PROVE i + 1 \in S
  <2> SUFFICES ASSUME i + 1 <= m PROVE F[i + 1] = G[i + 1]
    OBVIOUS
  <2>1. i + 1 \in 0..m /\ i + 1 \in 0..n /\ i + 1 # 0 /\ (i + 1) - 1 = i
    OBVIOUS
  <2>2. F[i] = G[i]
    BY <1>2
  <2>3. F[i + 1] = F[i] + s[i + 1]
    BY <2>1 DEF RunningSums
  <2>4. G[i + 1] = G[i] + s[i + 1]
    BY <2>1 DEF RunningSums
  <2> QED BY <2>2, <2>3, <2>4
<1> HIDE DEF S
<1>3. S = Nat
  BY <1>1, <1>2, Inductive DEF S
<1> QED BY <1>3 DEF S

LEMMA RunningSumsExist ==
  ASSUME NEW s, NEW k \in Nat, \A i \in 1..k : s[i] \in Nat
  PROVE  \A n \in 0..k : \E F \in [0..n -> Nat] : RunningSums(F, s, n)
<1> DEFINE S == {n \in Nat : n <= k => \E F \in [0..n -> Nat] : RunningSums(F, s, n)}
<1>1. 0 \in S
  <2> DEFINE F == [i \in 0..0 |-> 0]
  <2>1. F \in [0..0 -> Nat] /\ RunningSums(F, s, 0)
    BY DEF RunningSums
  <2> QED BY <2>1
<1>2. ASSUME NEW n \in Nat, n \in S PROVE n + 1 \in S
  <2> SUFFICES ASSUME n + 1 <= k PROVE \E F \in [0..(n + 1) -> Nat] : RunningSums(F, s, n + 1)
    OBVIOUS
  <2>1. PICK F \in [0..n -> Nat] : RunningSums(F, s, n)
    BY <1>2
  <2> DEFINE G == [i \in 0..(n + 1) |-> IF i = n + 1 THEN F[n] + s[n + 1] ELSE F[i]]
  <2>2. n + 1 \in 1..k /\ n \in 0..n
    OBVIOUS
  <2>3. F[n] \in Nat /\ s[n + 1] \in Nat
    BY <2>2
  <2>4. G \in [0..(n + 1) -> Nat]
    BY <2>3
  <2>5. \A i \in 0..(n + 1) : G[i] = IF i = 0 THEN 0 ELSE G[i - 1] + s[i]
    <3> TAKE i \in 0..(n + 1)
    <3>1. CASE i = n + 1
      <4>1. G[i] = F[n] + s[n + 1] /\ i - 1 = n /\ n \in 0..(n + 1) /\ n # n + 1
        BY <3>1
      <4> QED BY <3>1, <4>1
    <3>2. CASE i # n + 1
      <4>1. i \in 0..n /\ G[i] = F[i]
        BY <3>2
      <4>2. F[i] = IF i = 0 THEN 0 ELSE F[i - 1] + s[i]
        BY <2>1, <4>1 DEF RunningSums
      <4>3. i # 0 => i - 1 \in 0..(n + 1) /\ i - 1 # n + 1 /\ G[i - 1] = F[i - 1]
        BY <4>1
      <4> QED BY <4>1, <4>2, <4>3
    <3> QED BY <3>1, <3>2
  <2>6. RunningSums(G, s, n + 1)
    <3>1. G = [i \in 0..(n + 1) |-> G[i]]
      OBVIOUS
    <3> HIDE DEF G
    <3> QED BY <3>1, <2>5 DEF RunningSums
  <2> QED BY <2>4, <2>6
<1> HIDE DEF S
<1>3. S = Nat
  BY <1>1, <1>2, Inductive DEF S
<1>4. ASSUME NEW n \in 0..k PROVE \E F \in [0..n -> Nat] : RunningSums(F, s, n)
  <2>1. n \in S /\ n <= k
    BY <1>3
  <2> QED BY <2>1 DEF S
<1> QED BY <1>4


\* Sum adds up the first n elements.
LEMMA SumAdds ==
  ASSUME NEW s, NEW k \in Nat, \A i \in 1..k : s[i] \in Nat
  PROVE  /\ Sum(s, 0) = 0
         /\ \A n \in 0..k : Sum(s, n) \in Nat
         /\ \A n \in 1..k : Sum(s, n) = Sum(s, n - 1) + s[n]
<1>1. \A n \in 0..k : \E F \in [0..n -> Nat] : RunningSums(F, s, n) /\ Sum(s, n) = F[n]
  <2> TAKE n \in 0..k
  <2> DEFINE sum[i \in 0..n] == IF i = 0 THEN 0 ELSE sum[i - 1] + s[i]
  <2>1. PICK G \in [0..n -> Nat] : RunningSums(G, s, n)
    BY RunningSumsExist
  <2>2. sum = [i \in 0..n |-> IF i = 0 THEN 0 ELSE sum[i - 1] + s[i]]
    BY <2>1 DEF RunningSums
  <2>3. Sum(s, n) = sum[n]
    BY DEF Sum
  <2> HIDE DEF sum
  <2>4. RunningSums(sum, s, n)
    BY <2>2 DEF RunningSums
  <2>5. \A i \in 0..n : sum[i] = G[i]
    BY <2>1, <2>4, RunningSumsAgree
  <2>6. sum = [i \in 0..n |-> sum[i]]
    BY <2>2
  <2>7. sum \in [0..n -> Nat]
    BY <2>1, <2>5, <2>6
  <2> QED BY <2>3, <2>4, <2>7
<1>2. Sum(s, 0) = 0
  BY <1>1 DEF RunningSums
<1>3. \A n \in 0..k : Sum(s, n) \in Nat
  BY <1>1
<1>4. ASSUME NEW n \in 1..k PROVE Sum(s, n) = Sum(s, n - 1) + s[n]
  <2>1. n \in 0..k /\ n - 1 \in 0..k /\ n - 1 <= n /\ n - 1 \in Nat /\ n \in Nat
    OBVIOUS
  <2>2. PICK F : RunningSums(F, s, n) /\ Sum(s, n) = F[n]
    BY <1>1, <2>1
  <2>3. PICK G : RunningSums(G, s, n - 1) /\ Sum(s, n - 1) = G[n - 1]
    BY <1>1, <2>1
  <2>4. G[n - 1] = F[n - 1]
    <3>1. \A i \in 0..(n - 1) : G[i] = F[i]
      BY <2>1, <2>2, <2>3, RunningSumsAgree
    <3> QED BY <2>1, <3>1
  <2>5. F[n] = F[n - 1] + s[n]
    BY <2>2 DEF RunningSums
  <2> QED BY <2>2, <2>3, <2>4, <2>5
<1> QED BY <1>2, <1>3, <1>4

\* The parts follow each other in the file.
LEMMA PartsInOrder ==
  ASSUME file \in Files
  PROVE  /\ Len(Sizes) \in Nat \ {0} /\ Parts = 1..Len(Sizes)
         /\ \A p \in Parts : Sizes[p] \in Nat \ {0}
         /\ Base(1) = 0
         /\ \A p \in 1..(Len(Sizes) + 1) : Base(p) \in Nat
         /\ \A p \in Parts : p + 1 \in 1..(Len(Sizes) + 1) /\ Base(p + 1) = Base(p) + Sizes[p]
<1>1. Sizes \in Seq(Nat \ {0}) /\ Sizes # <<>>
  BY FilesAssumption DEF Sizes
<1>2. Len(Sizes) \in Nat \ {0}
  BY <1>1, EmptySeq, LenProperties
<1>3. \A p \in 1..Len(Sizes) : Sizes[p] \in Nat \ {0}
  BY <1>1, ElementOfSeq
<1>4. /\ Sum(Sizes, 0) = 0
      /\ \A n \in 0..Len(Sizes) : Sum(Sizes, n) \in Nat
      /\ \A n \in 1..Len(Sizes) : Sum(Sizes, n) = Sum(Sizes, n - 1) + Sizes[n]
  <2>1. \A p \in 1..Len(Sizes) : Sizes[p] \in Nat
    BY <1>3
  <2> QED BY <1>2, <2>1, SumAdds
<1>5. Base(1) = 0
  BY <1>4 DEF Base
<1>6. ASSUME NEW p \in 1..(Len(Sizes) + 1) PROVE Base(p) \in Nat
  <2>1. p - 1 \in 0..Len(Sizes)
    BY <1>2
  <2> QED BY <1>4, <2>1 DEF Base
<1>7. ASSUME NEW p \in Parts
      PROVE  p + 1 \in 1..(Len(Sizes) + 1) /\ Base(p + 1) = Base(p) + Sizes[p]
  <2>1. p \in 1..Len(Sizes) /\ (p + 1) - 1 = p /\ p + 1 \in 1..(Len(Sizes) + 1)
    BY <1>2 DEF Parts
  <2>2. Base(p + 1) = Sum(Sizes, p)
    BY <2>1 DEF Base
  <2> QED BY <1>4, <2>1, <2>2 DEF Base
<1> QED BY <1>2, <1>3, <1>5, <1>6, <1>7 DEF Parts

LEMMA BasesGrow ==
  ASSUME file \in Files, NEW p \in 1..(Len(Sizes) + 1), NEW q \in 1..(Len(Sizes) + 1), p <= q
  PROVE  Base(p) <= Base(q)
<1> DEFINE n == Len(Sizes) + 1
           S == {d \in Nat : p + d \in 1..n => Base(p) <= Base(p + d)}
<1>0. n \in Nat
  BY PartsInOrder
<1>1. 0 \in S
  BY PartsInOrder
<1>2. ASSUME NEW d \in Nat, d \in S PROVE d + 1 \in S
  <2> SUFFICES ASSUME p + (d + 1) \in 1..n PROVE Base(p) <= Base(p + (d + 1))
    OBVIOUS
  <2>1. p + d \in 1..n /\ p + d \in Parts /\ (p + d) + 1 = p + (d + 1)
    BY <1>0, PartsInOrder
  <2>2. Base(p) <= Base(p + d)
    BY <1>2, <2>1
  <2>3. Base((p + d) + 1) = Base(p + d) + Sizes[p + d] /\ Sizes[p + d] \in Nat
    BY <2>1, PartsInOrder
  <2>4. Base(p) \in Nat /\ Base(p + d) \in Nat
    BY <2>1, PartsInOrder
  <2> QED BY <2>1, <2>2, <2>3, <2>4
<1> HIDE DEF S
<1>3. S = Nat
  BY <1>1, <1>2, Inductive DEF S
<1>4. q - p \in S /\ p + (q - p) = q
  BY <1>3, <1>0
<1> QED BY <1>4 DEF S

\* Locate finds the part that holds a byte of the file.
LEMMA LocateFinds ==
  ASSUME file \in Files, NEW s \in Nat, s < Total
  PROVE  /\ Locate(s) \in Parts
         /\ Base(Locate(s)) <= s /\ s < Base(Locate(s) + 1)
<1> DEFINE n == Len(Sizes)
           T == {p \in 1..n : s < Base(p + 1)}
<1>1. n \in Nat \ {0} /\ Parts = 1..n /\ \A p \in 1..(n + 1) : Base(p) \in Nat
  BY PartsInOrder
<1> HIDE DEF n
<1>2. n \in T
  BY <1>1 DEF Total, n
<1>3. PICK x \in T : \A y \in T : x <= y
  <2>1. \A p \in T : p \in Nat
    BY <1>1
  <2>2. T # {}
    BY <1>2, Zenon
  <2> HIDE DEF T
  <2> QED BY <2>1, <2>2, LeastOf
<1>4. x \in 1..n /\ s < Base(x + 1)
  BY <1>3
<1>5. ASSUME NEW p \in 1..n PROVE Base(p + 1) <= s <=> p <= x - 1
  <2>1. CASE p <= x - 1
    <3>1. ~(x <= p)
      BY <1>1, <1>4, <2>1
    <3>2. ~(s < Base(p + 1))
      BY <1>3, <3>1
    <3>3. p + 1 \in 1..(n + 1)
      BY <1>1
    <3>4. Base(p + 1) \in Nat
      BY <1>1, <3>3
    <3> QED BY <2>1, <3>2, <3>4
  <2>2. CASE x <= p
    <3>1. x + 1 \in 1..(n + 1) /\ p + 1 \in 1..(n + 1) /\ x + 1 <= p + 1
      BY <1>1, <1>4, <2>2
    <3>2. Base(x + 1) <= Base(p + 1)
      BY <3>1, BasesGrow DEF n
    <3> QED BY <1>1, <1>4, <2>2, <3>1, <3>2
  <2> QED BY <1>1, <1>4, <2>1, <2>2
<1> HIDE DEF T
<1>6. {p \in Parts : Base(p + 1) <= s} = 1..(x - 1)
  BY <1>1, <1>4, <1>5
<1>7. Cardinality(1..(x - 1)) = x - 1
  BY <1>1, <1>4, FS_Interval
<1>8. Locate(s) = x
  <2>1. Locate(s) = 1 + Cardinality(1..(x - 1))
    BY <1>6, Zenon DEF Locate
  <2> QED BY <1>1, <1>4, <1>7, <2>1
<1>9. Base(x) <= s
  <2>1. CASE x = 1
    BY <2>1, PartsInOrder
  <2>2. CASE x # 1
    <3>1. x - 1 \in 1..n /\ (x - 1) + 1 = x /\ x - 1 <= x - 1
      BY <1>1, <1>4, <2>2
    <3>2. Base((x - 1) + 1) <= s
      BY <1>5, <3>1
    <3> QED BY <3>1, <3>2
  <2> QED BY <2>1, <2>2
<1> QED BY <1>1, <1>4, <1>8, <1>9

-----------------------------------------------------------------------------
(* What the client has been sent: the invariant *)

Results == {"none", "ok", "short", "err", "panic", "gone"}

\* The request, and what Telegram holds of the file.
Request ==
  /\ file \in Files
  /\ start \in Nat /\ len \in Nat \ {0} /\ start + len <= Total
  /\ docSize \in [Parts -> Nat] /\ content \in [Parts -> Nat]
  /\ \A p \in Parts : content[p] <= docSize[p] /\ docSize[p] <= Stored(p)

\* What is missing, or reported as failed, was counted as a fault.
Blame ==
  /\ faults \in Nat
  /\ \A p \in Parts : faults = 0 => docSize[p] = Stored(p) /\ content[p] = docSize[p]
  /\ \A w \in Workers : worker[w] = "fail" => faults > 0
  /\ \A k \in 1..Len(queue) : ~queue[k].ok => faults > 0

\* The part that is streamed, and where in it: only the first part is entered in its middle.
Place ==
  /\ result \in Results /\ stream \in {"open", "closed"}
  /\ part \in Parts /\ start < Base(part + 1)
  /\ skip \in Nat /\ skip < Sizes[part]

\* No chunk is taken that the document does not have; the first one is cut where the
\* part is read from.
InDocument ==
  /\ docSize[part] > From
  /\ ~Sealed(part) => docSize[part] = Sizes[part]
  /\ \A w \in Workers : Fetching(w) => idx[w] < Chunks
  /\ \A k \in 1..Len(queue) : queue[k].idx < Chunks
  /\ \A i \in pending : i < Chunks
  /\ nextIdx <= Chunks
  /\ discard = IF nextIdx = 0 THEN From - FirstIdx * Chunk ELSE 0

\* A chunk that was taken is on its way unless something failed, and so is the end of the
\* part while a worker is left.
Accounted ==
  faults = 0 =>
    /\ \A i \in nextIdx..(next - 1) : i < Chunks =>
         \/ \E w \in Workers : Fetching(w) /\ idx[w] = i
         \/ \E k \in 1..Len(queue) : queue[k].idx = i
         \/ i \in pending
    /\ next >= Chunks \/ \E w \in Workers : worker[w] # "done"

\* The bytes of the document that were handed out, and what the document has at a place.
Pos == IF nextIdx = 0 THEN From ELSE Least((FirstIdx + nextIdx) * Chunk, docSize[part])
Doc(j) == IF j <= content[part] THEN j ELSE 0

\* Where in the container the bytes held start.
First == IF block = NoBlock THEN 0 ELSE HeaderSize + block * BlockSize

\* The decryptor holds what was handed out and not decrypted, and stands in the plaintext.
Holding ==
  /\ held \in Seq(Nat) /\ Len(held) = Pos - First
  /\ \A k \in 1..Len(held) : held[k] = Doc(First + k)
  /\ block = NoBlock => skip = 0 /\ Len(held) < HeaderSize
  /\ block # NoBlock =>
       block \in Nat /\ skip \div BlockData <= block /\ block * BlockData <= Sizes[part]

\* The place in the plaintext of the part that the client has been served up to.
Plain == IF block = NoBlock \/ block = skip \div BlockData THEN skip ELSE block * BlockData
Here  == IF stream = "closed" THEN skip ELSE IF Sealed(part) THEN Plain ELSE Pos

\* What was sent ends there, or behind a loss that nothing told of.
Lost(byte) ==
  \E p \in Parts : p < part /\ Clipped(p) /\ byte >= Base(p) + Blocks(docSize[p]) * BlockData
Aligned == start + Len(out) = Base(part) + Here \/ Lost(start + Len(out))

Sent ==
  /\ out \in Seq(Nat)
  /\ result = "none" => Len(out) < len /\ Aligned
  /\ RangeExact

Serving ==
  /\ Request /\ Blame /\ Place /\ Sent /\ NeverShort
  /\ Merging => InDocument /\ Accounted /\ (Sealed(part) => Holding)

\* Multiplication keeps the order.
LEMMA Scaled ==
  ASSUME NEW a \in Nat, NEW b \in Nat, NEW c \in Nat
  PROVE  /\ a * c \in Nat
         /\ (a + 1) * c = a * c + c
         /\ a <= b => a * c <= b * c
BY Z3

\* A grid of chunks from F on, n of them, covers the bytes f to d of a document.
Covers(F, n, f, d) ==
  /\ F \in Nat /\ F * Chunk <= f /\ f < F * Chunk + Chunk
  /\ n \in Nat \ {0}
  /\ \A i \in Nat : (F + i) * Chunk \in Nat /\ (F + (i + 1)) * Chunk = (F + i) * Chunk + Chunk
  /\ \A i \in Nat : i < n => (F + i) * Chunk < d
  /\ d <= (F + n) * Chunk

LEMMA GridCovers ==
  ASSUME NEW d \in Nat, NEW f \in Nat, f < d, NEW F, F = f \div Chunk,
         NEW n, n = (d + Chunk - 1) \div Chunk - F
  PROVE  Covers(F, n, f, d)
<1> DEFINE e == d + Chunk - 1
           m == e \div Chunk
<1>0. Chunk \in Nat \ {0} /\ e \in Nat
  BY ChunkAssumption
<1>1. F \in Nat /\ f % Chunk \in 0..(Chunk - 1) /\ f = Chunk * F + (f % Chunk)
  BY <1>0, Division
<1>2. m \in Nat /\ e % Chunk \in 0..(Chunk - 1) /\ e = Chunk * m + (e % Chunk)
  BY <1>0, Division
<1> HIDE DEF m
<1>3. Chunk * F = F * Chunk /\ Chunk * m = m * Chunk /\ F * Chunk \in Nat /\ m * Chunk \in Nat
  BY <1>0, <1>1, <1>2, Z3
<1>4. F * Chunk <= f /\ f < F * Chunk + Chunk
  BY <1>0, <1>1, <1>3
<1>5. d <= m * Chunk /\ m * Chunk < d + Chunk
  BY <1>0, <1>2, <1>3
<1>6. F < m
  <2> SUFFICES ASSUME m <= F PROVE FALSE
    BY <1>1, <1>2
  <2>1. m * Chunk <= F * Chunk
    BY <1>0, <1>1, <1>2, Scaled
  <2> QED BY <1>3, <1>4, <1>5, <2>1
<1>7. n = m - F
  BY DEF m
<1>8. n \in Nat \ {0} /\ F + n = m
  BY <1>1, <1>2, <1>6, <1>7
<1>9. ASSUME NEW i \in Nat
      PROVE  /\ (F + i) * Chunk \in Nat
             /\ (F + (i + 1)) * Chunk = (F + i) * Chunk + Chunk
             /\ i < n => (F + i) * Chunk < d
  <2>1. F + i \in Nat /\ F + (i + 1) = (F + i) + 1 /\ (F + i) + 1 \in Nat
    BY <1>1
  <2>2. (F + i) * Chunk \in Nat /\ ((F + i) + 1) * Chunk = (F + i) * Chunk + Chunk
    BY <1>0, <2>1, Scaled
  <2>3. ASSUME i < n PROVE (F + i) * Chunk < d
    <3>1. (F + i) + 1 <= m
      BY <1>1, <1>2, <1>8, <2>3
    <3>2. ((F + i) + 1) * Chunk <= m * Chunk
      BY <1>0, <1>2, <2>1, <3>1, Scaled
    <3> QED BY <1>0, <1>3, <1>5, <2>2, <3>2
  <2> QED BY <2>1, <2>2, <2>3
<1> QED BY <1>1, <1>4, <1>5, <1>8, <1>9 DEF Covers

\* Where chunk i of the stream starts in the document.
Edge(i) == (FirstIdx + i) * Chunk

LEMMA FromNat ==
  ASSUME skip \in Nat
  PROVE  From \in Nat
<1>1. skip \div BlockData \in Nat
  BY SizesPositive, Division
<1>2. (skip \div BlockData) * BlockSize \in Nat
  BY <1>1, SizesPositive, Z3
<1> QED BY <1>2, SizesPositive DEF From, BlockStart

\* The chunks of the part that is streamed.
LEMMA Grid ==
  ASSUME skip \in Nat, docSize[part] \in Nat, From < docSize[part]
  PROVE  /\ From \in Nat /\ FirstIdx \in Nat /\ Chunks \in Nat \ {0}
         /\ FirstIdx * Chunk \in Nat
         /\ FirstIdx * Chunk <= From /\ From < FirstIdx * Chunk + Chunk
         /\ \A i \in Nat : Edge(i) \in Nat /\ Edge(i + 1) = Edge(i) + Chunk
         /\ \A i \in Nat : i < Chunks => Edge(i) < docSize[part]
         /\ Edge(0) = FirstIdx * Chunk
         /\ docSize[part] <= Edge(Chunks)
<1>0. From \in Nat
  BY FromNat
<1>1. FirstIdx = From \div Chunk /\ Chunks = (docSize[part] + Chunk - 1) \div Chunk - FirstIdx
  BY DEF FirstIdx, Chunks
<1> DEFINE d == docSize[part]
           F == FirstIdx
           n == Chunks
           f == From
<1>2. F = f \div Chunk /\ n = (d + Chunk - 1) \div Chunk - F
  BY <1>1
<1>3. d \in Nat /\ f \in Nat /\ f < d
  BY <1>0
<1> HIDE DEF d, F, n, f
<1>4. Covers(F, n, f, d)
  BY <1>2, <1>3, GridCovers
<1>5. F + 0 = F /\ 0 \in Nat
  BY <1>4 DEF Covers
<1>6. F * Chunk \in Nat
  BY <1>4, <1>5 DEF Covers
<1>7. /\ \A i \in Nat : Edge(i) \in Nat /\ Edge(i + 1) = Edge(i) + Chunk
      /\ \A i \in Nat : i < n => Edge(i) < d
      /\ Edge(0) = F * Chunk
      /\ d <= Edge(n)
  BY <1>4, <1>5 DEF Edge, F, Covers
<1> QED BY <1>3, <1>4, <1>6, <1>7 DEF d, F, n, f, Covers

-----------------------------------------------------------------------------
(* What the merger hands out, and what is sent of it *)

\* What the merger hands out next: the chunk without what lies before the range.
Handed ==
  LET bytes == ChunkBytes(nextIdx)
  IN  SubSeq(bytes, Least(discard, Len(bytes)) + 1, Len(bytes))

\* Where the document has been handed out to afterwards.
NextPos == Least(Edge(nextIdx + 1), docSize[part])

\* The chunk handed out next goes on where the one before it ended.
LEMMA HandedNext ==
  ASSUME skip \in Nat, docSize[part] \in Nat, content[part] \in Nat,
         nextIdx \in Nat, nextIdx < Chunks, InDocument
  PROVE  /\ Pos \in Nat /\ NextPos \in Nat /\ Pos < NextPos /\ NextPos <= docSize[part]
         /\ Handed \in Seq(Nat) /\ Len(Handed) = NextPos - Pos
         /\ \A k \in 1..Len(Handed) : Handed[k] = Doc(Pos + k)
         /\ Least(discard, Len(ChunkBytes(nextIdx))) = discard
         /\ (nextIdx + 1 = Chunks) => NextPos = docSize[part]
<1> DEFINE D == docSize[part]
           E == Edge(nextIdx)
           L == Least(Chunk, D - E)
           bytes == ChunkBytes(nextIdx)
<1>1. From < D
  BY DEF InDocument
<1>2. /\ From \in Nat /\ Chunks \in Nat \ {0}
      /\ E \in Nat /\ Edge(nextIdx + 1) = E + Chunk /\ E < D
      /\ Edge(0) = FirstIdx * Chunk /\ Edge(0) \in Nat
      /\ FirstIdx * Chunk <= From /\ From < FirstIdx * Chunk + Chunk
      /\ D <= Edge(Chunks)
  <2>1. 0 \in Nat
    OBVIOUS
  <2> QED BY <1>1, <2>1, Grid
<1>3. Chunk \in Nat \ {0} /\ D \in Nat
  BY ChunkAssumption
<1>4. bytes = [k \in 1..L |-> Doc(E + k)]
  BY DEF ChunkBytes, Edge, Doc
<1>5. \A j \in Nat : Doc(j) \in Nat
  BY DEF Doc
<1> HIDE DEF E, D, bytes
<1>6. L \in Nat \ {0} /\ NextPos = E + L
  BY <1>2, <1>3 DEF Least, NextPos, D
<1>7. bytes \in Seq(Nat) /\ Len(bytes) = L /\ \A k \in 1..L : bytes[k] = Doc(E + k)
  <2>1. \A k \in 1..L : Doc(E + k) \in Nat
    BY <1>2, <1>5, <1>6
  <2> HIDE DEF L
  <2>2. [k \in 1..L |-> Doc(E + k)] \in Seq(Nat)
    BY <1>6, <2>1, IsASeq
  <2>3. bytes \in Seq(Nat) /\ DOMAIN bytes = 1..L /\ \A k \in 1..L : bytes[k] = Doc(E + k)
    BY <1>4, <2>2
  <2>4. Len(bytes) = L
    BY <2>3, <1>6, LenProperties
  <2> QED BY <2>3, <2>4
<1>8. discard \in Nat /\ discard < L /\ Pos = E + discard
  <2>1. CASE nextIdx = 0
    <3>1. discard = From - FirstIdx * Chunk /\ E = FirstIdx * Chunk /\ Pos = From
      BY <2>1, <1>2 DEF InDocument, Pos, E
    <3> QED BY <1>1, <1>2, <1>3, <3>1 DEF Least, D
  <2>2. CASE nextIdx # 0
    <3>1. discard = 0 /\ Pos = Least(E, D)
      BY <2>2 DEF InDocument, Pos, E, Edge, D
    <3> QED BY <1>2, <1>3, <1>6, <3>1 DEF Least
  <2> QED BY <2>1, <2>2
<1> HIDE DEF L
<1>9. Least(discard, Len(bytes)) = discard
  BY <1>6, <1>7, <1>8 DEF Least
<1>10. Handed = SubSeq(bytes, discard + 1, L)
  BY <1>7, <1>9 DEF Handed, bytes
<1>11. /\ Handed \in Seq(Nat) /\ Len(Handed) = L - discard
       /\ \A k \in 1..(L - discard) : Handed[k] = bytes[discard + k]
  <2>1. \A k \in (discard + 1)..L : bytes[k] \in Nat
    BY <1>6, <1>7, <1>8, ElementOfSeq
  <2>2. /\ SubSeq(bytes, discard + 1, L) \in Seq(Nat)
        /\ Len(SubSeq(bytes, discard + 1, L)) = IF discard + 1 <= L THEN L - (discard + 1) + 1 ELSE 0
        /\ \A k \in 1..(L - (discard + 1) + 1) :
             SubSeq(bytes, discard + 1, L)[k] = bytes[(discard + 1) + k - 1]
    <3>1. discard + 1 \in Int /\ L \in Int
      BY <1>6, <1>8
    <3> QED BY <2>1, <3>1, SubSeqProperties
  <2>3. L - (discard + 1) + 1 = L - discard /\ discard + 1 <= L
    BY <1>6, <1>8
  <2>4. ASSUME NEW k \in 1..(L - discard)
        PROVE  SubSeq(bytes, discard + 1, L)[k] = bytes[discard + k]
    <3>1. (discard + 1) + k - 1 = discard + k
      BY <1>6, <1>8
    <3> QED BY <2>2, <2>3, <3>1
  <2> QED BY <1>10, <2>2, <2>3, <2>4
<1>12. \A k \in 1..Len(Handed) : Handed[k] = Doc(Pos + k)
  <2> TAKE k \in 1..Len(Handed)
  <2>1. k \in 1..(L - discard) /\ discard + k \in 1..L /\ E + (discard + k) = Pos + k
    BY <1>2, <1>6, <1>8, <1>11
  <2> QED BY <1>7, <1>11, <2>1
<1>13. Pos \in Nat /\ NextPos \in Nat /\ Pos < NextPos /\ Len(Handed) = NextPos - Pos
  BY <1>2, <1>6, <1>8, <1>11
<1>14. NextPos <= D
  BY <1>2, <1>3, <1>6 DEF Least, L
<1>15. nextIdx + 1 = Chunks => NextPos = D
  BY <1>2, <1>3 DEF Least, NextPos, D
<1> QED BY <1>9, <1>11, <1>12, <1>13, <1>14, <1>15 DEF D, bytes

\* The request stays.
LEMMA SameRequest ==
  ASSUME UNCHANGED request
  PROVE  /\ Sizes' = Sizes /\ Parts' = Parts /\ Total' = Total
         /\ \A p : Base(p)' = Base(p)
         /\ \A p : Sealed(p)' = Sealed(p)
         /\ \A p : Stored(p)' = Stored(p)
         /\ \A p : Clipped(p)' = Clipped(p)
         /\ \A b : Sound(b)' = Sound(b)
         /\ \A b : Kept(b)' = Kept(b)
         /\ Request' = Request
<1>1. file' = file /\ start' = start /\ len' = len /\ docSize' = docSize /\ content' = content
  BY DEF request
<1>2. Sizes' = Sizes
  BY <1>1 DEF Sizes
<1>3. \A p : Base(p)' = Base(p)
  BY <1>2 DEF Base
<1>4. Parts' = Parts /\ Total' = Total
  BY <1>2, <1>3 DEF Parts, Total
<1>5. \A p : Sealed(p)' = Sealed(p)
  BY <1>1 DEF Sealed
<1>6. \A p : Stored(p)' = Stored(p)
  BY <1>2, <1>5 DEF Stored
<1>7. \A p : Clipped(p)' = Clipped(p)
  BY <1>1, <1>3, <1>4, <1>5, <1>6 DEF Clipped, Cut
<1>8. \A b : Sound(b)' = Sound(b)
  BY <1>1, <1>3, <1>4, <1>7 DEF Sound
<1>9. \A b : Kept(b)' = Kept(b)
  BY <1>1, <1>3, <1>4, <1>5 DEF Kept
<1>10. Request' = Request
  BY <1>1, <1>4, <1>6 DEF Request
<1> QED BY <1>2, <1>3, <1>4, <1>5, <1>6, <1>7, <1>8, <1>9, <1>10

\* cap(): what is sent ends with the bytes, or with the range.
LEMMA EmitAppends ==
  ASSUME out \in Seq(Nat), len \in Nat, Len(out) < len, UNCHANGED request,
         NEW bytes \in Seq(Nat), NEW after, Emit(bytes, after)
  PROVE  /\ out' \in Seq(Nat)
         /\ Len(out) \in Nat /\ Len(out') \in Nat
         /\ Len(out') <= Len(out) + Len(bytes) /\ Len(out') <= len
         /\ Len(out) <= Len(out')
         /\ \A k \in 1..Len(out) : out'[k] = out[k]
         /\ \A k \in 1..(Len(out') - Len(out)) : out'[Len(out) + k] = bytes[k]
         /\ Len(out') < len => result' = after /\ Len(out') = Len(out) + Len(bytes)
         /\ ~(Len(out') < len) => result' = "ok"
<1> DEFINE n == Least(Left, Len(bytes))
           sent == SubSeq(bytes, 1, n)
<1>1. Len(out) \in Nat /\ Len(bytes) \in Nat
  BY LenProperties
<1>2. n \in Nat /\ n <= Len(bytes) /\ n <= len - Len(out) /\ (n < len - Len(out) => n = Len(bytes))
  BY <1>1 DEF Left, Least
<1>3. out' = out \o sent /\ result' = (IF Len(out') < len THEN after ELSE "ok")
  BY DEF Emit, request
<1> HIDE DEF n
<1>4. sent \in Seq(Nat) /\ Len(sent) = n /\ \A k \in 1..n : sent[k] = bytes[k]
  <2>1. \A k \in 1..n : bytes[k] \in Nat
    BY <1>1, <1>2, ElementOfSeq
  <2>2. /\ sent \in Seq(Nat)
        /\ Len(sent) = IF 1 <= n THEN n - 1 + 1 ELSE 0
        /\ \A k \in 1..(n - 1 + 1) : sent[k] = bytes[1 + k - 1]
    <3>1. 1 \in Int /\ n \in Int
      BY <1>2
    <3> QED BY <2>1, <3>1, SubSeqProperties
  <2>3. \A k \in 1..n : 1 + k - 1 = k
    BY <1>2
  <2>4. n - 1 + 1 = n /\ (~(1 <= n) => n = 0)
    BY <1>2
  <2> QED BY <2>2, <2>3, <2>4
<1> HIDE DEF sent
<1>5. /\ out' \in Seq(Nat) /\ Len(out') = Len(out) + n
      /\ \A i \in 1..(Len(out) + n) : out'[i] = IF i <= Len(out) THEN out[i] ELSE sent[i - Len(out)]
  <2>1. /\ out \o sent \in Seq(Nat) /\ Len(out \o sent) = Len(out) + Len(sent)
        /\ \A i \in 1..(Len(out) + Len(sent)) :
             (out \o sent)[i] = IF i <= Len(out) THEN out[i] ELSE sent[i - Len(out)]
    BY <1>4, ConcatProperties
  <2> QED BY <1>3, <1>4, <2>1
<1>6. \A k \in 1..Len(out) : out'[k] = out[k]
  BY <1>1, <1>2, <1>5
<1>7. ASSUME NEW k \in 1..n PROVE out'[Len(out) + k] = bytes[k]
  <2>1. Len(out) + k \in 1..(Len(out) + n) /\ ~(Len(out) + k <= Len(out)) /\ (Len(out) + k) - Len(out) = k
    BY <1>1, <1>2
  <2> QED BY <1>4, <1>5, <2>1
<1>8. Len(out') - Len(out) = n
  BY <1>1, <1>2, <1>5
<1> QED BY <1>1, <1>2, <1>3, <1>5, <1>6, <1>7, <1>8

\* A byte of the part that is streamed is not one of another part.
LEMMA KeptHere ==
  ASSUME Request, part \in Parts, NEW j \in Nat, 0 < j, j <= Sizes[part]
  PROVE  Kept(Base(part) + j) <=> Sealed(part) \/ j <= content[part]
<1>1. file \in Files /\ \A p \in Parts : content[p] \in Nat
  BY DEF Request
<1>2. /\ Len(Sizes) \in Nat \ {0} /\ Parts = 1..Len(Sizes)
      /\ \A p \in 1..(Len(Sizes) + 1) : Base(p) \in Nat
      /\ \A p \in Parts : p + 1 \in 1..(Len(Sizes) + 1) /\ Base(p + 1) = Base(p) + Sizes[p]
      /\ \A p \in Parts : Sizes[p] \in Nat \ {0}
  BY <1>1, PartsInOrder
<1> DEFINE b == Base(part) + j
<1>3. b \in Nat /\ Base(part) \in Nat /\ Base(part) < b /\ b <= Base(part + 1) /\ Base(part + 1) \in Nat
  <2>1. Base(part) \in Nat /\ Sizes[part] \in Nat /\ Base(part + 1) = Base(part) + Sizes[part]
    BY <1>2
  <2> QED BY <2>1
<1>4. ASSUME NEW p \in Parts, Base(p) < b, b <= Base(p + 1) PROVE p = part
  <2>1. ~(p < part)
    <3> SUFFICES ASSUME p < part PROVE FALSE
      OBVIOUS
    <3>1. p + 1 <= part /\ p + 1 \in 1..(Len(Sizes) + 1) /\ part \in 1..(Len(Sizes) + 1)
      BY <1>2
    <3>2. Base(p + 1) <= Base(part) /\ Base(p + 1) \in Nat
      BY <1>1, <1>2, <3>1, BasesGrow
    <3> QED BY <1>3, <1>4, <3>2
  <2>2. ~(part < p)
    <3> SUFFICES ASSUME part < p PROVE FALSE
      OBVIOUS
    <3>1. part + 1 <= p /\ part + 1 \in 1..(Len(Sizes) + 1) /\ p \in 1..(Len(Sizes) + 1)
      BY <1>2
    <3>2. Base(part + 1) <= Base(p) /\ Base(p) \in Nat
      BY <1>1, <1>2, <3>1, BasesGrow
    <3> QED BY <1>3, <1>4, <3>2
  <2>3. p \in Nat /\ part \in Nat
    BY <1>2
  <2> QED BY <2>1, <2>2, <2>3
<1>5. b <= Base(part) + content[part] <=> j <= content[part]
  BY <1>1, <1>3
<1>6. Kept(b) <=> Sealed(part) \/ b <= Base(part) + content[part]
  <2> HIDE DEF b
  <2> QED BY <1>3, <1>4 DEF Kept
<1> QED BY <1>5, <1>6

\* Where the bytes that a clipped container held end.
LEMMA EndOfBlocks ==
  ASSUME Request, NEW p \in Parts
  PROVE  Base(p) + Blocks(docSize[p]) * BlockData \in Nat
<1>1. Base(p) \in Nat
  BY PartsInOrder DEF Request
<1>2. Blocks(docSize[p]) \in Nat
  <2>1. docSize[p] \in Nat
    BY DEF Request
  <2>2. CASE docSize[p] < HeaderSize
    BY <2>2 DEF Blocks
  <2>3. CASE ~(docSize[p] < HeaderSize)
    <3>1. docSize[p] - HeaderSize \in Nat
      BY <2>1, <2>3, SizesPositive
    <3> QED BY <2>3, <3>1, SizesPositive, Division DEF Blocks
  <2> QED BY <2>2, <2>3
<1>3. Blocks(docSize[p]) * BlockData \in Nat
  BY <1>2, SizesPositive, Scaled
<1> QED BY <1>1, <1>3

\* The bytes are those of the part that follow what the client has.
GoesOn(bytes) ==
  /\ bytes \in Seq(Nat) /\ Here + Len(bytes) <= Sizes[part]
  /\ \A k \in 1..Len(bytes) :
       bytes[k] = IF Sealed(part) \/ Here + k <= content[part] THEN Base(part) + (Here + k) ELSE 0

\* They come to the client, as far as the range goes.
LEMMA EmitExact ==
  ASSUME Request, Place, Sent, result = "none", UNCHANGED request,
         Here \in Nat, NEW bytes, GoesOn(bytes), NEW after, Emit(bytes, after)
  PROVE  /\ out' \in Seq(Nat)
         /\ RangeExact'
         /\ ~(Len(out') < len) => result' = "ok"
         /\ Len(out') < len =>
              /\ result' = after
              /\ \/ start + Len(out') = Base(part) + (Here + Len(bytes))
                 \/ Lost(start + Len(out'))
<1>1. /\ out \in Seq(Nat) /\ Len(out) < len /\ Aligned /\ RangeExact
      /\ len \in Nat /\ start \in Nat /\ part \in Parts /\ file \in Files
      /\ bytes \in Seq(Nat) /\ Here + Len(bytes) <= Sizes[part]
  BY DEF Sent, Request, Place, GoesOn
<1>2. /\ out' \in Seq(Nat)
      /\ Len(out) \in Nat /\ Len(out') \in Nat
      /\ Len(out') <= Len(out) + Len(bytes) /\ Len(out') <= len
      /\ Len(out) <= Len(out')
      /\ \A k \in 1..Len(out) : out'[k] = out[k]
      /\ \A k \in 1..(Len(out') - Len(out)) : out'[Len(out) + k] = bytes[k]
      /\ Len(out') < len => result' = after /\ Len(out') = Len(out) + Len(bytes)
      /\ ~(Len(out') < len) => result' = "ok"
  BY <1>1, EmitAppends
<1>3. Len(bytes) \in Nat /\ Base(part) \in Nat /\ Sizes[part] \in Nat
  <2>1. part \in 1..(Len(Sizes) + 1)
    BY <1>1, PartsInOrder
  <2> QED BY <1>1, <2>1, PartsInOrder, LenProperties
<1>4. start + Len(out) = Base(part) + Here \/ Lost(start + Len(out))
  BY <1>1 DEF Aligned
<1>5. \A b, c \in Nat : Lost(b) /\ b <= c => Lost(c)
  <2> SUFFICES ASSUME NEW b \in Nat, NEW c \in Nat, b <= c, NEW p \in Parts, p < part, Clipped(p),
                      b >= Base(p) + Blocks(docSize[p]) * BlockData
               PROVE  c >= Base(p) + Blocks(docSize[p]) * BlockData
    BY DEF Lost
  <2>1. Base(p) + Blocks(docSize[p]) * BlockData \in Nat
    BY EndOfBlocks
  <2> QED BY <2>1
<1>6. ASSUME NEW k \in 1..Len(out'), Sound(start + k)
      PROVE  out'[k] = IF Kept(start + k) THEN start + k ELSE 0
  <2>1. CASE k <= Len(out)
    <3>1. k \in 1..Len(out)
      BY <1>2, <2>1
    <3> QED BY <1>1, <1>2, <1>6, <3>1 DEF RangeExact
  <2>2. CASE Len(out) < k
    <3> DEFINE j == k - Len(out)
    <3>1. j \in 1..(Len(out') - Len(out)) /\ j \in 1..Len(bytes) /\ k = Len(out) + j /\ j \in Nat
      BY <1>2, <1>3, <2>2
    <3> HIDE DEF j
    <3>2. out'[k] = bytes[j]
      BY <1>2, <3>1
    <3>3. start + Len(out) = Base(part) + Here
      <4> SUFFICES ASSUME Lost(start + Len(out)) PROVE FALSE
        BY <1>4
      <4>1. PICK p \in Parts : Clipped(p) /\ start + Len(out) >= Base(p) + Blocks(docSize[p]) * BlockData
        BY DEF Lost
      <4>2. start + k <= Base(p) + Blocks(docSize[p]) * BlockData
        BY <1>6, <4>1 DEF Sound
      <4>3. Base(p) + Blocks(docSize[p]) * BlockData \in Nat
        BY EndOfBlocks
      <4> QED BY <1>1, <1>2, <2>2, <4>1, <4>2, <4>3
    <3>4. start + k = Base(part) + (Here + j)
      <4>1. start \in Nat /\ Len(out) \in Nat /\ Base(part) \in Nat
        BY <1>1, <1>2, <1>3
      <4> QED BY <3>1, <3>3, <4>1
    <3>5. Here + j \in Nat /\ 0 < Here + j /\ Here + j <= Sizes[part]
      BY <1>1, <1>3, <3>1
    <3>6. Kept(start + k) <=> Sealed(part) \/ Here + j <= content[part]
      BY <1>1, <3>4, <3>5, KeptHere
    <3>7. bytes[j] = IF Sealed(part) \/ Here + j <= content[part] THEN Base(part) + (Here + j) ELSE 0
      BY <3>1 DEF GoesOn
    <3> QED BY <3>2, <3>4, <3>6, <3>7
  <2> QED BY <1>1, <1>2, <2>1, <2>2
<1>7. RangeExact'
  BY <1>2, <1>6, SameRequest DEF RangeExact, request
<1>8. ASSUME Len(out') < len
      PROVE  start + Len(out') = Base(part) + (Here + Len(bytes)) \/ Lost(start + Len(out'))
  <2>1. Len(out') = Len(out) + Len(bytes)
    BY <1>2, <1>8
  <2>2. CASE start + Len(out) = Base(part) + Here
    <3>1. start \in Nat /\ Len(out) \in Nat /\ Base(part) \in Nat /\ Len(bytes) \in Nat /\ Here \in Nat
      BY <1>1, <1>2, <1>3
    <3>2. start + Len(out') = Base(part) + (Here + Len(bytes))
      BY <2>1, <2>2, <3>1
    <3> QED BY <3>2
  <2>3. CASE Lost(start + Len(out))
    BY <1>1, <1>2, <1>3, <1>5, <2>1, <2>3
  <2> QED BY <1>4, <2>2, <2>3
<1> QED BY <1>2, <1>7, <1>8

-----------------------------------------------------------------------------
(* Containers and their blocks *)

\* What follows the first b blocks of a container, when the plaintext has as many: another
\* block, nothing, or the last, short one; and how much plaintext there is left then.
LEMMA AfterBlocks ==
  ASSUME NEW n \in Nat, NEW b \in Nat, b * BlockData <= n,
         NEW rest, rest = EncryptedSize(n) - (HeaderSize + b * BlockSize)
  PROVE  /\ rest \in Nat
         /\ \/ rest >= BlockSize /\ b * BlockData + BlockData <= n
            \/ rest = 0 /\ b * BlockData = n
            \/ BlockTag < rest /\ rest < BlockSize /\ b * BlockData + (rest - BlockTag) = n
<1> DEFINE q == n \div BlockData
           r == n % BlockData
           tail == IF r = 0 THEN 0 ELSE BlockTag + r
<1>1. q \in Nat /\ r \in 0..(BlockData - 1) /\ n = BlockData * q + r
  BY SizesPositive, Division
<1>2. EncryptedSize(n) = HeaderSize + q * BlockSize + tail
  BY DEF EncryptedSize
<1> HIDE DEF q, r
<1>3. tail \in 0..(BlockSize - 1) /\ (tail # 0 => tail = BlockTag + r /\ BlockTag < tail) /\ (tail = 0 => r = 0)
  BY <1>1, SizesPositive
<1> HIDE DEF tail
<1>4. /\ q * BlockSize \in Nat /\ b * BlockSize \in Nat /\ q * BlockData \in Nat /\ b * BlockData \in Nat
      /\ BlockData * q = q * BlockData
      /\ (b + 1) * BlockData = b * BlockData + BlockData
      /\ (b + 1) * BlockSize = b * BlockSize + BlockSize
      /\ (q + 1) * BlockData = q * BlockData + BlockData
  BY <1>1, SizesPositive, Z3
<1>5. b <= q
  <2> SUFFICES ASSUME q + 1 <= b PROVE FALSE
    BY <1>1
  <2>1. (q + 1) * BlockData <= b * BlockData
    BY <1>1, SizesPositive, Scaled
  <2> QED BY <1>1, <1>4, <2>1, SizesPositive
<1>6. CASE b = q
  <2>1. rest = tail
    BY <1>2, <1>3, <1>4, <1>6, SizesPositive
  <2>2. n = b * BlockData + r
    BY <1>1, <1>4, <1>6
  <2> QED BY <1>1, <1>3, <1>4, <2>1, <2>2, SizesPositive
<1>7. CASE b + 1 <= q
  <2>1. (b + 1) * BlockData <= q * BlockData /\ (b + 1) * BlockSize <= q * BlockSize
    BY <1>1, <1>7, SizesPositive, Scaled
  <2>2. rest >= BlockSize /\ rest \in Nat
    BY <1>2, <1>3, <1>4, <2>1, SizesPositive
  <2>3. b * BlockData + BlockData <= n
    BY <1>1, <1>4, <2>1, SizesPositive
  <2> QED BY <2>2, <2>3
<1> QED BY <1>1, <1>5, <1>6, <1>7

\* A container is longer than its header.
LEMMA LongerThanHeader ==
  ASSUME NEW n \in Nat \ {0}
  PROVE  EncryptedSize(n) \in Nat /\ HeaderSize < EncryptedSize(n)
<1> DEFINE rest == EncryptedSize(n) - (HeaderSize + 0 * BlockSize)
<1>1. 0 * BlockSize = 0 /\ 0 * BlockData = 0 /\ 0 \in Nat /\ 0 <= n
  BY SizesPositive, Z3
<1>2. /\ rest \in Nat
      /\ \/ rest >= BlockSize /\ 0 * BlockData + BlockData <= n
         \/ rest = 0 /\ 0 * BlockData = n
         \/ BlockTag < rest /\ rest < BlockSize /\ 0 * BlockData + (rest - BlockTag) = n
  <2>1. 0 * BlockData <= n /\ 0 \in Nat
    BY <1>1
  <2> QED BY <2>1, AfterBlocks
<1>3. rest \in Nat \ {0}
  BY <1>1, <1>2, SizesPositive
<1>4. EncryptedSize(n) \in Int
  <2>1. n \div BlockData \in Nat /\ n % BlockData \in Nat
    BY SizesPositive, Division
  <2>2. (n \div BlockData) * BlockSize \in Nat
    BY <2>1, SizesPositive, Scaled
  <2> QED BY <2>1, <2>2, SizesPositive DEF EncryptedSize
<1>5. rest = EncryptedSize(n) - HeaderSize
  BY <1>1, <1>4, SizesPositive
<1> QED BY <1>3, <1>4, <1>5, SizesPositive

\* How many blocks a container holds, and what follows them, when it was cut.
LEMMA BlocksOf ==
  ASSUME NEW d \in Nat, NEW b \in Nat, NEW l \in 0..(BlockSize - 1),
         d = HeaderSize + b * BlockSize + l
  PROVE  Blocks(d) = b /\ Rest(d) = l
<1>1. b * BlockSize \in Nat
  BY SizesPositive, Scaled
<1>2. ~(d < HeaderSize) /\ d - HeaderSize = b * BlockSize + l
  BY <1>1, SizesPositive
<1>3. (b * BlockSize + l) \div BlockSize = b /\ (b * BlockSize + l) % BlockSize = l
  BY SizesPositive, Unique
<1> QED BY <1>2, <1>3 DEF Blocks, Rest

\* The place in the plaintext, in the block that holds it.
LEMMA InBlock ==
  ASSUME NEW s \in Nat
  PROVE  /\ s \div BlockData \in Nat /\ Intra(s) \in 0..(BlockData - 1)
         /\ (s \div BlockData) * BlockData + Intra(s) = s
         /\ (s \div BlockData) * BlockData \in Nat
<1>1. s \div BlockData \in Nat /\ s % BlockData \in 0..(BlockData - 1)
      /\ s = BlockData * (s \div BlockData) + (s % BlockData)
  BY SizesPositive, Division
<1>2. (s \div BlockData) * BlockData = BlockData * (s \div BlockData)
      /\ (s \div BlockData) * BlockData \in Nat
  BY <1>1, SizesPositive, Z3
<1> QED BY <1>1, <1>2 DEF Intra

\* The document of the part that is streamed, and its grid, stay.
LEMMA SamePart ==
  ASSUME UNCHANGED request, part' = part, skip' = skip
  PROVE  /\ From' = From /\ FirstIdx' = FirstIdx /\ Chunks' = Chunks
         /\ \A i : Edge(i)' = Edge(i)
         /\ \A j : Doc(j)' = Doc(j)
         /\ docSize'[part'] = docSize[part] /\ content'[part'] = content[part]
         /\ \A b : Lost(b)' = Lost(b)
         /\ Place' = (/\ result' \in Results /\ stream' \in {"open", "closed"}
                      /\ part \in Parts /\ start < Base(part + 1)
                      /\ skip \in Nat /\ skip < Sizes[part])
<1>1. Sizes' = Sizes /\ Parts' = Parts /\ (\A p : Base(p)' = Base(p)) /\ (\A p : Sealed(p)' = Sealed(p))
      /\ (\A p : Clipped(p)' = Clipped(p))
  BY SameRequest
<1>2. docSize' = docSize /\ content' = content /\ start' = start
  BY DEF request
<1>3. From' = From
  BY <1>1 DEF From
<1>4. FirstIdx' = FirstIdx
  BY <1>3 DEF FirstIdx
<1>5. Chunks' = Chunks
  BY <1>2, <1>4 DEF Chunks
<1>6. \A i : Edge(i)' = Edge(i)
  BY <1>4 DEF Edge
<1>7. \A j : Doc(j)' = Doc(j)
  BY <1>2 DEF Doc
<1>8. \A b : Lost(b)' = Lost(b)
  BY <1>1, <1>2 DEF Lost
<1>9. Place' = (/\ result' \in Results /\ stream' \in {"open", "closed"}
                /\ part \in Parts /\ start < Base(part + 1)
                /\ skip \in Nat /\ skip < Sizes[part])
  BY <1>1, <1>2 DEF Place, Results
<1> QED BY <1>2, <1>3, <1>4, <1>5, <1>6, <1>7, <1>8, <1>9

-----------------------------------------------------------------------------
(* The steps of the workers *)

\* What the decryptor holds, and where the client stands, stay.
LEMMA SamePlace ==
  ASSUME UNCHANGED request, UNCHANGED place, nextIdx' = nextIdx, held' = held, block' = block
  PROVE  Pos' = Pos /\ Here' = Here /\ Holding' = Holding
<1>1. part' = part /\ skip' = skip /\ stream' = stream /\ docSize' = docSize
  BY DEF place, request
<1>2. Pos' = Pos
  BY <1>1, SamePart DEF Pos
<1>3. Plain' = Plain /\ First' = First
  BY <1>1 DEF Plain, First
<1>4. Here' = Here
  BY <1>1, <1>2, <1>3, SameRequest DEF Here
<1>5. Holding' = Holding
  BY <1>1, <1>2, <1>3, SamePart, SameRequest DEF Holding
<1> QED BY <1>2, <1>4, <1>5

\* A step that neither hands out nor sends.
LEMMA BesideServes ==
  ASSUME Serving, UNCHANGED <<request, out, place, nextIdx, held, block>>,
         result' \in {result, "gone"} \/ (result' = "err" /\ faults' > 0),
         faults <= faults', Blame', Merging' => Merging /\ InDocument' /\ Accounted'
  PROVE  Serving'
<1>1. UNCHANGED request /\ UNCHANGED place /\ out' = out
      /\ part' = part /\ skip' = skip /\ stream' = stream /\ start' = start /\ len' = len
  BY DEF place, request
<1>2. Request' /\ Place' /\ result' \in Results
  <2>1. Request' = Request
    BY <1>1, SameRequest
  <2>2. result' \in Results
    BY DEF Serving, Place, Results
  <2> QED BY <1>1, <2>1, <2>2, SamePart DEF Serving, Place
<1>3. Sent'
  <2>1. result' = "none" => result = "none"
    OBVIOUS
  <2>2. Aligned' = Aligned
    BY <1>1, SamePlace, SamePart, SameRequest DEF Aligned
  <2>3. RangeExact' = RangeExact
    BY <1>1, SameRequest DEF RangeExact
  <2> QED BY <1>1, <2>1, <2>2, <2>3 DEF Serving, Sent
<1>4. NeverShort'
  <2>1. (\E p \in Parts : Clipped(p))' = (\E p \in Parts : Clipped(p))
    BY <1>1, SameRequest
  <2>2. faults \in Nat /\ faults' \in Nat
    BY DEF Serving, Blame
  <2> QED BY <2>1, <2>2 DEF Serving, NeverShort
<1>5. Merging' => (Sealed(part) => Holding)'
  BY <1>1, SamePlace, SameRequest DEF Serving
<1> QED BY <1>2, <1>3, <1>4, <1>5 DEF Serving

\* A step of a worker, or of Telegram, beside the merger.
Beside ==
  /\ UNCHANGED <<request, out, place, result, pending, nextIdx, discard, held, block>>

LEMMA SameDocument ==
  ASSUME Beside, InDocument,
         \A w \in Workers : Fetching(w)' => idx'[w] < Chunks,
         \A k \in 1..Len(queue') : queue'[k].idx < Chunks
  PROVE  InDocument'
<1>1. UNCHANGED request /\ UNCHANGED place /\ part' = part /\ skip' = skip
      /\ pending' = pending /\ nextIdx' = nextIdx /\ discard' = discard
  BY DEF Beside, place
<1>2. Sizes' = Sizes /\ Sealed(part)' = Sealed(part)
  BY <1>1, SameRequest
<1> QED BY <1>1, <1>2, SamePart DEF InDocument

\* The counter is taken, and the worker has the chunk, if there is one.
States == {"take", "read", "rpc", "mark", "refetch", "store", "send", "fail", "done"}

LEMMA WorkerTypes ==
  ASSUME Handling
  PROVE  /\ worker \in [Workers -> States] /\ idx \in [Workers -> Nat]
         /\ next \in Nat /\ nextIdx \in Nat /\ pending \subseteq Nat /\ queue \in Seq(Messages)
BY DEF Handling, ChunkTypes, States

LEMMA TakeServes ==
  ASSUME Handling, Serving, NEW u \in Workers, Take(u)
  PROVE  Serving'
<1>1. /\ worker[u] = "take" /\ next' = next + 1 /\ UNCHANGED <<queue, faults>>
      /\ \/ next < Chunks /\ worker' = [worker EXCEPT ![u] = "read"] /\ idx' = [idx EXCEPT ![u] = next]
         \/ ~(next < Chunks) /\ worker' = [worker EXCEPT ![u] = "done"] /\ idx' = idx
  BY DEF Take, Go, trouble
<1>2. Beside /\ UNCHANGED <<request, out, place, nextIdx, held, block>> /\ (Merging' => Merging)
  BY DEF Take, Beside, merger, crypt, Merging, place
<1>3. next \in Nat /\ nextIdx \in Nat /\ worker \in [Workers -> States] /\ idx \in [Workers -> Nat]
  BY WorkerTypes
<1>4. \A w \in Workers : w # u => worker'[w] = worker[w] /\ idx'[w] = idx[w]
  BY <1>1, <1>3
<1>5. \/ next < Chunks /\ worker'[u] = "read" /\ idx'[u] = next
      \/ ~(next < Chunks) /\ worker'[u] = "done"
  BY <1>1, <1>3
<1>6. Blame'
  <2>1. \A w \in Workers : worker'[w] = "fail" => worker[w] = "fail"
    BY <1>4, <1>5
  <2>2. Parts' = Parts /\ (\A p : Stored(p)' = Stored(p)) /\ docSize' = docSize /\ content' = content
    BY <1>2, SameRequest DEF request
  <2> QED BY <1>1, <2>1, <2>2 DEF Serving, Blame
<1>7. ASSUME Merging' PROVE InDocument' /\ Accounted'
  <2>1. Merging /\ InDocument /\ Accounted
    BY <1>2, <1>7 DEF Serving
  <2>2. InDocument'
    <3>1. \A w \in Workers : Fetching(w)' => idx'[w] < Chunks
      BY <1>4, <1>5, <2>1 DEF InDocument, Fetching
    <3> QED BY <1>1, <1>2, <2>1, <3>1, SameDocument DEF InDocument
  <2>3. Chunks' = Chunks /\ Chunks \in Nat
    <3>1. skip \in Nat /\ docSize[part] \in Nat /\ From < docSize[part]
      BY <2>1 DEF Serving, Place, Request, InDocument
    <3> QED BY <1>2, <3>1, Grid, SamePart DEF place
  <2>4. Accounted'
    <3> SUFFICES ASSUME faults = 0 PROVE
           /\ \A i \in nextIdx..next : i < Chunks =>
                 \/ \E w \in Workers : Fetching(w)' /\ idx'[w] = i
                 \/ \E k \in 1..Len(queue) : queue[k].idx = i
                 \/ i \in pending
           /\ next + 1 >= Chunks \/ \E w \in Workers : worker'[w] # "done"
      <4>1. nextIdx' = nextIdx /\ pending' = pending /\ queue' = queue /\ faults' = faults
            /\ next' - 1 = next /\ next' = next + 1
        BY <1>1, <1>2, <1>3 DEF Beside
      <4> QED BY <4>1, <2>3 DEF Accounted
    <3>1. ASSUME NEW i \in nextIdx..next, i < Chunks
          PROVE  \/ \E w \in Workers : Fetching(w)' /\ idx'[w] = i
                 \/ \E k \in 1..Len(queue) : queue[k].idx = i
                 \/ i \in pending
      <4>1. CASE i = next
        BY <1>5, <3>1, <4>1 DEF Fetching
      <4>2. CASE i \in nextIdx..(next - 1)
        <5>1. CASE \E w \in Workers : Fetching(w) /\ idx[w] = i
          <6>1. PICK w \in Workers : Fetching(w) /\ idx[w] = i
            BY <5>1
          <6>2. w # u
            BY <1>1, <6>1 DEF Fetching
          <6> QED BY <1>4, <6>1, <6>2 DEF Fetching
        <5> QED BY <2>1, <3>1, <4>2, <5>1 DEF Accounted
      <4> QED BY <1>3, <3>1, <4>1, <4>2
    <3>2. next + 1 >= Chunks \/ \E w \in Workers : worker'[w] # "done"
      BY <1>3, <1>5, <2>3
    <3> QED BY <3>1, <3>2
  <2> QED BY <2>2, <2>4
<1>8. faults <= faults' /\ result' = result
  BY <1>1, <1>2 DEF Serving, Blame, Beside
<1> QED BY <1>2, <1>6, <1>7, <1>8, BesideServes

\* While the merger works, the part is there: its chunks are counted.
LEMMA ChunksCounted ==
  ASSUME Serving, Merging
  PROVE  From < docSize[part] /\ docSize[part] \in Nat /\ skip \in Nat /\ Chunks \in Nat \ {0}
<1>1. skip \in Nat /\ docSize[part] \in Nat /\ From < docSize[part]
  BY DEF Serving, Place, Request, InDocument
<1> QED BY <1>1, Grid

\* A worker that fetches goes on, or lets its chunk go for a reason.
GoesTo(u, to) ==
  /\ Beside /\ UNCHANGED <<queue, next>>
  /\ worker[u] # "done" /\ worker' = [worker EXCEPT ![u] = to]
  /\ to # "done" => worker[u] # "take" /\ idx' = idx
  /\ idx' = idx \/ idx' = [idx EXCEPT ![u] = 0]
  /\ faults <= faults' /\ faults' \in Nat
  /\ to = "fail" => faults' > 0
  /\ to = "done" => result # "none" \/ faults' > 0

LEMMA FetchServes ==
  ASSUME Handling, Serving, NEW u \in Workers, NEW to \in States \ {"take"}, GoesTo(u, to)
  PROVE  Serving'
<1>1. UNCHANGED <<request, out, place, nextIdx, held, block>> /\ (Merging' => Merging) /\ result' = result
  BY DEF GoesTo, Beside, Merging, place
<1>2. worker \in [Workers -> States] /\ idx \in [Workers -> Nat]
  BY WorkerTypes
<1>3. /\ \A w \in Workers : w # u => worker'[w] = worker[w] /\ idx'[w] = idx[w]
      /\ worker'[u] = to
  BY <1>2 DEF GoesTo
<1>4. \A w \in Workers : Fetching(w)' => Fetching(w) /\ idx'[w] = idx[w]
  BY <1>2, <1>3 DEF GoesTo, Fetching, States
<1>5. Blame'
  <2>1. \A w \in Workers : worker'[w] = "fail" => faults' > 0
    BY <1>3 DEF GoesTo, Serving, Blame
  <2>2. Parts' = Parts /\ (\A p : Stored(p)' = Stored(p)) /\ docSize' = docSize /\ content' = content
    BY <1>1, SameRequest DEF request
  <2> QED BY <2>1, <2>2 DEF GoesTo, Serving, Blame
<1>6. ASSUME Merging' PROVE InDocument' /\ Accounted'
  <2>1. Merging /\ InDocument /\ Accounted
    BY <1>1, <1>6 DEF Serving
  <2>2. InDocument'
    <3>1. \A w \in Workers : Fetching(w)' => idx'[w] < Chunks
      BY <1>4, <2>1 DEF InDocument
    <3> QED BY <2>1, <3>1, SameDocument DEF GoesTo, InDocument
  <2>3. Chunks' = Chunks
    BY <1>1, SamePart DEF place
  <2>4. ASSUME faults' = 0 PROVE Accounted'
    <3>1. faults = 0 /\ to # "done"
      BY <1>6, <2>1, <2>4 DEF GoesTo, Serving, Blame, Merging
    <3>2. \A w \in Workers : Fetching(w) => Fetching(w)' /\ idx'[w] = idx[w]
      BY <1>3, <3>1 DEF GoesTo, Fetching
    <3>3. \E w \in Workers : worker'[w] # "done"
      BY <1>3, <3>1
    <3>4. next' = next /\ nextIdx' = nextIdx /\ queue' = queue /\ pending' = pending
      BY DEF GoesTo, Beside
    <3> QED BY <2>1, <2>3, <3>1, <3>2, <3>3, <3>4 DEF Accounted
  <2>5. faults' # 0 => Accounted'
    BY DEF Accounted
  <2> QED BY <2>2, <2>4, <2>5
<1>7. faults <= faults'
  BY DEF GoesTo
<1> QED BY <1>1, <1>5, <1>6, <1>7, BesideServes

LEMMA SendServes ==
  ASSUME Handling, Serving, NEW u \in Workers, Send(u)
  PROVE  Serving'
<1> DEFINE m == [idx |-> idx[u], ok |-> worker[u] = "send"]
<1>1. /\ worker[u] \in {"send", "fail"} /\ Fetching(u)
      /\ queue' = Append(queue, m)
      /\ worker' = [worker EXCEPT ![u] = "take"]
      /\ idx' = [idx EXCEPT ![u] = 0]
      /\ UNCHANGED <<next, faults>>
  BY DEF Send, Go, Fetching, trouble
<1>2. Beside /\ UNCHANGED <<request, out, place, nextIdx, held, block>> /\ (Merging' => Merging)
      /\ result' = result
  BY DEF Send, Beside, merger, crypt, Merging, place
<1>3. worker \in [Workers -> States] /\ idx \in [Workers -> Nat] /\ queue \in Seq(Messages)
  BY WorkerTypes
<1>4. m \in Messages /\ m.idx = idx[u] /\ (~m.ok => worker[u] = "fail")
  BY <1>1, <1>3 DEF Messages
<1> HIDE DEF m
<1>5. /\ Len(queue) \in Nat /\ Len(queue') = Len(queue) + 1
      /\ \A k \in 1..Len(queue) : queue'[k] = queue[k]
      /\ queue'[Len(queue) + 1] = m
  BY <1>1, <1>3, <1>4, AppendProperties, LenProperties
<1>6. \A k \in 1..Len(queue') : (k \in 1..Len(queue) /\ queue'[k] = queue[k]) \/ queue'[k] = m
  BY <1>5
<1>7. /\ \A w \in Workers : w # u => worker'[w] = worker[w] /\ idx'[w] = idx[w]
      /\ worker'[u] = "take"
  BY <1>1, <1>3
<1>8. Blame'
  <2>1. \A w \in Workers : worker'[w] = "fail" => faults > 0
    BY <1>7 DEF Serving, Blame
  <2>2. \A k \in 1..Len(queue') : ~queue'[k].ok => faults > 0
    BY <1>4, <1>6 DEF Serving, Blame
  <2>3. Parts' = Parts /\ (\A p : Stored(p)' = Stored(p)) /\ docSize' = docSize /\ content' = content
    BY <1>2, SameRequest DEF request
  <2> QED BY <1>1, <2>1, <2>2, <2>3 DEF Serving, Blame
<1>9. ASSUME Merging' PROVE InDocument' /\ Accounted'
  <2>1. Merging /\ InDocument /\ Accounted
    BY <1>2, <1>9 DEF Serving
  <2>2. InDocument'
    <3>1. \A w \in Workers : Fetching(w)' => idx'[w] < Chunks
      BY <1>7, <2>1 DEF InDocument, Fetching
    <3>2. \A k \in 1..Len(queue') : queue'[k].idx < Chunks
      BY <1>1, <1>4, <1>6, <2>1 DEF InDocument
    <3> QED BY <1>2, <2>1, <3>1, <3>2, SameDocument
  <2>3. Chunks' = Chunks
    BY <1>2, SamePart DEF place
  <2>4. \A w \in Workers : Fetching(w) => (w # u /\ Fetching(w)' /\ idx'[w] = idx[w]) \/ w = u
    BY <1>7 DEF Fetching
  <2>5. \A k \in 1..Len(queue) : k \in 1..Len(queue') /\ queue'[k] = queue[k]
    BY <1>5
  <2>6. Len(queue) + 1 \in 1..Len(queue') /\ queue'[Len(queue) + 1].idx = idx[u]
    BY <1>4, <1>5
  <2>7. next' = next /\ nextIdx' = nextIdx /\ pending' = pending /\ faults' = faults
    BY <1>1, <1>2
    DEF Beside
  <2>8. Accounted'
    <3> SUFFICES ASSUME faults = 0
                 PROVE  /\ \A i \in nextIdx..(next - 1) : i < Chunks =>
                              \/ \E w \in Workers : Fetching(w)' /\ idx'[w] = i
                              \/ \E k \in 1..Len(queue') : queue'[k].idx = i
                              \/ i \in pending
                        /\ next >= Chunks \/ \E w \in Workers : worker'[w] # "done"
      BY <2>3, <2>7 DEF Accounted
    <3>1. ASSUME NEW i \in nextIdx..(next - 1), i < Chunks
          PROVE  \/ \E w \in Workers : Fetching(w)' /\ idx'[w] = i
                 \/ \E k \in 1..Len(queue') : queue'[k].idx = i
                 \/ i \in pending
      <4>1. \/ \E w \in Workers : Fetching(w) /\ idx[w] = i
            \/ \E k \in 1..Len(queue) : queue[k].idx = i
            \/ i \in pending
        BY <2>1, <3>1 DEF Accounted
      <4> QED BY <2>4, <2>5, <2>6, <4>1
    <3>2. worker'[u] # "done"
      BY <1>7
    <3> QED BY <3>1, <3>2
  <2> QED BY <2>2, <2>8
<1>10. faults <= faults'
  BY <1>1 DEF Serving, Blame
<1> QED BY <1>2, <1>8, <1>9, <1>10, BesideServes

LEMMA WorkServes ==
  ASSUME Handling, Serving, NEW u \in Workers, Work(u) \/ Dies(u)
  PROVE  Serving'
<1>0. faults \in Nat
  BY DEF Serving, Blame
<1> USE DEF Go, Beside, merger, crypt, place
<1>1. CASE Read(u)
  <2>1. GoesTo(u, "rpc")
    BY <1>0, <1>1 DEF Read, GoesTo, trouble
  <2> QED BY <2>1, FetchServes DEF States
<1>2. CASE FetchFails(u)
  <2>1. GoesTo(u, "fail")
    BY <1>0, <1>2 DEF FetchFails, GoesTo, Fault
  <2> QED BY <2>1, FetchServes DEF States
<1>3. CASE Refetched(u)
  <2>1. GoesTo(u, "store")
    BY <1>0, <1>3 DEF Refetched, GoesTo, trouble
  <2> QED BY <2>1, FetchServes DEF States
<1>4. CASE RefetchFails(u)
  <2>1. GoesTo(u, "read")
    BY <1>0, <1>4 DEF RefetchFails, GoesTo, Fault
  <2> QED BY <2>1, FetchServes DEF States
<1>5. CASE Store(u)
  <2>1. GoesTo(u, "read")
    BY <1>0, <1>5 DEF Store, GoesTo, trouble
  <2> QED BY <2>1, FetchServes DEF States
<1>6. CASE SendRefused(u)
  <2>1. GoesTo(u, "done")
    BY <1>0, <1>6 DEF SendRefused, GoesTo, RxDropped, trouble
  <2> QED BY <2>1, FetchServes DEF States
<1>7. CASE Dies(u)
  <2>1. GoesTo(u, "done")
    BY <1>0, <1>7 DEF Dies, GoesTo, Fault
  <2> QED BY <2>1, FetchServes DEF States
<1>8. CASE Fetched(u)
  <2>1. GoesTo(u, "send") \/ GoesTo(u, "mark")
    BY <1>0, <1>8 DEF Fetched, GoesTo, trouble
  <2> QED BY <2>1, FetchServes DEF States
<1>9. CASE Mark(u)
  <2>1. CASE slot.gen = gen[u]
    <3>1. GoesTo(u, "refetch")
      BY <1>0, <1>9, <2>1 DEF Mark, GoesTo, trouble
    <3> QED BY <3>1, FetchServes DEF States
  <2>2. CASE slot.gen # gen[u]
    <3>1. GoesTo(u, "read")
      BY <1>0, <1>9, <2>2 DEF Mark, GoesTo, trouble
    <3> QED BY <3>1, FetchServes DEF States
  <2> QED BY <2>1, <2>2
<1> QED BY <1>1, <1>2, <1>3, <1>4, <1>5, <1>6, <1>7, <1>8, <1>9, TakeServes, SendServes DEF Work

-----------------------------------------------------------------------------
(* The steps of the merger *)

\* The merger has handed out the document up to NextPos.
LEMMA PosNext ==
  ASSUME UNCHANGED request, UNCHANGED place, nextIdx \in Nat, nextIdx' = nextIdx + 1
  PROVE  Pos' = NextPos
<1>1. nextIdx' # 0 /\ part' = part /\ skip' = skip /\ docSize' = docSize
  BY DEF place, request
<1>2. FirstIdx' = FirstIdx
  BY <1>1, SamePart
<1> QED BY <1>1, <1>2 DEF Pos, NextPos, Edge

\* The header is taken off, and the rest held; only padding is taken for a broken header.
LEMMA PullHolds ==
  ASSUME Serving, Merging, Sealed(part), nextIdx \in Nat, nextIdx < Chunks,
         UNCHANGED request, UNCHANGED place, nextIdx' = nextIdx + 1, Pull(Handed)
  PROVE  /\ out' = out /\ result' \in {"none", "err"}
         /\ result' = "err" => faults > 0
         /\ Holding' /\ Here' = Here
<1> DEFINE all == held \o Handed
<1>1. /\ Holding /\ InDocument /\ Request /\ Place /\ Blame /\ part \in Parts /\ skip \in Nat
      /\ docSize[part] \in Nat /\ content[part] \in Nat /\ result = "none"
  BY DEF Serving, Request, Place, Merging
<1>2. /\ Pos \in Nat /\ NextPos \in Nat /\ Pos < NextPos /\ NextPos <= docSize[part]
      /\ Handed \in Seq(Nat) /\ Len(Handed) = NextPos - Pos
      /\ \A k \in 1..Len(Handed) : Handed[k] = Doc(Pos + k)
  BY <1>1, HandedNext
<1>3. First \in Nat /\ held \in Seq(Nat) /\ Len(held) = Pos - First /\ Len(held) \in Nat
  <2>1. held \in Seq(Nat) /\ Len(held) = Pos - First /\ Len(held) \in Nat
    BY <1>1, LenProperties DEF Holding
  <2>2. block # NoBlock => block * BlockSize \in Nat
    BY <1>1, SizesPositive, Scaled DEF Holding
  <2>3. First \in Nat
    BY <2>2, SizesPositive DEF First
  <2> QED BY <2>1, <2>3
<1>4. /\ all \in Seq(Nat) /\ Len(all) = Len(held) + Len(Handed) /\ Len(all) \in Nat
      /\ \A k \in 1..(Len(held) + Len(Handed)) :
           all[k] = IF k <= Len(held) THEN held[k] ELSE Handed[k - Len(held)]
  BY <1>2, <1>3, ConcatProperties, LenProperties
<1> HIDE DEF all
<1>5. Len(all) = NextPos - First
  BY <1>2, <1>3, <1>4
<1>6. ASSUME NEW k \in 1..Len(all) PROVE all[k] = Doc(First + k)
  <2>1. CASE k <= Len(held)
    <3>1. k \in 1..Len(held) /\ k \in 1..(Len(held) + Len(Handed))
      BY <1>3, <1>4, <2>1
    <3> QED BY <1>1, <1>4, <2>1, <3>1 DEF Holding
  <2>2. CASE ~(k <= Len(held))
    <3>1. k \in 1..(Len(held) + Len(Handed)) /\ k - Len(held) \in 1..Len(Handed)
          /\ Pos + (k - Len(held)) = First + k
      BY <1>2, <1>3, <1>4, <2>2
    <3>2. all[k] = Handed[k - Len(held)]
      BY <1>4, <2>2, <3>1
    <3>3. Handed[k - Len(held)] = Doc(Pos + (k - Len(held)))
      BY <1>2, <3>1
    <3> QED BY <3>1, <3>2, <3>3
  <2> QED BY <2>1, <2>2
<1>7. /\ Pos' = NextPos /\ (\A j : Doc(j)' = Doc(j)) /\ out' = out
      /\ part' = part /\ skip' = skip /\ stream' = stream /\ Sizes' = Sizes
      /\ stream = "open" /\ Sealed(part)' /\ Sealed(part)
  <2>1. Pos' = NextPos
    BY PosNext
  <2>2. part' = part /\ skip' = skip /\ stream' = stream
    BY DEF place
  <2>3. Sealed(part)' = Sealed(part)
    BY <2>2, SameRequest
  <2> QED BY <2>1, <2>2, <2>3, SamePart, SameRequest DEF Pull, Merging
<1>8. CASE block = NoBlock /\ Len(all) >= HeaderSize
  <2>1. /\ held' = SubSeq(all, HeaderSize + 1, Len(all)) /\ block' = 0
        /\ result' = IF \E k \in 1..HeaderSize : all[k] = 0 THEN "err" ELSE "none"
    BY <1>8 DEF Pull, all
  <2>2. First = 0 /\ skip = 0
    BY <1>1, <1>8 DEF First, Holding
  <2>3. First' = HeaderSize /\ 0 # NoBlock /\ 0 * BlockData = 0
    <3>1. 0 * BlockSize = 0 /\ 0 * BlockData = 0
      BY SizesPositive, Z3
    <3> QED BY <2>1, <3>1, SizesPositive DEF First, NoBlock
  <2>4. /\ held' \in Seq(Nat) /\ Len(held') = Len(all) - HeaderSize
        /\ \A k \in 1..(Len(all) - HeaderSize) : held'[k] = all[HeaderSize + k]
    <3> DEFINE lo == HeaderSize + 1
               hi == Len(all)
    <3>1. lo \in Int /\ hi \in Int /\ \A i \in lo..hi : i \in 1..Len(all)
      BY <1>4, SizesPositive
    <3>2. \A i \in lo..hi : all[i] \in Nat
      BY <1>4, <3>1, ElementOfSeq
    <3> HIDE DEF lo, hi
    <3>3. /\ SubSeq(all, lo, hi) \in Seq(Nat)
          /\ Len(SubSeq(all, lo, hi)) = IF lo <= hi THEN hi - lo + 1 ELSE 0
          /\ \A i \in 1..(hi - lo + 1) : SubSeq(all, lo, hi)[i] = all[lo + i - 1]
      BY <3>1, <3>2, SubSeqProperties
    <3>4. /\ hi - lo + 1 = Len(all) - HeaderSize
          /\ (~(lo <= hi) => Len(all) - HeaderSize = 0)
      BY <1>4, <1>8, SizesPositive DEF lo, hi
    <3>5. \A i \in 1..(Len(all) - HeaderSize) : lo + i - 1 = HeaderSize + i
      BY SizesPositive DEF lo
    <3>6. held' = SubSeq(all, lo, hi)
      BY <2>1 DEF lo, hi
    <3>7. ASSUME NEW k \in 1..(Len(all) - HeaderSize) PROVE held'[k] = all[HeaderSize + k]
      BY <3>3, <3>4, <3>5, <3>6
    <3> QED BY <3>3, <3>4, <3>6, <3>7
  <2>5. \A k \in 1..Len(held') : held'[k] = Doc(HeaderSize + k)
    <3> TAKE k \in 1..Len(held')
    <3>1. k \in 1..(Len(all) - HeaderSize) /\ HeaderSize + k \in 1..Len(all)
          /\ First + (HeaderSize + k) = HeaderSize + k
      BY <1>4, <2>2, <2>4, SizesPositive
    <3> QED BY <1>6, <2>4, <3>1
  <2>6. skip \div BlockData = 0 /\ Plain' = skip /\ Plain = skip
    <3>1. 0 \div BlockData = 0
      BY SizesPositive, Z3
    <3> QED BY <1>7, <1>8, <2>1, <2>2, <3>1 DEF Plain
  <2>7. Sizes[part] \in Nat
    BY <1>1, PartsInOrder DEF Request
  <2>8. Holding'
    <3>1. Len(held') = Pos' - First'
      BY <1>2, <1>5, <1>7, <2>2, <2>3, <2>4, SizesPositive
    <3>2. \A k \in 1..Len(held') : held'[k] = Doc(First' + k)
      BY <2>3, <2>5
    <3>3. skip \div BlockData <= block' /\ block' * BlockData <= Sizes[part] /\ block' # NoBlock /\ block' \in Nat
      BY <2>1, <2>3, <2>6, <2>7
    <3> QED BY <1>7, <2>4, <3>1, <3>2, <3>3 DEF Holding
  <2>9. Here' = Here
    BY <1>7, <2>6 DEF Here
  <2>10. ASSUME faults = 0 PROVE result' = "none"
    <3>1. docSize[part] = Stored(part) /\ content[part] = docSize[part]
      BY <1>1, <2>10 DEF Blame
    <3>2. ASSUME NEW k \in 1..HeaderSize PROVE all[k] # 0
      <4>1. k \in 1..Len(all) /\ First + k = k /\ k <= NextPos /\ k # 0
        BY <1>2, <1>4, <1>5, <1>8, <2>2, SizesPositive
      <4>2. all[k] = Doc(k)
        BY <1>6, <4>1
      <4>3. k <= content[part]
        BY <1>1, <1>2, <3>1, <4>1
      <4> QED BY <4>1, <4>2, <4>3 DEF Doc
    <3> QED BY <2>1, <3>2
  <2>11. faults \in Nat
    BY <1>1 DEF Blame
  <2> QED BY <1>7, <2>1, <2>8, <2>9, <2>10, <2>11
<1>9. CASE ~(block = NoBlock /\ Len(all) >= HeaderSize)
  <2>1. held' = all /\ block' = block /\ result' = result
    BY <1>9 DEF Pull, all
  <2>2. First' = First /\ Plain' = Plain
    BY <1>7, <2>1 DEF First, Plain
  <2>3. \A k \in 1..Len(held') : held'[k] = Doc(First + k)
    BY <1>6, <2>1
  <2>4. block = NoBlock => skip = 0 /\ Len(held') < HeaderSize
    BY <1>1, <1>4, <1>9, <2>1, SizesPositive DEF Holding
  <2>5. Holding'
    BY <1>1, <1>4, <1>5, <1>7, <2>1, <2>2, <2>3, <2>4 DEF Holding
  <2>6. Here' = Here
    BY <1>7, <2>2 DEF Here
  <2> QED BY <1>1, <1>7, <2>1, <2>5, <2>6
<1> QED BY <1>8, <1>9

\* What the merger hands out of a part in plaintext goes to the client.
LEMMA PlainEmits ==
  ASSUME Serving, Merging, ~Sealed(part), nextIdx \in Nat, nextIdx < Chunks,
         UNCHANGED request, UNCHANGED place, nextIdx' = nextIdx + 1, UNCHANGED crypt,
         Emit([k \in 1..Len(Handed) |-> IF Handed[k] = 0 THEN 0 ELSE Base(part) + Handed[k]], "none")
  PROVE  Sent' /\ result' \in {"none", "ok"}
<1> DEFINE bytes == [k \in 1..Len(Handed) |-> IF Handed[k] = 0 THEN 0 ELSE Base(part) + Handed[k]]
<1>1. /\ InDocument /\ Request /\ Place /\ Sent /\ part \in Parts /\ skip \in Nat /\ file \in Files
      /\ docSize[part] \in Nat /\ content[part] \in Nat /\ result = "none" /\ stream = "open"
      /\ docSize[part] = Sizes[part] /\ len \in Nat /\ start \in Nat
  BY DEF Serving, Request, Place, Merging, InDocument
<1>2. /\ Pos \in Nat /\ NextPos \in Nat /\ Pos < NextPos /\ NextPos <= docSize[part]
      /\ Handed \in Seq(Nat) /\ Len(Handed) = NextPos - Pos
      /\ \A k \in 1..Len(Handed) : Handed[k] = Doc(Pos + k)
  BY <1>1, HandedNext
<1>3. Base(part) \in Nat
  BY <1>1, PartsInOrder
<1>4. bytes \in Seq(Nat) /\ Len(bytes) = Len(Handed)
  <2>1. Len(Handed) \in Nat /\ \A k \in 1..Len(Handed) : Handed[k] \in Nat
    BY <1>2, ElementOfSeq, LenProperties
  <2>2. \A k \in 1..Len(Handed) : (IF Handed[k] = 0 THEN 0 ELSE Base(part) + Handed[k]) \in Nat
    BY <1>3, <2>1
  <2>3. bytes \in Seq(Nat) /\ DOMAIN bytes = 1..Len(Handed)
    BY <2>1, <2>2, IsASeq
  <2> QED BY <2>1, <2>3, LenProperties
<1>5. Here = Pos
  BY <1>1 DEF Here
<1>6. GoesOn(bytes)
  <2>1. Pos + Len(bytes) <= Sizes[part]
    BY <1>1, <1>2, <1>4
  <2>2. ASSUME NEW k \in 1..Len(bytes)
        PROVE  bytes[k] = IF Sealed(part) \/ Pos + k <= content[part] THEN Base(part) + (Pos + k) ELSE 0
    <3>1. k \in 1..Len(Handed) /\ Handed[k] = Doc(Pos + k) /\ Pos + k # 0
      BY <1>2, <1>4
    <3>2. bytes[k] = IF Handed[k] = 0 THEN 0 ELSE Base(part) + Handed[k]
      BY <3>1
    <3> HIDE DEF bytes
    <3> QED BY <3>1, <3>2 DEF Doc
  <2> HIDE DEF bytes
  <2> QED BY <1>4, <1>5, <2>1, <2>2 DEF GoesOn
<1>7. Emit(bytes, "none")
  OBVIOUS
<1> HIDE DEF bytes
<1>8. /\ out' \in Seq(Nat) /\ RangeExact'
      /\ ~(Len(out') < len) => result' = "ok"
      /\ Len(out') < len =>
           /\ result' = "none"
           /\ \/ start + Len(out') = Base(part) + (Here + Len(bytes))
              \/ Lost(start + Len(out'))
  BY <1>1, <1>2, <1>5, <1>6, <1>7, EmitExact
<1>9. /\ Pos' = NextPos /\ part' = part /\ stream' = stream /\ len' = len /\ start' = start
      /\ Base(part)' = Base(part) /\ Sealed(part)' = Sealed(part)
      /\ \A b : Lost(b)' = Lost(b)
  <2>1. part' = part /\ skip' = skip /\ stream' = stream /\ len' = len /\ start' = start
    BY DEF place, request
  <2> QED BY <2>1, PosNext, SamePart, SameRequest
<1>10. Here' = Here + Len(bytes)
  <2>1. Here' = NextPos
    BY <1>1, <1>9 DEF Here
  <2> QED BY <1>2, <1>4, <1>5, <2>1
<1>11. ASSUME Len(out') < len PROVE Aligned'
  BY <1>8, <1>9, <1>10, <1>11 DEF Aligned
<1>12. result' = "none" => Len(out') < len
  BY <1>8
<1> QED BY <1>8, <1>9, <1>11, <1>12 DEF Sent

\* One more chunk is handed out.
LEMMA HandOutServes ==
  ASSUME Handling, Serving, Merging, nextIdx < Chunks, HandOut(nextIdx),
         UNCHANGED request, UNCHANGED place, faults' = faults, Blame',
         Accounted',
         \A w \in Workers : Fetching(w)' => idx'[w] < Chunks,
         \A k \in 1..Len(queue') : queue'[k].idx < Chunks,
         \A i \in pending' : i < Chunks
  PROVE  Serving'
<1>1. /\ InDocument /\ Request /\ Place /\ Sent /\ part \in Parts /\ skip \in Nat
      /\ docSize[part] \in Nat /\ content[part] \in Nat /\ result = "none" /\ nextIdx \in Nat
      /\ (Sealed(part) => Holding)
  BY WorkerTypes DEF Serving, Request, Place, Merging
<1>2. Least(discard, Len(ChunkBytes(nextIdx))) = discard
  BY <1>1, HandedNext
<1>3. nextIdx' = nextIdx + 1 /\ discard' = discard - discard
  BY <1>2 DEF HandOut
<1>4. From < docSize[part] /\ docSize[part] \in Nat /\ skip \in Nat /\ Chunks \in Nat \ {0}
  BY ChunksCounted
<1>5. /\ From' = From /\ Chunks' = Chunks /\ docSize' = docSize /\ content' = content
      /\ part' = part /\ skip' = skip /\ stream' = stream
      /\ FirstIdx' = FirstIdx
      /\ Sizes' = Sizes /\ Sealed(part)' = Sealed(part)
  <2>1. part' = part /\ skip' = skip /\ stream' = stream
    BY DEF place
  <2> QED BY <2>1, SamePart, SameRequest DEF request
<1>6. discard' = 0
  <2>1. discard \in Int
    <3>1. From \in Nat /\ FirstIdx * Chunk \in Nat
      BY <1>4, Grid
    <3> QED BY <1>1, <3>1 DEF InDocument
  <2> QED BY <1>3, <2>1
<1>7. InDocument'
  <2>1. nextIdx' <= Chunks /\ nextIdx' # 0
    BY <1>1, <1>3, <1>4
  <2> QED BY <1>1, <1>5, <1>6, <2>1 DEF InDocument
<1>8. Request' /\ (result' \in Results => Place')
  BY <1>1, <1>5, SamePart, SameRequest DEF Place
<1>9. CASE Sealed(part)
  <2>1. Pull(Handed)
    BY <1>9 DEF HandOut, Handed
  <2>2. /\ out' = out /\ result' \in {"none", "err"}
        /\ result' = "err" => faults > 0
        /\ Holding' /\ Here' = Here
    BY <1>1, <1>3, <1>9, <2>1, PullHolds
  <2>3. Sent'
    <3>1. len' = len /\ start' = start /\ Base(part)' = Base(part) /\ \A b : Lost(b)' = Lost(b)
      BY <1>5, SamePart, SameRequest DEF request
    <3>2. RangeExact' = RangeExact
      BY <2>2, SameRequest DEF RangeExact, request
    <3>3. Aligned' = Aligned
      BY <1>5, <2>2, <3>1 DEF Aligned
    <3> QED BY <1>1, <2>2, <3>1, <3>2, <3>3 DEF Sent
  <2>4. NeverShort'
    BY <2>2 DEF NeverShort
  <2>5. Place'
    BY <1>8, <2>2 DEF Results
  <2> QED BY <1>7, <1>8, <2>2, <2>3, <2>4, <2>5 DEF Serving
<1>10. CASE ~Sealed(part)
  <2>1. /\ Emit([k \in 1..Len(Handed) |-> IF Handed[k] = 0 THEN 0 ELSE Base(part) + Handed[k]], "none")
        /\ UNCHANGED crypt
    BY <1>10 DEF HandOut, Handed
  <2>2. Sent' /\ result' \in {"none", "ok"}
    BY <1>1, <1>3, <1>10, <2>1, PlainEmits
  <2>3. NeverShort'
    BY <2>2 DEF NeverShort
  <2>4. Place'
    BY <1>8, <2>2 DEF Results
  <2>5. ~Sealed(part)'
    BY <1>5, <1>10
  <2> QED BY <1>7, <1>8, <2>2, <2>3, <2>4, <2>5 DEF Serving
<1> QED BY <1>9, <1>10

LEMMA HandOutPendingServes ==
  ASSUME Handling, Serving, HandOutPending
  PROVE  Serving'
<1>1. /\ Merging /\ nextIdx \in pending /\ HandOut(nextIdx) /\ pending' = pending \ {nextIdx}
      /\ UNCHANGED request /\ UNCHANGED place /\ part' = part /\ skip' = skip
      /\ UNCHANGED <<next, queue, worker, idx, faults>>
      /\ nextIdx' = nextIdx + 1
  BY DEF HandOutPending, HandOut, place, trouble
<1>2. InDocument /\ Accounted /\ nextIdx < Chunks /\ nextIdx \in Nat /\ next \in Nat
  BY <1>1, WorkerTypes DEF Serving, InDocument
<1>3. Blame'
  <2>1. Parts' = Parts /\ (\A p : Stored(p)' = Stored(p)) /\ docSize' = docSize /\ content' = content
    BY <1>1, SameRequest DEF request
  <2> QED BY <1>1, <2>1 DEF Serving, Blame
<1>4. Accounted'
  <2>1. Chunks' = Chunks
    BY <1>1, SamePart
  <2>2. \A i \in (nextIdx + 1)..(next - 1) : i \in nextIdx..(next - 1) /\ i # nextIdx
    BY <1>2
  <2> QED BY <1>1, <1>2, <2>1, <2>2 DEF Accounted, Fetching
<1>5. \A w \in Workers : Fetching(w)' => idx'[w] < Chunks
  BY <1>1, <1>2 DEF InDocument, Fetching
<1> QED BY <1>1, <1>2, <1>3, <1>4, <1>5, HandOutServes DEF InDocument

LEMMA RecvServes ==
  ASSUME Handling, Serving, Recv
  PROVE  Serving'
<1> DEFINE h == Head(queue).idx
<1>1. /\ Merging /\ nextIdx \notin pending /\ queue # <<>> /\ queue' = Tail(queue)
      /\ UNCHANGED request /\ UNCHANGED place /\ part' = part /\ skip' = skip
      /\ UNCHANGED <<next, worker, idx, faults>>
      /\ \/ h = nextIdx /\ HandOut(nextIdx) /\ nextIdx' = nextIdx + 1 /\ pending' = pending
         \/ /\ h # nextIdx /\ pending' = pending \union {h}
            /\ UNCHANGED <<out, nextIdx, discard, held, block, result>>
  BY DEF Recv, HandOut, place, trouble, crypt
<1>2. InDocument /\ Accounted /\ nextIdx \in Nat /\ next \in Nat /\ queue \in Seq(Messages)
  BY <1>1, WorkerTypes DEF Serving
<1>3. /\ Len(queue) \in Nat \ {0} /\ Len(queue') = Len(queue) - 1
      /\ h = queue[1].idx
      /\ \A k \in 1..Len(queue') : k + 1 \in 1..Len(queue) /\ queue'[k] = queue[k + 1]
  BY <1>1, <1>2, Received
<1> HIDE DEF h
<1>4. h < Chunks
  <2>1. 1 \in 1..Len(queue)
    BY <1>3
  <2> QED BY <1>2, <1>3, <2>1 DEF InDocument
<1>5. \A i : (\E k \in 1..Len(queue) : queue[k].idx = i) =>
               i = h \/ \E k \in 1..Len(queue') : queue'[k].idx = i
  <2> SUFFICES ASSUME NEW k \in 1..Len(queue), k # 1 PROVE \E j \in 1..Len(queue') : queue'[j] = queue[k]
    BY <1>3
  <2>1. k - 1 \in 1..Len(queue') /\ (k - 1) + 1 = k
    BY <1>3
  <2> QED BY <1>3, <2>1
<1>6. Blame'
  <2>1. Parts' = Parts /\ (\A p : Stored(p)' = Stored(p)) /\ docSize' = docSize /\ content' = content
    BY <1>1, SameRequest DEF request
  <2>2. \A k \in 1..Len(queue') : ~queue'[k].ok => faults > 0
    BY <1>3 DEF Serving, Blame
  <2> QED BY <1>1, <2>1, <2>2 DEF Serving, Blame
<1>7. Chunks' = Chunks
  BY <1>1, SamePart
<1>8. \A w \in Workers : (Fetching(w)' <=> Fetching(w)) /\ idx'[w] = idx[w] /\ worker'[w] = worker[w]
  BY <1>1 DEF Fetching
<1>9. /\ \A w \in Workers : Fetching(w)' => idx'[w] < Chunks
      /\ \A k \in 1..Len(queue') : queue'[k].idx < Chunks
      /\ \A i \in pending' : i < Chunks
  BY <1>1, <1>2, <1>3, <1>4, <1>8 DEF InDocument
<1>10. Accounted'
  <2> SUFFICES ASSUME faults = 0
               PROVE  /\ \A i \in nextIdx'..(next - 1) : i < Chunks =>
                            \/ \E w \in Workers : Fetching(w)' /\ idx'[w] = i
                            \/ \E k \in 1..Len(queue') : queue'[k].idx = i
                            \/ i \in pending'
                      /\ next >= Chunks \/ \E w \in Workers : worker'[w] # "done"
    BY <1>1, <1>7 DEF Accounted
  <2>1. ASSUME NEW i \in nextIdx'..(next - 1), i < Chunks
        PROVE  \/ \E w \in Workers : Fetching(w)' /\ idx'[w] = i
               \/ \E k \in 1..Len(queue') : queue'[k].idx = i
               \/ i \in pending'
    <3>1. i \in nextIdx..(next - 1) /\ (h = nextIdx => i # h)
      BY <1>1, <1>2, <2>1
    <3>2. \/ \E w \in Workers : Fetching(w) /\ idx[w] = i
          \/ \E k \in 1..Len(queue) : queue[k].idx = i
          \/ i \in pending
      BY <1>2, <2>1, <3>1 DEF Accounted
    <3> QED BY <1>1, <1>5, <1>8, <3>1, <3>2
  <2>2. next >= Chunks \/ \E w \in Workers : worker'[w] # "done"
    BY <1>2, <1>8 DEF Accounted
  <2> QED BY <2>1, <2>2
<1>11. CASE h = nextIdx
  BY <1>1, <1>4, <1>6, <1>9, <1>10, <1>11, HandOutServes
<1>12. CASE h # nextIdx
  <2>1. /\ UNCHANGED <<request, out, place, nextIdx, held, block>> /\ result' = result
        /\ discard' = discard
    BY <1>1, <1>12
  <2>2. InDocument'
    <3>1. From' = From /\ Chunks' = Chunks /\ docSize'[part'] = docSize[part] /\ FirstIdx' = FirstIdx
      BY <1>1, SamePart
    <3>2. Sizes' = Sizes /\ Sealed(part)' = Sealed(part)
      BY <1>1, SameRequest
    <3> QED BY <1>1, <1>2, <1>9, <2>1, <3>1, <3>2 DEF InDocument
  <2>3. faults <= faults'
    BY <1>1 DEF Serving, Blame
  <2> QED BY <1>1, <1>6, <1>10, <2>1, <2>2, <2>3, BesideServes
<1> QED BY <1>11, <1>12

LEMMA RecvErrorServes ==
  ASSUME Handling, Serving, RecvError
  PROVE  Serving'
<1>1. /\ Merging /\ queue # <<>> /\ queue' = Tail(queue) /\ ~Head(queue).ok
      /\ UNCHANGED request /\ UNCHANGED <<request, out, place, nextIdx, held, block>>
      /\ result' = "err" /\ UNCHANGED <<worker, faults>>
  BY DEF RecvError, merger, crypt, trouble
<1>2. queue \in Seq(Messages)
  BY WorkerTypes
<1>3. /\ Len(queue) \in Nat \ {0} /\ Head(queue) = queue[1]
      /\ \A k \in 1..Len(queue') : k + 1 \in 1..Len(queue) /\ queue'[k] = queue[k + 1]
  BY <1>1, <1>2, Received
<1>4. faults > 0 /\ faults \in Nat
  <2>1. 1 \in 1..Len(queue)
    BY <1>3
  <2> QED BY <1>1, <1>3, <2>1 DEF Serving, Blame
<1>5. Blame'
  <2>1. Parts' = Parts /\ (\A p : Stored(p)' = Stored(p)) /\ docSize' = docSize /\ content' = content
    BY <1>1, SameRequest DEF request
  <2> QED BY <1>1, <1>4, <2>1 DEF Serving, Blame
<1>6. ~Merging'
  BY <1>1 DEF Merging
<1> QED BY <1>1, <1>4, <1>5, <1>6, BesideServes

\* A part whose document is whole is longer than the place it is read from.
LEMMA WholeIsLonger ==
  ASSUME Request, part \in Parts, skip \in Nat, skip < Sizes[part], docSize[part] = Stored(part)
  PROVE  From < docSize[part]
<1>1. Sizes[part] \in Nat \ {0}
  BY PartsInOrder DEF Request
<1>2. CASE ~Sealed(part)
  BY <1>2 DEF Stored, From
<1>3. CASE Sealed(part) /\ skip = 0
  <2>1. EncryptedSize(Sizes[part]) \in Nat /\ HeaderSize < EncryptedSize(Sizes[part])
    BY <1>1, LongerThanHeader
  <2> QED BY <1>3, <2>1, SizesPositive DEF Stored, From
<1>4. CASE Sealed(part) /\ skip > 0
  <2> DEFINE n == Sizes[part]
  <2>1. n \in Nat /\ skip \in 0..(n - 1)
    BY <1>1
  <2> HIDE DEF n
  <2>2. /\ Intra(skip) \in 0..(BlockData - 1)
        /\ BlockStart(skip) >= HeaderSize
        /\ BlockStart(skip) + BlockTag + Intra(skip) < EncryptedSize(n)
    BY <2>1, RangeStartsInside
  <2>3. BlockStart(skip) \in Nat /\ EncryptedSize(n) \in Nat
    <3>1. From \in Nat
      BY FromNat
    <3> QED BY <1>1, <1>4, <3>1, LongerThanHeader DEF From, n
  <2>4. BlockStart(skip) < EncryptedSize(n)
    BY <2>2, <2>3, SizesPositive
  <2> QED BY <1>4, <2>4 DEF Stored, From, n
<1> QED BY <1>2, <1>3, <1>4

\* The steps that end the body, and those of Telegram.
LEMMA EndingServes ==
  ASSUME Handling, Serving, OpenFails \/ OpenBeyond \/ ReaderGone \/ Expire
  PROVE  Serving'
<1>1. /\ UNCHANGED request /\ UNCHANGED <<request, out, place, nextIdx, held, block>>
      /\ UNCHANGED <<worker, queue, next, pending, idx, discard>>
  BY DEF OpenFails, OpenBeyond, ReaderGone, Expire, merger, crypt
<1>2. faults \in Nat
  BY DEF Serving, Blame
<1>3. faults' \in Nat /\ faults <= faults' /\ (Expire => result' = result /\ faults' > 0)
  BY <1>2 DEF OpenFails, OpenBeyond, ReaderGone, Expire, trouble, Fault
<1>4. Blame'
  <2>1. Parts' = Parts /\ (\A p : Stored(p)' = Stored(p)) /\ docSize' = docSize /\ content' = content
    BY <1>1, SameRequest DEF request
  <2> QED BY <1>1, <1>2, <1>3, <2>1 DEF Serving, Blame
<1>5. CASE OpenFails
  BY <1>1, <1>2, <1>3, <1>4, <1>5, BesideServes DEF OpenFails, Fault, Merging
<1>6. CASE OpenBeyond
  <2>1. result' = "err" /\ faults' = faults /\ docSize[part] <= From
    BY <1>6 DEF OpenBeyond, trouble
  <2>2. faults # 0
    <3> SUFFICES ASSUME faults = 0 PROVE FALSE
      OBVIOUS
    <3>1. docSize[part] = Stored(part) /\ docSize[part] \in Nat
      BY DEF Serving, Blame, Place, Request
    <3>2. From < docSize[part] /\ From \in Nat
      BY <3>1, WholeIsLonger, FromNat DEF Serving, Place
    <3> QED BY <2>1, <3>1, <3>2
  <2>3. ~Merging'
    BY <2>1 DEF Merging
  <2> QED BY <1>1, <1>2, <1>3, <1>4, <2>1, <2>2, <2>3, BesideServes
<1>7. CASE ReaderGone
  <2>1. result' = "gone" /\ ~Merging'
    BY <1>7 DEF ReaderGone, Merging
  <2> QED BY <1>1, <1>3, <1>4, <2>1, BesideServes
<1>8. CASE Expire
  <2>1. result' = result /\ faults' # 0
    BY <1>3, <1>8
  <2>2. Merging' => Merging
    BY <1>1, <2>1 DEF Merging, place
  <2>3. ASSUME Merging' PROVE InDocument' /\ Accounted'
    <3>1. InDocument
      BY <2>2, <2>3 DEF Serving
    <3>2. Beside
      BY <1>1, <2>1 DEF Beside
    <3>3. (\A w \in Workers : Fetching(w)' => idx'[w] < Chunks) /\ \A k \in 1..Len(queue') : queue'[k].idx < Chunks
      BY <1>1, <3>1 DEF InDocument, Fetching
    <3> QED BY <2>1, <3>1, <3>2, <3>3, SameDocument DEF Accounted
  <2> QED BY <1>1, <1>3, <1>4, <2>1, <2>2, <2>3, BesideServes
<1> QED BY <1>5, <1>6, <1>7, <1>8

-----------------------------------------------------------------------------
(* A part begins *)

\* A finite set has a subset of every smaller size.
LEMMA SubsetOfSize ==
  ASSUME NEW W, IsFiniteSet(W), NEW n \in Nat, n <= Cardinality(W)
  PROVE  \E T \in SUBSET W : Cardinality(T) = n
<1> DEFINE S == {k \in Nat : k <= Cardinality(W) => \E T \in SUBSET W : Cardinality(T) = k}
<1>0. Cardinality(W) \in Nat
  BY FS_CardinalityType
<1>1. 0 \in S
  <2>1. {} \in SUBSET W /\ Cardinality({}) = 0
    BY FS_EmptySet
  <2> QED BY <2>1
<1>2. ASSUME NEW k \in Nat, k \in S PROVE k + 1 \in S
  <2> SUFFICES ASSUME k + 1 <= Cardinality(W) PROVE \E T \in SUBSET W : Cardinality(T) = k + 1
    OBVIOUS
  <2>1. PICK T \in SUBSET W : Cardinality(T) = k
    BY <1>0, <1>2
  <2>2. T # W
    BY <1>0, <2>1
  <2>3. PICK x \in W : x \notin T
    BY <2>2
  <2>4. IsFiniteSet(T)
    BY FS_Subset
  <2>5. Cardinality(T \union {x}) = k + 1
    BY <2>1, <2>3, <2>4, FS_AddElement
  <2> QED BY <2>5
<1> HIDE DEF S
<1>3. S = Nat
  BY <1>1, <1>2, Inductive DEF S
<1>4. n \in S
  BY <1>3
<1> QED BY <1>4 DEF S

\* A part that has chunks has a worker.
LEMMA SomeoneSpawned ==
  ASSUME Chunks \in Nat \ {0}
  PROVE  \E w \in Workers : w \in Spawned
<1> DEFINE n == Least(Cardinality(Workers), Chunks)
<1>1. Cardinality(Workers) \in Nat \ {0} /\ IsFiniteSet(Workers)
  BY WorkersAssumption, FS_CardinalityType, FS_EmptySet
<1>2. n \in Nat \ {0} /\ n <= Cardinality(Workers)
  BY <1>1 DEF Least
<1>3. Spawned = CHOOSE W \in SUBSET Workers : Cardinality(W) = n
  BY DEF Spawned
<1> HIDE DEF n
<1>4. \E W \in SUBSET Workers : Cardinality(W) = n
  BY <1>1, <1>2, SubsetOfSize
<1>5. Spawned \in SUBSET Workers /\ Cardinality(Spawned) = n
  BY <1>3, <1>4
<1>6. Spawned # {}
  BY <1>2, <1>5, FS_EmptySet
<1> QED BY <1>5, <1>6

\* The workers of a part are spawned, and the decryptor in front of the block.
LEMMA OpenServes ==
  ASSUME Handling, Serving, Open
  PROVE  Serving'
<1>1. /\ result = "none" /\ stream = "closed" /\ docSize[part] > From
      /\ stream' = "open" /\ next' = 0 /\ queue' = <<>> /\ pending' = {} /\ nextIdx' = 0
      /\ worker' = [w \in Workers |-> IF w \in Spawned THEN "take" ELSE "done"]
      /\ discard' = From - FirstIdx * Chunk /\ held' = <<>>
      /\ block' = IF skip > 0 THEN skip \div BlockData ELSE NoBlock
      /\ UNCHANGED request /\ out' = out /\ part' = part /\ skip' = skip /\ faults' = faults
      /\ result' = IF ~Sealed(part) /\ docSize[part] < Sizes[part] THEN "err" ELSE "none"
  BY DEF Open, Spawn, trouble
<1>2. /\ Request /\ Place /\ Sent /\ Blame /\ part \in Parts /\ skip \in Nat /\ skip < Sizes[part]
      /\ docSize[part] \in Nat /\ faults \in Nat
  BY DEF Serving, Request, Place, Blame
<1>3. /\ From \in Nat /\ Chunks \in Nat \ {0}
  BY <1>1, <1>2, Grid
<1>4. /\ From' = From /\ Chunks' = Chunks /\ FirstIdx' = FirstIdx /\ docSize'[part'] = docSize[part]
      /\ docSize' = docSize /\ content' = content /\ start' = start /\ len' = len
      /\ Sizes' = Sizes /\ Sealed(part)' = Sealed(part) /\ Base(part)' = Base(part)
      /\ (\A p : Stored(p)' = Stored(p)) /\ Parts' = Parts
      /\ (\A b : Lost(b)' = Lost(b)) /\ (\A b : Clipped(b)' = Clipped(b))
  BY <1>1, SamePart, SameRequest DEF request
<1>5. \A w \in Workers : worker'[w] \in {"take", "done"}
  BY <1>1
<1>6. Len(queue') = 0 /\ 1..Len(queue') = {}
  BY <1>1
<1>7. Request' /\ Place'
  <2>1. result' \in Results /\ stream' \in {"open", "closed"}
    BY <1>1 DEF Results
  <2> QED BY <1>1, <1>2, <2>1, SamePart, SameRequest DEF Place
<1>8. Blame'
  BY <1>1, <1>2, <1>4, <1>5, <1>6 DEF Blame
<1>9. Pos' = From
  BY <1>1, <1>4 DEF Pos
<1>10. skip \div BlockData \in Nat /\ NoBlock \notin Nat
  <2>1. skip \in Nat
    BY <1>2
  <2>2. skip \div BlockData \in Nat
    BY <2>1, SizesPositive, Division
  <2> QED BY <2>2 DEF NoBlock
<1>11. Plain' = skip
  BY <1>1, <1>2 DEF Plain
<1>12. Here = skip /\ Here' = skip
  <2>1. ~Sealed(part) => From = skip
    BY DEF From
  <2> QED BY <1>1, <1>4, <1>9, <1>11, <2>1 DEF Here
<1>13. Sent'
  <2>1. RangeExact' = RangeExact
    BY <1>1, SameRequest DEF RangeExact, request
  <2>2. Aligned' = Aligned
    BY <1>1, <1>4, <1>12 DEF Aligned
  <2> QED BY <1>1, <1>2, <1>4, <2>1, <2>2 DEF Sent
<1>14. NeverShort'
  <2>1. ASSUME ~Sealed(part), docSize[part] < Sizes[part] PROVE faults > 0
    <3>1. docSize[part] # Stored(part)
      BY <1>2, <2>1, PartsInOrder DEF Stored, Request
    <3> QED BY <1>2, <3>1 DEF Blame
  <2> QED BY <1>1, <2>1 DEF NeverShort
<1>15. ASSUME Merging' PROVE InDocument'
  <2>1. ~Sealed(part) => docSize[part] = Sizes[part]
    <3> SUFFICES ASSUME ~Sealed(part) PROVE docSize[part] = Sizes[part]
      OBVIOUS
    <3>1. ~(docSize[part] < Sizes[part])
      BY <1>1, <1>15 DEF Merging
    <3>2. docSize[part] <= Sizes[part] /\ Sizes[part] \in Nat
      BY <1>2, PartsInOrder DEF Request, Stored
    <3> QED BY <1>2, <3>1, <3>2
  <2>2. \A w \in Workers : ~Fetching(w)'
    BY <1>5 DEF Fetching
  <2> QED BY <1>1, <1>3, <1>4, <1>6, <2>1, <2>2 DEF InDocument
<1>16. Accounted'
  <2>1. \E w \in Workers : worker'[w] # "done"
    BY <1>1, <1>3, SomeoneSpawned
  <2>2. nextIdx'..(next' - 1) = {}
    BY <1>1
  <2> QED BY <2>1, <2>2 DEF Accounted
<1>17. ASSUME Sealed(part)' PROVE Holding'
  <2>1. Sealed(part)
    BY <1>4, <1>17
  <2>2. held' \in Seq(Nat) /\ Len(held') = 0 /\ 1..Len(held') = {}
    BY <1>1, EmptySeq
  <2>3. CASE skip > 0
    <3>1. block' = skip \div BlockData /\ block' # NoBlock /\ block' \in Nat
      BY <1>1, <1>10, <2>3
    <3>2. First' = From
      BY <2>1, <2>3, <3>1 DEF First, From, BlockStart
    <3>3. block' * BlockData <= Sizes[part]
      <4>1. /\ (skip \div BlockData) * BlockData \in Nat /\ Intra(skip) \in 0..(BlockData - 1)
            /\ (skip \div BlockData) * BlockData + Intra(skip) = skip
        BY <1>2, InBlock
      <4>2. Sizes[part] \in Nat
        BY <1>2, PartsInOrder DEF Request
      <4>3. (skip \div BlockData) * BlockData <= skip
        BY <1>2, <4>1, SizesPositive
      <4>4. (skip \div BlockData) * BlockData <= Sizes[part]
        BY <1>2, <4>1, <4>2, <4>3
      <4> QED BY <3>1, <4>4
    <3>4. skip' \div BlockData <= block' /\ Sizes'[part'] = Sizes[part]
      BY <1>1, <1>4, <1>10, <3>1
    <3> QED BY <1>3, <1>9, <2>2, <3>1, <3>2, <3>3, <3>4 DEF Holding
  <2>4. CASE skip = 0
    <3>1. block' = NoBlock /\ From = 0 /\ First' = 0
      BY <1>1, <2>4 DEF From, First
    <3> QED BY <1>1, <1>9, <2>2, <2>4, <3>1, SizesPositive DEF Holding
  <2> QED BY <1>2, <2>3, <2>4
<1> QED BY <1>7, <1>8, <1>13, <1>14, <1>15, <1>16, <1>17 DEF Serving

-----------------------------------------------------------------------------
(* The steps of the decryptor *)

\* How far the document has been handed out, and when all of it has.
LEMMA PosInDocument ==
  ASSUME Serving, Merging, nextIdx \in Nat
  PROVE  /\ Pos \in Nat /\ Pos <= docSize[part]
         /\ nextIdx >= Chunks => nextIdx = Chunks /\ Pos = docSize[part]
<1>1. /\ From < docSize[part] /\ docSize[part] \in Nat /\ skip \in Nat /\ Chunks \in Nat \ {0}
      /\ InDocument
  BY ChunksCounted DEF Serving
<1>2. From \in Nat /\ Edge(nextIdx) \in Nat /\ docSize[part] <= Edge(Chunks)
  BY <1>1, Grid
<1>3. nextIdx # 0 => Pos = Least(Edge(nextIdx), docSize[part])
  BY DEF Pos, Edge
<1>4. Pos \in Nat /\ Pos <= docSize[part]
  <2>1. CASE nextIdx = 0
    BY <1>1, <1>2, <2>1 DEF Pos
  <2>2. CASE nextIdx # 0
    BY <1>1, <1>2, <1>3, <2>2 DEF Least
  <2> QED BY <2>1, <2>2
<1>5. ASSUME nextIdx >= Chunks PROVE nextIdx = Chunks /\ Pos = docSize[part]
  <2>1. nextIdx = Chunks
    BY <1>1, <1>5 DEF InDocument
  <2>2. nextIdx # 0
    BY <1>1, <2>1
  <2> QED BY <1>1, <1>2, <1>3, <2>1, <2>2 DEF Least
<1> QED BY <1>4, <1>5

\* A block behind its tag, of the size it has in the container and with the bytes it has
\* there.
Genuine(size) ==
  /\ size = Least(BlockSize, Stored(part) - First)
  /\ \A k \in 1..size : held[k] = First + k

Dropped == IF block = skip \div BlockData THEN Intra(skip) ELSE 0

LEMMA DecryptIs ==
  ASSUME NEW size, NEW after, Decrypt(size, after), block # NoBlock
  PROVE  IF Genuine(size)
         THEN /\ Emit([k \in 1..(size - BlockTag - Dropped) |->
                        Base(part) + block * BlockData + Dropped + k], after)
              /\ held' = SubSeq(held, size + 1, Len(held))
              /\ block' = block + 1
         ELSE result' = "err" /\ UNCHANGED <<out, crypt>>
BY DEF Decrypt, Genuine, Dropped, First

\* What a step of the decryptor starts from.
Decrypting(size) ==
  /\ Serving /\ Merging /\ Sealed(part) /\ block # NoBlock /\ nextIdx \in Nat
  /\ size \in Nat /\ BlockTag <= size /\ size <= Len(held)
  /\ size = BlockSize \/ (Pos = docSize[part] /\ size = Least(BlockSize, Len(held)))

LEMMA DecryptingFacts ==
  ASSUME NEW size, Decrypting(size)
  PROVE  /\ Request /\ Place /\ Sent /\ Blame /\ Holding /\ part \in Parts /\ file \in Files
         /\ result = "none" /\ stream = "open"
         /\ block \in Nat /\ block * BlockData \in Nat /\ block * BlockSize \in Nat
         /\ block * BlockData <= Sizes[part] /\ skip \div BlockData <= block
         /\ First = HeaderSize + block * BlockSize /\ First \in Nat
         /\ Sizes[part] \in Nat \ {0} /\ skip \in Nat /\ skip < Sizes[part]
         /\ Stored(part) = EncryptedSize(Sizes[part]) /\ Stored(part) \in Nat
         /\ held \in Seq(Nat) /\ Len(held) \in Nat /\ Len(held) = Pos - First
         /\ Pos \in Nat /\ Pos <= docSize[part] /\ docSize[part] \in Nat /\ Base(part) \in Nat
<1>1. /\ Request /\ Place /\ Sent /\ Blame /\ Holding /\ part \in Parts /\ file \in Files
      /\ result = "none" /\ stream = "open" /\ Sealed(part) /\ block # NoBlock
      /\ skip \in Nat /\ skip < Sizes[part] /\ docSize[part] \in Nat
  BY DEF Decrypting, Serving, Merging, Request, Place
<1>2. /\ block \in Nat /\ block * BlockData <= Sizes[part] /\ skip \div BlockData <= block
      /\ held \in Seq(Nat) /\ Len(held) = Pos - First
  BY <1>1 DEF Holding
<1>3. block * BlockData \in Nat /\ block * BlockSize \in Nat
  BY <1>2, SizesPositive, Scaled
<1>4. First = HeaderSize + block * BlockSize /\ First \in Nat
  BY <1>1, <1>3, SizesPositive DEF First
<1>5. Sizes[part] \in Nat \ {0} /\ Base(part) \in Nat
  BY <1>1, PartsInOrder
<1>6. Stored(part) = EncryptedSize(Sizes[part]) /\ Stored(part) \in Nat
  BY <1>1, <1>5, LongerThanHeader DEF Stored
<1>7. Pos \in Nat /\ Pos <= docSize[part]
  BY PosInDocument DEF Decrypting
<1> QED BY <1>1, <1>2, <1>3, <1>4, <1>5, <1>6, <1>7, LenProperties

\* Without a fault the block is genuine.
LEMMA GenuineUnlessFaulty ==
  ASSUME NEW size, Decrypting(size), faults = 0
  PROVE  Genuine(size)
<1>1. /\ Request /\ Blame /\ Holding /\ part \in Parts
      /\ First \in Nat /\ Stored(part) \in Nat
      /\ Len(held) \in Nat /\ Len(held) = Pos - First
      /\ Pos \in Nat /\ Pos <= docSize[part] /\ docSize[part] \in Nat
      /\ size \in Nat /\ size <= Len(held)
      /\ size = BlockSize \/ (Pos = docSize[part] /\ size = Least(BlockSize, Len(held)))
  BY DecryptingFacts DEF Decrypting
<1>2. docSize[part] = Stored(part) /\ content[part] = docSize[part]
  BY <1>1 DEF Blame
<1>3. size = Least(BlockSize, Stored(part) - First)
  <2>1. CASE size = BlockSize
    BY <1>1, <1>2, <2>1, SizesPositive DEF Least
  <2>2. CASE Pos = docSize[part] /\ size = Least(BlockSize, Len(held))
    BY <1>1, <1>2, <2>2
  <2> QED BY <1>1, <2>1, <2>2
<1>4. ASSUME NEW k \in 1..size PROVE held[k] = First + k
  <2>1. k \in 1..Len(held) /\ First + k <= content[part]
    BY <1>1, <1>2
  <2> QED BY <1>1, <2>1 DEF Holding, Doc
<1> QED BY <1>3, <1>4 DEF Genuine

\* A genuine block: its plaintext, what it is in the part, and where it leaves off.
LEMMA GenuineBlock ==
  ASSUME NEW size, Decrypting(size), Genuine(size)
  PROVE  /\ size <= BlockSize
         /\ size = BlockSize => block * BlockData + BlockData <= Sizes[part]
         /\ block * BlockData + (size - BlockTag) <= Sizes[part]
         /\ Dropped \in Nat /\ Dropped <= size - BlockTag
         /\ Here = block * BlockData + Dropped
<1> DEFINE n == Sizes[part]
           b == block
           rest == EncryptedSize(n) - (HeaderSize + b * BlockSize)
<1>1. /\ b \in Nat /\ b * BlockData \in Nat /\ b * BlockData <= n /\ n \in Nat
      /\ skip \in Nat /\ skip < n /\ stream = "open" /\ Sealed(part) /\ block # NoBlock
      /\ size \in Nat /\ BlockTag <= size
  BY DecryptingFacts DEF Decrypting
<1>2. size = Least(BlockSize, rest)
  BY DecryptingFacts DEF Genuine
<1> HIDE DEF n
<1>3. /\ rest \in Nat
      /\ \/ rest >= BlockSize /\ b * BlockData + BlockData <= n
         \/ rest = 0 /\ b * BlockData = n
         \/ BlockTag < rest /\ rest < BlockSize /\ b * BlockData + (rest - BlockTag) = n
  BY <1>1, AfterBlocks
<1> HIDE DEF rest
<1>4. \/ size = BlockSize /\ b * BlockData + BlockData <= n
      \/ size < BlockSize /\ b * BlockData + (size - BlockTag) = n
  BY <1>1, <1>2, <1>3, SizesPositive DEF Least
<1>5. /\ (skip \div BlockData) * BlockData + Intra(skip) = skip
      /\ Intra(skip) \in 0..(BlockData - 1)
  BY <1>1, InBlock
<1>6. CASE b = skip \div BlockData
  <2>1. Dropped = Intra(skip) /\ Here = skip /\ b * BlockData + Dropped = skip
    BY <1>1, <1>5, <1>6 DEF Dropped, Here, Plain
  <2> QED BY <1>1, <1>4, <1>5, <2>1, SizesPositive DEF n
<1>7. CASE b # skip \div BlockData
  <2>1. Dropped = 0 /\ Here = b * BlockData
    BY <1>1, <1>7 DEF Dropped, Here, Plain
  <2> QED BY <1>1, <1>4, <2>1, SizesPositive DEF n
<1> QED BY <1>6, <1>7

\* A block is decrypted, or refused for a reason.
LEMMA DecryptServes ==
  ASSUME NEW size, Decrypting(size), NEW after \in {"none", "panic"}, after = "none" => size = BlockSize,
         Decrypt(size, after), UNCHANGED request, UNCHANGED place, nextIdx' = nextIdx
  PROVE  /\ Sent' /\ result' \in {"none", "ok", "err", "panic"}
         /\ result' = "err" => faults > 0
         /\ result' = "none" => Holding'
<1>1. /\ Request /\ Place /\ Sent /\ Blame /\ Holding /\ part \in Parts
      /\ result = "none" /\ stream = "open"
      /\ block \in Nat /\ block * BlockData \in Nat /\ block * BlockSize \in Nat
      /\ block * BlockData <= Sizes[part] /\ skip \div BlockData <= block
      /\ First = HeaderSize + block * BlockSize /\ First \in Nat
      /\ Sizes[part] \in Nat \ {0} /\ skip \in Nat
      /\ held \in Seq(Nat) /\ Len(held) \in Nat /\ Len(held) = Pos - First
      /\ Pos \in Nat /\ Base(part) \in Nat
  BY DecryptingFacts
<1>2. /\ size \in Nat /\ BlockTag <= size /\ size <= Len(held) /\ Sealed(part) /\ block # NoBlock
  BY DEF Decrypting
<1>3. /\ part' = part /\ skip' = skip /\ stream' = stream /\ start' = start /\ len' = len
      /\ Sizes' = Sizes /\ Sealed(part)' = Sealed(part) /\ Base(part)' = Base(part)
      /\ (\A b : Lost(b)' = Lost(b)) /\ (\A j : Doc(j)' = Doc(j))
  BY SamePart, SameRequest DEF request, place
<1>4. Pos' = Pos
  <2>1. docSize'[part'] = docSize[part] /\ From' = From /\ FirstIdx' = FirstIdx
    BY <1>3, SamePart
  <2> QED BY <2>1 DEF Pos
<1>5. CASE ~Genuine(size)
  <2>1. result' = "err" /\ out' = out
    BY <1>2, <1>5, DecryptIs
  <2>2. faults # 0
    BY <1>5, GenuineUnlessFaulty
  <2>3. RangeExact' = RangeExact
    BY <2>1, SameRequest DEF RangeExact, request
  <2>4. faults \in Nat
    BY <1>1 DEF Blame
  <2> QED BY <1>1, <2>1, <2>2, <2>3, <2>4 DEF Sent
<1>6. CASE Genuine(size)
  <2> DEFINE d == Dropped
             t == size - BlockTag - d
             bytes == [k \in 1..t |-> Base(part) + block * BlockData + d + k]
  <2>1. /\ size <= BlockSize
        /\ size = BlockSize => block * BlockData + BlockData <= Sizes[part]
        /\ block * BlockData + (size - BlockTag) <= Sizes[part]
        /\ d \in Nat /\ d <= size - BlockTag
        /\ Here = block * BlockData + d
    BY <1>6, GenuineBlock
  <2>2. /\ Emit(bytes, after) /\ block' = block + 1
        /\ held' = SubSeq(held, size + 1, Len(held))
    BY <1>2, <1>6, DecryptIs
  <2> HIDE DEF d
  <2>3. t \in Nat
    BY <1>2, <2>1, SizesPositive
  <2>4. bytes \in Seq(Nat) /\ Len(bytes) = t /\ \A k \in 1..t : bytes[k] = Base(part) + block * BlockData + d + k
    <3>1. \A k \in 1..t : Base(part) + block * BlockData + d + k \in Nat
      BY <1>1, <2>1, <2>3
    <3> HIDE DEF t
    <3>2. bytes \in Seq(Nat) /\ DOMAIN bytes = 1..t
      BY <2>3, <3>1, IsASeq
    <3> QED BY <2>3, <3>2, LenProperties
  <2> HIDE DEF bytes
  <2>5. GoesOn(bytes)
    <3>1. Here + Len(bytes) <= Sizes[part]
      BY <1>1, <1>2, <2>1, <2>4, SizesPositive
    <3>2. ASSUME NEW k \in 1..Len(bytes) PROVE bytes[k] = Base(part) + (Here + k)
      <4>1. bytes[k] = Base(part) + block * BlockData + d + k /\ k \in Nat
        BY <2>3, <2>4
      <4> QED BY <1>1, <2>1, <4>1
    <3> QED BY <1>2, <2>4, <3>1, <3>2 DEF GoesOn
  <2>6. Here \in Nat
    BY <1>1, <2>1
  <2>7. /\ out' \in Seq(Nat) /\ RangeExact'
        /\ ~(Len(out') < len) => result' = "ok"
        /\ Len(out') < len =>
             /\ result' = after
             /\ \/ start + Len(out') = Base(part) + (Here + Len(bytes))
                \/ Lost(start + Len(out'))
    BY <1>1, <2>2, <2>5, <2>6, EmitExact
  <2>8. ASSUME result' = "none" PROVE Len(out') < len /\ Aligned' /\ Holding'
    <3>1. Len(out') < len /\ after = "none" /\ size = BlockSize
      BY <2>7, <2>8
    <3>2. /\ (block + 1) * BlockData = block * BlockData + BlockData
          /\ (block + 1) * BlockSize = block * BlockSize + BlockSize
      BY <1>1, SizesPositive, Scaled
    <3>3. block + 1 \in Nat /\ block + 1 # NoBlock /\ block + 1 # skip \div BlockData
          /\ skip \div BlockData <= block + 1
      <4>1. skip \div BlockData \in Nat
        BY <1>1, SizesPositive, Division
      <4> QED BY <1>1, <4>1 DEF NoBlock
    <3>4. Plain' = block * BlockData + BlockData /\ First' = First + BlockSize
      <4>1. Plain' = (block + 1) * BlockData /\ First' = HeaderSize + (block + 1) * BlockSize
        BY <1>3, <2>2, <3>3 DEF Plain, First
      <4> QED BY <1>1, <3>2, <4>1, SizesPositive
    <3>5. Here' = Here + Len(bytes)
      <4>1. Here' = Plain'
        BY <1>1, <1>2, <1>3 DEF Here
      <4> QED BY <1>1, <2>1, <2>4, <3>1, <3>4, <4>1, SizesPositive
    <3>6. Aligned'
      BY <1>3, <2>7, <3>1, <3>5 DEF Aligned
    <3>7. /\ held' \in Seq(Nat) /\ Len(held') = Len(held) - size
          /\ \A k \in 1..(Len(held) - size) : held'[k] = held[size + k]
      <4> DEFINE lo == size + 1
                 hi == Len(held)
      <4>1. lo \in Int /\ hi \in Int /\ \A i \in lo..hi : i \in 1..Len(held)
        BY <1>1, <1>2
      <4>2. \A i \in lo..hi : held[i] \in Nat
        BY <1>1, <4>1, ElementOfSeq
      <4> HIDE DEF lo, hi
      <4>3. /\ SubSeq(held, lo, hi) \in Seq(Nat)
            /\ Len(SubSeq(held, lo, hi)) = IF lo <= hi THEN hi - lo + 1 ELSE 0
            /\ \A i \in 1..(hi - lo + 1) : SubSeq(held, lo, hi)[i] = held[lo + i - 1]
        BY <4>1, <4>2, SubSeqProperties
      <4>4. hi - lo + 1 = Len(held) - size /\ (~(lo <= hi) => Len(held) - size = 0)
        BY <1>1, <1>2 DEF lo, hi
      <4>5. \A i \in 1..(Len(held) - size) : lo + i - 1 = size + i
        BY <1>2 DEF lo
      <4>6. held' = SubSeq(held, lo, hi)
        BY <2>2 DEF lo, hi
      <4>7. ASSUME NEW k \in 1..(Len(held) - size) PROVE held'[k] = held[size + k]
        BY <4>3, <4>4, <4>5, <4>6
      <4> QED BY <4>3, <4>4, <4>6, <4>7
    <3>8. Len(held') = Pos' - First'
      BY <1>1, <1>2, <1>4, <3>1, <3>4, <3>7, SizesPositive
    <3>9. ASSUME NEW k \in 1..Len(held') PROVE held'[k] = Doc(First' + k)
      <4>1. k \in 1..(Len(held) - size) /\ size + k \in 1..Len(held) /\ First + (size + k) = First' + k
        BY <1>1, <1>2, <3>1, <3>4, <3>7, SizesPositive
      <4>2. held[size + k] = Doc(First + (size + k))
        BY <1>1, <4>1 DEF Holding
      <4> QED BY <3>7, <4>1, <4>2
    <3>10. (block + 1) * BlockData <= Sizes[part]
      BY <2>1, <3>1, <3>2
    <3>11. Holding'
      BY <1>3, <2>2, <3>3, <3>7, <3>8, <3>9, <3>10 DEF Holding
    <3> QED BY <3>1, <3>6, <3>11
  <2>9. result' \in {"none", "ok", "panic"}
    BY <2>7
  <2> QED BY <1>3, <2>7, <2>8, <2>9 DEF Sent
<1> QED BY <1>5, <1>6

\* A step of the decryptor serves on.
LEMMA CryptServes ==
  ASSUME Serving, Merging, UNCHANGED <<request, place, next, queue, pending, nextIdx, discard, worker, idx, faults>>,
         Sent', result' \in {"none", "ok", "err", "panic"},
         result' = "err" => faults > 0, result' = "none" => Holding'
  PROVE  Serving'
<1>1. UNCHANGED request /\ part' = part /\ skip' = skip /\ stream' = stream
  BY DEF place
<1>2. /\ From' = From /\ Chunks' = Chunks /\ FirstIdx' = FirstIdx /\ docSize' = docSize /\ content' = content
      /\ Sizes' = Sizes /\ Sealed(part)' = Sealed(part) /\ Parts' = Parts /\ (\A p : Stored(p)' = Stored(p))
  BY <1>1, SamePart, SameRequest DEF request
<1>3. Request' /\ Place'
  <2>1. result' \in Results
    BY DEF Results
  <2> QED BY <1>1, <2>1, SamePart, SameRequest DEF Serving, Place
<1>4. Blame'
  BY <1>2 DEF Serving, Blame
<1>5. NeverShort'
  BY DEF NeverShort
<1>6. InDocument'
  BY <1>1, <1>2 DEF Serving, InDocument, Fetching
<1>7. Accounted'
  BY <1>1, <1>2 DEF Serving, Accounted, Fetching
<1> QED BY <1>3, <1>4, <1>5, <1>6, <1>7 DEF Serving, Merging

LEMMA DecryptFullServes ==
  ASSUME Handling, Serving, DecryptFull
  PROVE  Serving'
<1>1. /\ Merging /\ Sealed(part) /\ block # NoBlock /\ Len(held) >= BlockSize
      /\ Decrypt(BlockSize, "none") /\ UNCHANGED request /\ UNCHANGED place /\ nextIdx' = nextIdx
      /\ UNCHANGED <<request, place, next, queue, pending, nextIdx, discard, worker, idx, faults>>
  BY DEF DecryptFull, trouble
<1>2. Decrypting(BlockSize)
  <2>1. nextIdx \in Nat
    BY WorkerTypes
  <2>2. BlockSize \in Nat /\ BlockTag <= BlockSize
    BY SizesPositive
  <2>3. held \in Seq(Nat)
    BY <1>1 DEF Serving, Holding
  <2>4. BlockSize <= Len(held)
    BY <1>1, <2>2, <2>3, LenProperties
  <2> QED BY <1>1, <2>1, <2>2, <2>4 DEF Decrypting
<1>3. /\ Sent' /\ result' \in {"none", "ok", "err", "panic"}
      /\ result' = "err" => faults > 0
      /\ result' = "none" => Holding'
  BY <1>1, <1>2, DecryptServes
<1> QED BY <1>1, <1>3, CryptServes

LEMMA ContainerEndsServes ==
  ASSUME Handling, Serving, ContainerEnds
  PROVE  Serving'
<1>1. /\ Merging /\ Sealed(part) /\ nextIdx >= Chunks /\ Len(held) >= BlockTag
      /\ UNCHANGED request /\ UNCHANGED place /\ nextIdx' = nextIdx
      /\ UNCHANGED <<request, place, next, queue, pending, nextIdx, discard, worker, idx, faults>>
      /\ IF block = NoBlock THEN result' = "panic" /\ UNCHANGED <<out, crypt>>
         ELSE Decrypt(Least(BlockSize, Len(held)), "panic")
  BY DEF ContainerEnds, PartDrained, trouble
<1>2. CASE block = NoBlock
  <2>1. result' = "panic" /\ out' = out
    BY <1>1, <1>2
  <2>2. RangeExact' = RangeExact
    BY <1>1, <2>1, SameRequest DEF RangeExact, request
  <2>3. Sent'
    BY <2>1, <2>2 DEF Serving, Sent
  <2> QED BY <1>1, <2>1, <2>3, CryptServes
<1>3. CASE block # NoBlock
  <2> DEFINE size == Least(BlockSize, Len(held))
  <2>1. nextIdx \in Nat
    BY WorkerTypes
  <2>2. held \in Seq(Nat) /\ Len(held) \in Nat
    BY <1>1, LenProperties DEF Serving, Holding
  <2>3. size \in Nat /\ BlockTag <= size /\ size <= Len(held)
    BY <1>1, <2>2, SizesPositive DEF Least
  <2>4. Pos = docSize[part]
    BY <1>1, <2>1, PosInDocument
  <2>5. Decrypting(size)
    BY <1>1, <1>3, <2>1, <2>3, <2>4 DEF Decrypting
  <2>6. Decrypt(size, "panic")
    BY <1>1, <1>3
  <2> HIDE DEF size
  <2>7. /\ Sent' /\ result' \in {"none", "ok", "err", "panic"}
        /\ result' = "err" => faults > 0
        /\ result' = "none" => Holding'
    BY <1>1, <2>5, <2>6, DecryptServes
  <2> QED BY <1>1, <2>7, CryptServes
<1> QED BY <1>2, <1>3

\* When all of a part has been handed out and nothing is left to decrypt, the client has
\* all of it, unless the part was clipped, or one before it.
LEMMA PartOver ==
  ASSUME Serving, Merging, nextIdx \in Nat, nextIdx >= Chunks, ~Sealed(part) \/ Len(held) < BlockTag
  PROVE  \/ start + Len(out) = Base(part + 1)
         \/ \E p \in Parts : /\ p <= part /\ Clipped(p)
                             /\ start + Len(out) >= Base(p) + Blocks(docSize[p]) * BlockData
<1> DEFINE byte == start + Len(out)
           n == Sizes[part]
<1>1. /\ InDocument /\ Request /\ part \in Parts /\ file \in Files /\ start < Base(part + 1)
      /\ skip \in Nat /\ skip < n /\ stream = "open" /\ (Sealed(part) => Holding)
      /\ docSize[part] \in Nat /\ docSize[part] <= Stored(part) /\ Aligned
  BY DEF Serving, Request, Place, Merging, Sent
<1>2. Base(part) \in Nat /\ n \in Nat \ {0} /\ Base(part + 1) = Base(part) + n /\ part \in Nat
  BY <1>1, PartsInOrder
<1>3. Pos = docSize[part]
  BY PosInDocument
<1>4. CASE Lost(byte)
  <2>1. PICK p \in Parts : p < part /\ Clipped(p) /\ byte >= Base(p) + Blocks(docSize[p]) * BlockData
    BY <1>4 DEF Lost
  <2>2. p \in Nat
    BY <1>1, PartsInOrder
  <2> QED BY <1>2, <2>1, <2>2
<1>5. CASE byte = Base(part) + Here /\ ~Sealed(part)
  <2>1. Here = n
    BY <1>1, <1>3, <1>5 DEF Here, InDocument
  <2> QED BY <1>2, <1>5, <2>1
<1>6. CASE byte = Base(part) + Here /\ Sealed(part) /\ block = NoBlock
  <2>1. /\ First = 0 /\ skip = 0 /\ Len(held) = Pos - First /\ Len(held) < HeaderSize /\ Here = 0
    BY <1>1, <1>6 DEF First, Holding, Here, Plain
  <2>2. docSize[part] < HeaderSize /\ docSize[part] < BlockTag
    BY <1>1, <1>3, <1>6, <2>1
  <2>3. Stored(part) \in Nat /\ HeaderSize < Stored(part)
    BY <1>2, <1>6, LongerThanHeader DEF Stored
  <2>4. part \in Cut
    BY <1>1, <2>2, <2>3, SizesPositive DEF Cut
  <2>5. Rest(docSize[part]) = docSize[part] /\ Blocks(docSize[part]) = 0
    BY <2>2 DEF Rest, Blocks
  <2>6. Clipped(part)
    BY <1>1, <1>6, <2>2, <2>4, <2>5 DEF Clipped
  <2>7. 0 * BlockData = 0
    BY SizesPositive, Z3
  <2> QED BY <1>1, <1>2, <1>6, <2>1, <2>5, <2>6, <2>7
<1>7. CASE byte = Base(part) + Here /\ Sealed(part) /\ block # NoBlock
  <2> DEFINE l == Len(held)
  <2>1. /\ block \in Nat /\ skip \div BlockData <= block /\ block * BlockData <= n
        /\ First = HeaderSize + block * BlockSize /\ l = Pos - First /\ l \in Nat /\ l < BlockTag
    BY <1>1, <1>7, LenProperties DEF Holding, First
  <2> HIDE DEF l
  <2>2. block * BlockData \in Nat /\ block * BlockSize \in Nat
    BY <2>1, SizesPositive, Scaled
  <2>3. l \in 0..(BlockSize - 1) /\ docSize[part] = HeaderSize + block * BlockSize + l
    BY <1>1, <1>3, <2>1, <2>2, SizesPositive
  <2>4. Blocks(docSize[part]) = block /\ Rest(docSize[part]) = l
    BY <1>1, <2>1, <2>3, BlocksOf
  <2>5. Stored(part) = EncryptedSize(n) /\ Stored(part) \in Nat
    BY <1>2, <1>7, LongerThanHeader DEF Stored
  <2>6. /\ (skip \div BlockData) * BlockData <= skip
    <3>1. /\ (skip \div BlockData) * BlockData \in Nat /\ Intra(skip) \in 0..(BlockData - 1)
          /\ (skip \div BlockData) * BlockData + Intra(skip) = skip
      BY <1>1, InBlock
    <3> QED BY <1>1, <3>1, SizesPositive
  <2>7. /\ Here = IF block = skip \div BlockData THEN skip ELSE block * BlockData
    BY <1>1, <1>7 DEF Here, Plain
  <2>8. CASE docSize[part] = Stored(part)
    <3> DEFINE rest == EncryptedSize(n) - (HeaderSize + block * BlockSize)
    <3>1. rest = l
      BY <2>2, <2>3, <2>5, <2>8, SizesPositive
    <3>2. \/ rest >= BlockSize /\ block * BlockData + BlockData <= n
          \/ rest = 0 /\ block * BlockData = n
          \/ BlockTag < rest /\ rest < BlockSize /\ block * BlockData + (rest - BlockTag) = n
      <4> HIDE DEF n
      <4>1. n \in Nat
        BY <1>2
      <4> QED BY <2>1, <4>1, AfterBlocks
    <3> HIDE DEF rest
    <3>3. block * BlockData = n
      <4>1. BlockTag \in Nat /\ l \in Nat /\ l < BlockTag /\ l < BlockSize /\ BlockSize \in Nat
        BY <2>1, <2>3, SizesPositive
      <4>2. ~(rest >= BlockSize) /\ ~(BlockTag < rest)
        BY <3>1, <4>1
      <4> HIDE DEF n
      <4> QED BY <3>2, <4>2
    <3>4. block # skip \div BlockData
      BY <1>1, <1>2, <2>2, <2>6, <3>3
    <3> QED BY <1>2, <1>7, <2>7, <3>3, <3>4
  <2>9. CASE docSize[part] # Stored(part)
    <3>1. part \in Cut
      BY <1>1, <2>5, <2>9 DEF Cut
    <3>2. Clipped(part)
      BY <1>1, <1>7, <2>1, <2>4, <3>1 DEF Clipped
    <3>3. Here >= block * BlockData /\ Here \in Nat
      BY <1>1, <2>2, <2>6, <2>7
    <3>4. byte >= Base(part) + Blocks(docSize[part]) * BlockData
      BY <1>2, <1>7, <2>2, <2>4, <3>3
    <3> QED BY <1>1, <1>2, <3>2, <3>4
  <2> QED BY <2>8, <2>9
<1> QED BY <1>1, <1>4, <1>5, <1>6, <1>7 DEF Aligned

LEMMA PartEndsServes ==
  ASSUME Handling, Serving, PartEnds
  PROVE  Serving'
<1>1. /\ Merging /\ nextIdx \notin pending /\ queue = <<>> /\ TxDropped
      /\ ~Sealed(part) \/ nextIdx < Chunks \/ Len(held) < BlockTag
      /\ UNCHANGED request /\ UNCHANGED <<out, next, queue, pending, nextIdx, discard, held, block, worker, idx, faults>>
      /\ IF nextIdx >= Chunks THEN NextPart ELSE result' = "err" /\ UNCHANGED place
  BY DEF PartEnds, PartDrained, merger, crypt, trouble
<1>2. nextIdx \in Nat /\ next \in Nat /\ Chunks \in Nat \ {0}
  BY <1>1, WorkerTypes, ChunksCounted
<1>3. /\ Request /\ Place /\ Sent /\ Blame /\ faults \in Nat /\ part \in Parts /\ file \in Files
      /\ result = "none" /\ start \in Nat /\ len \in Nat /\ start + len <= Total
  BY <1>1 DEF Serving, Blame, Merging, Place, Request
<1>4. /\ Parts' = Parts /\ (\A p : Stored(p)' = Stored(p)) /\ docSize' = docSize /\ content' = content
      /\ start' = start /\ len' = len /\ Sizes' = Sizes /\ (\A p : Base(p)' = Base(p))
      /\ (\A p : Clipped(p)' = Clipped(p)) /\ Request'
  BY <1>1, <1>3, SameRequest DEF request
<1>5. Blame'
  BY <1>1, <1>3, <1>4 DEF Blame
<1>6. CASE nextIdx < Chunks
  <2>1. result' = "err" /\ UNCHANGED place
    BY <1>1, <1>2, <1>6
  <2>2. faults # 0
    <3> SUFFICES ASSUME faults = 0 PROVE FALSE
      OBVIOUS
    <3>1. \A w \in Workers : worker[w] = "done" /\ ~Fetching(w)
      BY <1>1 DEF TxDropped, Fetching
    <3>2. next >= Chunks
      BY <1>1, <3>1 DEF Serving, Accounted
    <3>3. nextIdx \in nextIdx..(next - 1)
      BY <1>2, <1>6, <3>2
    <3>4. \/ \E w \in Workers : Fetching(w) /\ idx[w] = nextIdx
          \/ \E k \in 1..Len(queue) : queue[k].idx = nextIdx
          \/ nextIdx \in pending
      BY <1>1, <1>6, <3>3 DEF Serving, Accounted
    <3>5. 1..Len(queue) = {}
      BY <1>1
    <3> QED BY <1>1, <3>1, <3>4, <3>5
  <2>3. ~Merging'
    BY <2>1 DEF Merging
  <2> QED BY <1>1, <1>3, <1>5, <2>1, <2>2, <2>3, BesideServes
<1>7. CASE nextIdx >= Chunks
  <2> DEFINE byte == start + Len(out)
  <2>1. NextPart /\ (~Sealed(part) \/ Len(held) < BlockTag)
    BY <1>1, <1>2, <1>7
  <2>2. \/ byte = Base(part + 1)
        \/ \E p \in Parts : /\ p <= part /\ Clipped(p)
                            /\ byte >= Base(p) + Blocks(docSize[p]) * BlockData
    BY <1>1, <1>2, <1>7, <2>1, PartOver
  <2>3. RangeExact' = RangeExact
    BY <1>1, SameRequest DEF RangeExact, request
  <2>4. /\ Len(Sizes) \in Nat \ {0} /\ Parts = 1..Len(Sizes)
        /\ \A p \in Parts : Sizes[p] \in Nat \ {0}
        /\ \A p \in 1..(Len(Sizes) + 1) : Base(p) \in Nat
        /\ \A p \in Parts : p + 1 \in 1..(Len(Sizes) + 1) /\ Base(p + 1) = Base(p) + Sizes[p]
    BY <1>3, PartsInOrder
  <2>5. CASE part < Len(Sizes)
    <3>1. part' = part + 1 /\ skip' = 0 /\ stream' = "closed" /\ result' = "none"
      BY <1>3, <2>1, <2>5 DEF NextPart
    <3>2. part + 1 \in Parts /\ part \in Nat
      BY <1>3, <2>4, <2>5
    <3>3. Place'
      <4>1. Base(part + 1) \in Nat /\ Sizes[part + 1] \in Nat \ {0}
            /\ Base((part + 1) + 1) = Base(part + 1) + Sizes[part + 1]
        BY <1>3, <2>4, <3>2
      <4>2. start < Base((part + 1) + 1)
        BY <1>3, <4>1 DEF Place
      <4> QED BY <1>4, <3>1, <3>2, <4>1, <4>2 DEF Place, Results
    <3>4. Aligned'
      <4>1. Here' = 0
        BY <3>1 DEF Here
      <4>2. Base(part)' = Base(part + 1) /\ Base(part + 1) \in Nat
        <5>1. Base(part)' = Sum(Sizes', part' - 1) /\ Base(part + 1) = Sum(Sizes, (part + 1) - 1)
          BY DEF Base
        <5> QED BY <1>4, <2>4, <3>1, <3>2, <5>1
      <4>3. CASE byte = Base(part + 1)
        <5>1. (start + Len(out))' = Base(part + 1) + 0
          BY <1>1, <1>4, <4>2, <4>3
        <5>2. (Base(part) + Here)' = Base(part + 1) + 0
          BY <4>1, <4>2
        <5> QED BY <5>1, <5>2 DEF Aligned
      <4>4. CASE \E p \in Parts : /\ p <= part /\ Clipped(p)
                                  /\ byte >= Base(p) + Blocks(docSize[p]) * BlockData
        <5>1. PICK p \in Parts : /\ p <= part /\ Clipped(p)
                                 /\ byte >= Base(p) + Blocks(docSize[p]) * BlockData
          BY <4>4
        <5>2. p < part + 1
          BY <2>4, <3>2, <5>1
        <5>3. Lost(start + Len(out))'
          BY <1>1, <1>4, <3>1, <5>1, <5>2 DEF Lost
        <5> QED BY <5>3 DEF Aligned
      <4> QED BY <2>2, <4>3, <4>4
    <3>5. Sent'
      BY <1>1, <1>3, <1>4, <2>3, <3>1, <3>4 DEF Sent
    <3>6. NeverShort' /\ ~Merging'
      BY <3>1 DEF NeverShort, Merging
    <3> QED BY <1>4, <1>5, <3>3, <3>5, <3>6 DEF Serving
  <2>6. CASE ~(part < Len(Sizes))
    <3>1. result' = "short" /\ part' = part /\ skip' = skip /\ stream' = stream
      BY <2>1, <2>6 DEF NextPart, place
    <3>2. Place'
      BY <1>1, <1>3, <3>1, SamePart DEF Place, Results
    <3>3. Sent'
      BY <1>1, <1>3, <2>3, <3>1 DEF Sent
    <3>4. byte # Base(part + 1)
      <4>1. part = Len(Sizes) /\ Base(part + 1) = Total
        BY <1>3, <2>4, <2>6 DEF Total
      <4>2. Len(out) < len /\ Len(out) \in Nat
        BY <1>3, LenProperties DEF Sent
      <4>3. Total \in Nat
        BY <1>3, <2>4, <4>1
      <4> QED BY <1>3, <4>1, <4>2, <4>3
    <3>5. NeverShort'
      BY <1>4, <2>2, <3>1, <3>4 DEF NeverShort
    <3>6. ~Merging'
      BY <3>1 DEF Merging
    <3> QED BY <1>4, <1>5, <3>2, <3>3, <3>5, <3>6 DEF Serving
  <2> QED BY <2>5, <2>6
<1> QED BY <1>2, <1>6, <1>7

-----------------------------------------------------------------------------
(* The specification *)

\* What is counted as a fault from the start.
LEMMA NoFaultNoLoss ==
  ASSUME IsFiniteSet(Parts), faults = Cardinality(Cut) + Cardinality(Hollow)
  PROVE  faults \in Nat /\ (faults = 0 => Cut = {} /\ Hollow = {})
<1>1. Cut \subseteq Parts /\ Hollow \subseteq Parts
  BY DEF Cut, Hollow
<1>2. IsFiniteSet(Cut) /\ IsFiniteSet(Hollow)
  BY <1>1, FS_Subset
<1> DEFINE c == Cardinality(Cut)
           h == Cardinality(Hollow)
<1>3. c \in Nat /\ h \in Nat
  BY <1>2, FS_CardinalityType
<1>4. faults = c + h
  OBVIOUS
<1>5. (c = 0 => Cut = {}) /\ (h = 0 => Hollow = {})
  BY <1>2, FS_EmptySet
<1> HIDE DEF c, h
<1> QED BY <1>3, <1>4, <1>5

\* Before the first part nothing was sent, and what is short was counted.
LEMMA InitServes == Init => Serving
<1> SUFFICES ASSUME Init PROVE Serving
  OBVIOUS
<1>1. /\ file \in Files /\ \E r \in file.ranges : Asked(r[1], r[2])
      /\ docSize \in [Parts -> file.left \union {Stored(p) : p \in Parts}]
      /\ content \in [Parts -> file.left \union {Stored(p) : p \in Parts}]
      /\ \A p \in Parts : content[p] <= docSize[p] /\ docSize[p] <= Stored(p)
      /\ faults = Cardinality(Cut) + Cardinality(Hollow)
      /\ result = "none" /\ out = <<>> /\ queue = <<>> /\ stream = "closed"
      /\ part = Locate(start) /\ skip = start - Base(Locate(start))
      /\ worker = [w \in Workers |-> "done"]
  BY DEF Init
<1>2. /\ file.ranges \subseteq Nat \X Nat /\ file.left \subseteq Nat
  BY <1>1, FilesAssumption
<1>3. /\ Len(Sizes) \in Nat \ {0} /\ Parts = 1..Len(Sizes)
      /\ \A p \in Parts : Sizes[p] \in Nat \ {0}
      /\ \A p \in 1..(Len(Sizes) + 1) : Base(p) \in Nat
      /\ \A p \in Parts : p + 1 \in 1..(Len(Sizes) + 1) /\ Base(p + 1) = Base(p) + Sizes[p]
  BY <1>1, PartsInOrder
<1>4. Total \in Nat
  <2>1. Len(Sizes) + 1 \in 1..(Len(Sizes) + 1)
    BY <1>3
  <2> QED BY <1>3, <2>1 DEF Total
<1>5. start \in Nat /\ len \in Nat \ {0} /\ start < Total /\ start + len <= Total
  <2>1. PICK r \in file.ranges : Asked(r[1], r[2])
    BY <1>1
  <2>2. r[1] \in Nat /\ r[2] \in Nat
    BY <1>2
  <2> DEFINE last == Least(r[2], Total - 1)
  <2>3. last \in Nat /\ r[1] <= last /\ last <= Total - 1
    BY <1>4, <2>1, <2>2 DEF Asked, Least
  <2>4. start = r[1] /\ len = last - r[1] + 1
    BY <2>1 DEF Asked
  <2> HIDE DEF last
  <2> QED BY <1>4, <2>2, <2>3, <2>4
<1>6. \A p \in Parts : Stored(p) \in Nat
  <2> TAKE p \in Parts
  <2>1. EncryptedSize(Sizes[p]) \in Nat
    BY <1>3, LongerThanHeader
  <2> QED BY <1>3, <2>1 DEF Stored
<1>7. docSize \in [Parts -> Nat] /\ content \in [Parts -> Nat]
  <2>1. file.left \union {Stored(p) : p \in Parts} \subseteq Nat
    BY <1>2, <1>6
  <2> QED BY <1>1, <2>1
<1>8. Request
  BY <1>1, <1>5, <1>7 DEF Request
<1>9. Blame
  <2>1. IsFiniteSet(Parts)
    BY <1>3, FS_Interval
  <2>2. faults \in Nat /\ (faults = 0 => Cut = {} /\ Hollow = {})
    BY <1>1, <2>1, NoFaultNoLoss
  <2>3. ASSUME NEW p \in Parts, faults = 0 PROVE docSize[p] = Stored(p) /\ content[p] = docSize[p]
    <3>1. ~(docSize[p] < Stored(p)) /\ ~(content[p] < docSize[p])
      BY <2>2, <2>3 DEF Cut, Hollow
    <3> QED BY <1>1, <1>6, <1>7, <3>1
  <2>4. 1..Len(queue) = {}
    BY <1>1
  <2> QED BY <1>1, <2>2, <2>3, <2>4 DEF Blame
<1>10. /\ part \in Parts /\ Base(part) <= start /\ start < Base(part + 1)
  BY <1>1, <1>5, LocateFinds
<1>11. Base(part) \in Nat /\ Base(part + 1) = Base(part) + Sizes[part] /\ Sizes[part] \in Nat
  BY <1>3, <1>10
<1>12. skip \in Nat /\ skip < Sizes[part] /\ Base(part) + skip = start
  BY <1>1, <1>5, <1>10, <1>11
<1>13. Place
  BY <1>1, <1>10, <1>12 DEF Place, Results
<1>14. out \in Seq(Nat) /\ Len(out) = 0 /\ 1..Len(out) = {}
  BY <1>1, EmptySeq
<1>15. Sent
  <2>1. Here = skip
    BY <1>1 DEF Here
  <2>2. Aligned
    BY <1>5, <1>12, <1>14, <2>1 DEF Aligned
  <2>3. RangeExact
    BY <1>5, <1>14 DEF RangeExact
  <2> QED BY <1>5, <1>14, <2>2, <2>3 DEF Sent
<1>16. NeverShort /\ ~Merging
  BY <1>1 DEF NeverShort, Merging
<1> QED BY <1>8, <1>9, <1>13, <1>15, <1>16 DEF Serving

LEMMA ServingNext == Handling /\ Serving /\ [Next]_vars => Serving'
<1> SUFFICES ASSUME Handling, Serving, [Next]_vars PROVE Serving'
  OBVIOUS
<1>1. CASE Open
  BY <1>1, OpenServes
<1>2. CASE OpenBeyond \/ OpenFails \/ ReaderGone \/ Expire
  BY <1>2, EndingServes
<1>3. CASE HandOutPending
  BY <1>3, HandOutPendingServes
<1>4. CASE Recv
  BY <1>4, RecvServes
<1>5. CASE RecvError
  BY <1>5, RecvErrorServes
<1>6. CASE DecryptFull
  BY <1>6, DecryptFullServes
<1>7. CASE PartEnds
  BY <1>7, PartEndsServes
<1>8. CASE ContainerEnds
  BY <1>8, ContainerEndsServes
<1>9. CASE \E w \in Workers : Work(w) \/ Dies(w)
  BY <1>9, WorkServes
<1>10. CASE UNCHANGED vars
  <2>1. UNCHANGED <<request, result, out, place, next, queue, pending, nextIdx, discard,
                    held, block, worker, idx, faults>>
    BY <1>10 DEF vars, merger, crypt, trouble
  <2>2. /\ Parts' = Parts /\ (\A p : Stored(p)' = Stored(p)) /\ docSize' = docSize
        /\ content' = content /\ part' = part /\ skip' = skip /\ stream' = stream
    BY <2>1, SameRequest DEF request, place
  <2>3. Blame'
    BY <2>1, <2>2 DEF Serving, Blame
  <2>4. ASSUME Merging' PROVE Merging /\ InDocument' /\ Accounted'
    <3>1. Merging
      BY <2>1, <2>2, <2>4 DEF Merging
    <3>2. /\ From' = From /\ Chunks' = Chunks /\ FirstIdx' = FirstIdx /\ docSize'[part'] = docSize[part]
          /\ Sealed(part)' = Sealed(part) /\ Sizes' = Sizes
      BY <2>1, <2>2, SamePart, SameRequest
    <3>3. InDocument' /\ Accounted'
      BY <2>1, <2>2, <3>1, <3>2 DEF Serving, InDocument, Accounted, Fetching
    <3> QED BY <3>1, <3>3
  <2>5. faults <= faults'
    BY <2>1 DEF Serving, Blame
  <2> QED BY <2>1, <2>3, <2>4, <2>5, BesideServes
<1> QED BY <1>1, <1>2, <1>3, <1>4, <1>5, <1>6, <1>7, <1>8, <1>9, <1>10 DEF Next, Serve

LEMMA ServedAlways == Spec => [](Handling /\ Serving)
<1>1. Init => Handling /\ Serving
  BY HandlingInit, InitServes
<1>2. (Handling /\ Serving) /\ [Next]_vars => (Handling /\ Serving)'
  BY HandlingNext, ServingNext
<1> QED BY <1>1, <1>2, PTL DEF Spec

\* The bytes the client gets are those of its range, each at its place, for every file,
\* split, range, chunk and block size, and number of workers, in whatever order the
\* chunks arrive, and whatever is cut, expires or dies; but for what comes after the
\* tail of a container that was lost at the end of a block (part_stream, cap,
\* DecryptingStream).
THEOREM BytesInPlace == Spec => []RangeExact
<1>1. Serving => RangeExact
  BY DEF Serving, Sent
<1> QED BY <1>1, ServedAlways, PTL

\* A body that is shorter than its range, and is not reported, lost the tail of a
\* container where the decryptor cannot tell; and an error is reported only when
\* something failed (parts_stream_from, part_stream).
THEOREM EndsForAReason == Spec => []NeverShort
<1>1. Serving => NeverShort
  BY DEF Serving
<1> QED BY <1>1, ServedAlways, PTL

=============================================================================
