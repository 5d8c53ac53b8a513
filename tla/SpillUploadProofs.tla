--------------------------- MODULE SpillUploadProofs ---------------------------
(***************************************************************************)
(* The part plan, for every declared size, split setting and document cap: *)
(* the parts tile the file, each fits in one Telegram document if it is    *)
(* not encrypted, and the router finds each byte's part.  On it rests the proof that what a       *)
(* direct upload records is the client's file, for every size, split,      *)
(* block, channel and number of faults.                                    *)
(***************************************************************************)
EXTENDS SpillUpload, SequenceTheorems, TLAPS

-----------------------------------------------------------------------------
(* The part plan *)

\* What integer division does.
LEMMA Division ==
  ASSUME NEW a \in Nat, NEW b \in Nat \ {0}
  PROVE  /\ a \div b \in Nat
         /\ b * (a \div b) <= a
         /\ a < b * (a \div b) + b
BY Z3

\* A larger factor gives a larger product.
LEMMA Monotone ==
  ASSUME NEW b \in Nat, NEW m \in Nat, NEW n \in Nat, m <= n
  PROVE  b * m <= b * n
BY Z3

\* div_ceil: one part less would not hold the file, and the last part is not empty.
LEMMA PartCount ==
  ASSUME NEW total \in Nat \ {0}, NEW unit \in Nat \ {0}
  PROVE  /\ NParts(total, unit) \in Nat \ {0}
         /\ unit * (NParts(total, unit) - 1) < total
         /\ total <= unit * NParts(total, unit)
<1> DEFINE n == (total + unit - 1) \div unit
<1>1. NParts(total, unit) = n
  BY DEF NParts
<1>2. n \in Nat /\ unit * n <= total + unit - 1 /\ total + unit - 1 < unit * n + unit
  <2>1. total + unit - 1 \in Nat
    OBVIOUS
  <2> QED BY <2>1, Division
<1> HIDE DEF n
<1>3. unit * (n - 1) = unit * n - unit
  BY <1>2, Z3
<1>4. total <= unit * n
  BY <1>2, Z3
<1>5. n # 0
  BY <1>2, <1>4, Z3
<1> QED BY <1>1, <1>2, <1>3, <1>4, <1>5, Z3

\* The product by a part number, spelled out for the provers.
LEMMA Successor ==
  ASSUME NEW i \in Nat, NEW unit \in Nat
  PROVE  i * unit \in Nat /\ (i + 1) * unit = i * unit + unit
BY Z3

\* PartPlan::new never computes an empty part size, nor one above the cap.
LEMMA UnitFits ==
  ASSUME NEW total \in Nat, NEW split \in Nat
  PROVE  PartSize(total, split) \in 1..DocCap
BY DocCapAssumption DEF PartSize, OverCap

\* The parts tile the file: each starts where the one before it ends, the last ends
\* at the declared size, expected() is the length of each and none is empty.
THEOREM PartsTile ==
  ASSUME NEW total \in Nat \ {0}, NEW unit \in Nat \ {0},
         NEW i \in 0..(NParts(total, unit) - 1)
  PROVE  /\ PartStart(unit, 0) = 0
         /\ PartStart(unit, i) + Expected(total, unit, i) = PartEnd(total, unit, i)
         /\ Expected(total, unit, i) \in 1..unit
         /\ i + 1 < NParts(total, unit) =>
              PartStart(unit, i + 1) = PartEnd(total, unit, i)
         /\ i + 1 = NParts(total, unit) => PartEnd(total, unit, i) = total
<1> DEFINE n == NParts(total, unit)
<1>1. n \in Nat \ {0} /\ unit * (n - 1) < total /\ total <= unit * n
  BY PartCount
<1>2. i * unit \in Nat /\ (i + 1) * unit = i * unit + unit
  BY Successor
<1>3. PartStart(unit, 0) = 0
  BY DEF PartStart
<1>4. CASE i + 1 = n
  <2>1. unit * (n - 1) = i * unit /\ unit * n = (i + 1) * unit
    BY <1>1, <1>4, Z3
  <2>2. PartEnd(total, unit, i) = total
    BY <1>1, <1>2, <2>1 DEF PartEnd
  <2>3. Expected(total, unit, i) = total - i * unit
    BY <1>4, <2>1 DEF Expected
  <2> QED BY <1>1, <1>2, <1>3, <1>4, <2>1, <2>2, <2>3 DEF PartStart
<1>5. CASE i + 1 < n
  <2>1. unit * (i + 1) <= unit * (n - 1)
    <3>1. i + 1 <= n - 1
      BY <1>1, <1>5
    <3> QED BY <1>1, <3>1, Monotone
  <2>2. (i + 1) * unit < total
    <3>1. (i + 1) * unit = unit * (i + 1)
      BY Z3
    <3>2. unit * (n - 1) \in Int /\ unit * (i + 1) \in Int
      BY <1>1
    <3> QED BY <1>1, <2>1, <3>1, <3>2
  <2>3. PartEnd(total, unit, i) = (i + 1) * unit
    BY <2>2 DEF PartEnd
  <2>4. Expected(total, unit, i) = unit
    BY <1>5 DEF Expected
  <2> QED BY <1>1, <1>2, <1>3, <1>5, <2>3, <2>4 DEF PartStart
<1> QED BY <1>1, <1>4, <1>5

\* What upload_stream is asked to send of a file of at least one byte, without
\* encryption, is never empty and never more than the 4000 blocks of a document,
\* whatever the user's split setting.
THEOREM PlainPartsFit ==
  ASSUME NEW total \in Nat \ {0}, NEW split \in Nat,
         NEW i \in 0..(NParts(total, PartSize(total, split)) - 1)
  PROVE  Expected(total, PartSize(total, split), i) \in 1..DocCap
<1> DEFINE unit == PartSize(total, split)
<1>1. unit \in Nat \ {0} /\ unit <= DocCap /\ DocCap \in Nat
  <2>1. total \in Nat
    OBVIOUS
  <2>2. unit \in 1..DocCap
    BY <2>1, UnitFits DEF unit
  <2> HIDE DEF unit
  <2> QED BY <2>2, DocCapAssumption
<1> HIDE DEF unit
<1>2. Expected(total, unit, i) \in 1..unit
  BY <1>1, PartsTile DEF unit
<1> QED BY <1>1, <1>2 DEF unit

\* A container is longer than what is in it.
LEMMA SealedIsLonger ==
  ASSUME NEW n \in Nat
  PROVE  EncryptedSize(n) \in Nat /\ n < EncryptedSize(n)
<1> DEFINE q == n \div BlockData
           r == n % BlockData
<1>1. HeaderSize \in Nat \ {0} /\ BlockTag \in Nat \ {0} /\ BlockData \in Nat \ {0}
  BY ContainerAssumption
<1>2. q \in Nat /\ r \in Nat /\ n = q * BlockData + r
  <2>1. BlockData \in Nat \ {0}
    BY <1>1
  <2> QED BY <2>1, Z3
<1> HIDE DEF q, r
<1>3. q * BlockTag \in Nat /\ q * BlockData \in Nat
      /\ q * (BlockTag + BlockData) = q * BlockTag + q * BlockData
  <2>1. BlockTag \in Nat /\ BlockData \in Nat
    BY <1>1
  <2> QED BY <1>2, <2>1, Z3
<1>4. EncryptedSize(n) = HeaderSize + q * (BlockTag + BlockData)
                           + (IF r = 0 THEN 0 ELSE BlockTag + r)
  BY DEF EncryptedSize, BlockSize, q, r
<1>5. EncryptedSize(n) \in Nat /\ HeaderSize + n <= EncryptedSize(n)
  <2> DEFINE x == q * BlockTag
             y == q * BlockData
             e == EncryptedSize(n)
  <2>1. x \in Nat /\ y \in Nat /\ n = y + r
        /\ e = HeaderSize + (x + y) + (IF r = 0 THEN 0 ELSE BlockTag + r)
    BY <1>2, <1>3, <1>4
  <2> HIDE DEF x, y, e
  <2>2. e \in Nat /\ HeaderSize + n <= e
    BY <1>1, <1>2, <2>1
  <2> QED BY <2>2 DEF e
<1> QED BY <1>1, <1>5

\* With encryption the same plan asks for too much: PartPlan::new cuts a file above
\* the cap into parts of the cap when no smaller split is set, and the container of
\* such a part has more than the 4000 blocks at which upload_stream refuses it.
THEOREM SealedCapRefused ==
  ASSUME NEW total \in Nat, NEW split \in Nat,
         total > DocCap, split = 0 \/ split >= DocCap
  PROVE  EncryptedSize(Expected(total, PartSize(total, split), 0)) > DocCap
<1>1. DocCap \in Nat \ {0}
  BY DocCapAssumption
<1>2. PartSize(total, split) = DocCap
  BY <1>1 DEF PartSize, OverCap
<1>3. Expected(total, DocCap, 0) = DocCap
  <2>1. /\ NParts(total, DocCap) \in Nat \ {0}
        /\ total <= DocCap * NParts(total, DocCap)
    BY <1>1, PartCount
  <2>2. NParts(total, DocCap) # 1
    BY <1>1, <2>1
  <2> QED BY <2>1, <2>2 DEF Expected
<1> QED BY <1>1, <1>2, <1>3, SealedIsLonger

\* The router of the streaming upload sends every byte to the one part that holds it.
THEOREM RouterAgrees ==
  ASSUME NEW total \in Nat \ {0}, NEW unit \in Nat \ {0},
         NEW pos \in 0..(total - 1)
  PROVE  LET i == OwnerOf(total, unit, pos) IN
         /\ i \in 0..(NParts(total, unit) - 1)
         /\ PartStart(unit, i) <= pos
         /\ pos < PartEnd(total, unit, i)
<1> DEFINE n == NParts(total, unit)
           d == pos \div unit
<1>1. n \in Nat \ {0} /\ unit * (n - 1) < total /\ total <= unit * n
  BY PartCount
<1>2. d \in Nat /\ unit * d <= pos /\ pos < unit * d + unit
  <2>1. pos \in Nat
    OBVIOUS
  <2> QED BY <2>1, Division
<1>3. unit * d = d * unit /\ d * unit \in Nat /\ (d + 1) * unit = d * unit + unit
  BY <1>2, Successor, Z3
<1> HIDE DEF d
<1>4. d <= n - 1
  <2> SUFFICES ASSUME n <= d PROVE FALSE
    BY <1>1, <1>2
  <2>1. unit * n <= unit * d
    BY <1>1, <1>2, Monotone
  <2>2. unit * n \in Int /\ unit * d \in Int
    BY <1>1, <1>2
  <2> QED BY <1>1, <1>2, <2>1, <2>2
<1>5. OwnerOf(total, unit, pos) = d
  BY <1>1, <1>2, <1>4 DEF OwnerOf, d
<1>6. PartStart(unit, d) <= pos /\ pos < PartEnd(total, unit, d)
  BY <1>2, <1>3 DEF PartStart, PartEnd
<1> QED BY <1>1, <1>2, <1>4, <1>5, <1>6

-----------------------------------------------------------------------------
(* The inductive invariant *)

Start(i) == PartStart(size, i)
Stop(i)   == PartEnd(declared, size, i)

Types ==
    /\ declared \in Nat /\ size \in Nat \ {0} /\ body \in Nat
    /\ fed \in Nat /\ at \in Nat /\ joined \in Nat
    /\ complete \in BOOLEAN /\ feedDone \in BOOLEAN /\ row \in BOOLEAN
    /\ file \in [Parts -> Seq(Nat)]
    /\ pump \in [Parts -> {"tail", "eof", "send", "done"}]
    /\ got \in [Parts -> Nat]
    /\ hand \in [Parts -> Seq(Nat)]
    /\ chan \in [Parts -> Seq(Seq(Nat))]
    /\ up \in [Parts -> {"name", "read", "stuck", "post", "ok", "err", "aborted"}]
    /\ doc \in [Parts -> Seq(Nat)]

(* The handler knows of the end of the feed what it then acts on: a body that ended *)
(* well is routed to its last byte, and one that is collected has the right length. *)
Feeding ==
    /\ at <= fed /\ at <= declared
    /\ pc \in {"field", "feed"} => at = fed
    /\ pc = "end" /\ complete => at = fed /\ fed = body
    /\ pc \in {"field", "feed", "route", "end"} => ~feedDone /\ joined = 0
    /\ pc \in {"collect", "join_ok", "insert"} \/ row =>
         feedDone /\ at = declared /\ body = declared
    /\ row => pc = "over"

(* What the handler has collected has its message, and keeps it until it rolls back. *)
Collected ==
    /\ pc \notin {"over", "gone"} \/ row => \A i \in Parts : up[i] = "ok" => i \in posted
    /\ pc = "collect" => joined < N /\ \A i \in 0..(joined - 1) : up[i] = "ok"
    /\ pc \in {"join_ok", "insert"} \/ row => \A i \in Parts : up[i] = "ok"

(* The buffer of a part holds the bytes routed to it, each at its place. *)
Written(i) ==
    /\ \A k \in 1..Len(file[i]) : file[i][k] = Start(i) + k
    /\ Len(file[i]) = IF at <= Start(i) THEN 0
                      ELSE IF at < Stop(i) THEN at - Start(i) ELSE Want(i)
    /\ got[i] <= Len(file[i])

(* A run of bytes in their order, known by its first. *)
Run(c) == \A j \in 1..Len(c) : c[j] = c[1] + (j - 1)

(* The byte of the body up to which a part has gone into the channel. *)
Sent(i) == LET n == Len(chan[i])
           IN  IF n = 0 THEN Start(i) + Len(doc[i]) ELSE chan[i][n][1] + Len(chan[i][n]) - 1

(* The pumper stopped because it had all there was; or on a stale end of file. *)
Exhausted(i) == \/ got[i] >= Want(i)
                \/ feedDone /\ (got[i] = Len(file[i]) \/ i \in stale)

(* An error is the last the pumper sends. *)
Broken(i) == chan[i] # <<>> /\ chan[i][Len(chan[i])] = ReadError

(* Document, channel and hand follow each other without gap up to what the pumper    *)
(* has read, until the uploader ends.                                                *)
Flowing(i) ==
    up[i] \in {"name", "read"} =>
      /\ \A k \in 1..Len(chan[i]) :
            IF chan[i][k] = ReadError THEN k = Len(chan[i]) /\ pump[i] = "done"
            ELSE /\ Run(chan[i][k])
                 /\ chan[i][k][1] = 1 + (IF k = 1 THEN Start(i) + Len(doc[i])
                                         ELSE chan[i][k - 1][1] + Len(chan[i][k - 1]) - 1)
      /\ pump[i] \in {"tail", "eof"} => Sent(i) = Start(i) + got[i]
      /\ pump[i] = "send" /\ hand[i] # ReadError =>
           /\ Run(hand[i]) /\ hand[i][1] = Sent(i) + 1
           /\ Sent(i) + Len(hand[i]) = Start(i) + got[i]
      /\ pump[i] = "done" =>
           Broken(i) \/ (Sent(i) = Start(i) + got[i] /\ Exhausted(i))

(* A document about to be posted, or posted, is all the pumper read. *)
Taken(i) ==
    /\ \A k \in 1..Len(doc[i]) : doc[i][k] = Start(i) + k
    /\ up[i] \in {"post", "ok"} =>
         pump[i] = "done" /\ Len(doc[i]) = got[i] /\ Exhausted(i)

Piped(i) == Written(i) /\ Flowing(i) /\ Taken(i)

Inv == Types /\ Feeding /\ Collected /\ \A i \in Parts : Piped(i)

-----------------------------------------------------------------------------
(* The plan of this upload; an empty body has one empty part. *)

LEMMA Layout ==
  ASSUME Types
  PROVE  /\ N \in Nat \ {0}
         /\ \A i \in Parts : /\ i \in Nat /\ Start(i) \in Nat /\ Want(i) \in Nat
                             /\ Stop(i) = Start(i) + Want(i) /\ Stop(i) <= declared
         /\ \A i, j \in Parts : i < j => Stop(i) <= Start(j)
<1> USE DEF Start, Stop, Want, N
<1>1. declared \in Nat /\ size \in Nat \ {0}
  BY DEF Types
<1>2. CASE declared = 0
  <2>1. N = 1
    BY <1>2 DEF NParts
  <2>2. size * 0 = 0 /\ 0 * size = 0 /\ (0 + 1) * size = size
    BY <1>1
  <2>3. \A i \in Parts : i = 0
    BY <2>1 DEF Parts
  <2>4. Expected(declared, size, 0) = 0
    BY <1>1, <1>2, <2>1, <2>2 DEF Expected
  <2>5. Start(0) = 0 /\ Stop(0) = 0
    BY <1>1, <1>2, <2>2 DEF PartStart, PartEnd
  <2> QED BY <1>2, <2>1, <2>3, <2>4, <2>5
<1>3. CASE declared # 0
  <2>1. N \in Nat \ {0}
    BY <1>1, <1>3, PartCount
  <2>2. ASSUME NEW i \in Parts
        PROVE  /\ i \in Nat /\ Start(i) \in Nat /\ Want(i) \in Nat
               /\ Stop(i) = Start(i) + Want(i) /\ Stop(i) <= declared
               /\ Stop(i) <= Start(i) + size
    <3>1. i \in 0..(NParts(declared, size) - 1) /\ i \in Nat
      BY <2>1 DEF Parts
    <3>2. Start(i) \in Nat /\ (i + 1) * size = Start(i) + size
      BY <1>1, <3>1, Successor DEF PartStart
    <3>3. Want(i) \in 1..size /\ Stop(i) = Start(i) + Want(i)
      BY <1>1, <1>3, <3>1, PartsTile
    <3>4. Stop(i) <= declared /\ Stop(i) <= Start(i) + size
      BY <1>1, <3>2 DEF PartEnd
    <3> QED BY <1>1, <3>1, <3>2, <3>3, <3>4
  <2>3. ASSUME NEW i \in Parts, NEW j \in Parts, i < j
        PROVE  Stop(i) <= Start(j)
    <3>1. i \in Nat /\ j \in Nat /\ Start(i) \in Nat /\ Start(j) \in Nat /\ Stop(i) <= Start(i) + size
          /\ Stop(i) \in Int
      BY <2>2
    <3>2. size * (i + 1) <= size * j
      <4>1. i + 1 \in Nat /\ i + 1 <= j
        BY <2>3, <3>1
      <4> QED BY <1>1, <3>1, <4>1, Monotone
    <3>3. size * (i + 1) = Start(i) + size /\ size * j = Start(j)
      <4>1. (i + 1) * size = i * size + size
        BY <1>1, <3>1, Successor
      <4>2. size * (i + 1) = (i + 1) * size /\ size * j = j * size
        BY <1>1, <3>1, Z3
      <4> QED BY <4>1, <4>2 DEF PartStart
    <3> QED BY <1>1, <3>1, <3>2, <3>3
  <2> QED BY <2>1, <2>2, <2>3
<1> QED BY <1>2, <1>3

(* The router: the bytes it takes next belong to one part, and fit there. *)
LEMMA TakeFits ==
  ASSUME Types, Feeding, Take > 0
  PROVE  /\ Take \in Nat \ {0} /\ Owner \in Parts
         /\ Start(Owner) <= at /\ at + Take <= Stop(Owner) /\ at + Take <= fed
<1>1. at \in Nat /\ fed \in Nat /\ declared \in Nat /\ size \in Nat \ {0} /\ at <= fed
  BY DEF Types, Feeding
<1>2. Owner \in Int
  <2>1. at \div size \in Int /\ N \in Int
    BY <1>1, Layout, Division
  <2> QED BY <2>1 DEF Owner, OwnerOf, N
<1>3. PartEnd(declared, size, Owner) \in Int /\ PartEnd(declared, size, Owner) <= declared
  <2>1. (Owner + 1) * size \in Int
    BY <1>1, <1>2
  <2> QED BY <1>1, <2>1 DEF PartEnd
<1> DEFINE o == Owner
           stop == PartEnd(declared, size, Owner)
<1>4. Take = IF fed - at < stop - at THEN fed - at ELSE stop - at
  BY DEF Take
<1> HIDE DEF stop
<1>5. at < stop /\ Take \in Nat \ {0} /\ at + Take <= stop /\ at + Take <= fed
  BY <1>1, <1>3, <1>4 DEF stop
<1>6. at \in 0..(declared - 1) /\ declared \in Nat \ {0}
  BY <1>1, <1>3, <1>5 DEF stop
<1>7. Owner \in Parts /\ Start(Owner) <= at
  BY <1>1, <1>6, RouterAgrees DEF Owner, Parts, N, Start
<1> QED BY <1>5, <1>7 DEF stop, Stop

-----------------------------------------------------------------------------
(* Sequences *)

LEMMA Longer ==
    ASSUME NEW S, NEW s \in Seq(S), NEW e \in S
    PROVE  /\ Append(s, e) \in Seq(S) /\ Len(s) \in Nat /\ Len(Append(s, e)) = Len(s) + 1
           /\ \A k \in 1..Len(s) : Append(s, e)[k] = s[k]
           /\ Append(s, e)[Len(s) + 1] = e
BY AppendProperties, LenProperties

LEMMA Shorter ==
    ASSUME NEW S, NEW s \in Seq(S), s # <<>>
    PROVE  /\ Len(s) \in Nat \ {0} /\ Tail(s) \in Seq(S) /\ Len(Tail(s)) = Len(s) - 1
           /\ Head(s) = s[1] /\ Head(s) \in S
           /\ \A k \in 1..Len(Tail(s)) : k + 1 \in 1..Len(s) /\ Tail(s)[k] = s[k + 1]
<1>1. Len(s) \in Nat /\ Len(s) # 0
  BY LenProperties, EmptySeq, HeadTailProperties
<1>2. Len(Tail(s)) = Len(s) - 1 /\ Tail(s) \in Seq(S)
      /\ \A k \in 1..Len(Tail(s)) : Tail(s)[k] = s[k + 1]
  BY HeadTailProperties
<1>3. Head(s) = s[1] /\ s[1] \in S
  BY <1>1, HeadTailProperties, ElementOfSeq
<1> QED BY <1>1, <1>2, <1>3

LEMMA Joined ==
    ASSUME NEW S, NEW s \in Seq(S), NEW t \in Seq(S)
    PROVE  /\ s \o t \in Seq(S) /\ Len(s) \in Nat /\ Len(t) \in Nat
           /\ Len(s \o t) = Len(s) + Len(t)
           /\ \A k \in 1..Len(s) : (s \o t)[k] = s[k]
           /\ \A k \in 1..Len(t) : (s \o t)[Len(s) + k] = t[k]
<1>1. Len(s) \in Nat /\ Len(t) \in Nat
  BY LenProperties
<1>2. s \o t \in Seq(S) /\ Len(s \o t) = Len(s) + Len(t)
      /\ \A k \in 1..(Len(s) + Len(t)) :
           (s \o t)[k] = IF k <= Len(s) THEN s[k] ELSE t[k - Len(s)]
  BY ConcatProperties
<1>3. ASSUME NEW k \in 1..Len(t) PROVE (s \o t)[Len(s) + k] = t[k]
  <2>1. Len(s) + k \in 1..(Len(s) + Len(t)) /\ ~(Len(s) + k <= Len(s)) /\ (Len(s) + k) - Len(s) = k
    BY <1>1
  <2> QED BY <1>2, <2>1
<1> QED BY <1>1, <1>2, <1>3

(* What a sequence has beyond its first g elements. *)
LEMMA Rest ==
    ASSUME NEW f \in Seq(Nat), NEW g \in Nat, g <= Len(f)
    PROVE  /\ SubSeq(f, g + 1, Len(f)) \in Seq(Nat)
           /\ Len(SubSeq(f, g + 1, Len(f))) = Len(f) - g
           /\ \A k \in 1..(Len(f) - g) : SubSeq(f, g + 1, Len(f))[k] = f[g + k]
<1> DEFINE n == Len(f)
           r == SubSeq(f, g + 1, n)
<1>1. n \in Nat
  BY LenProperties
<1>2. \A k \in (g + 1)..n : f[k] \in Nat
  BY <1>1, ElementOfSeq
<1> HIDE DEF n
<1>3. g + 1 \in Int /\ n \in Int
  BY <1>1
<1> SUFFICES /\ r \in Seq(Nat) /\ Len(r) = n - g
             /\ \A k \in 1..(n - g) : r[k] = f[g + k]
  BY DEF n
<1>4. /\ r \in Seq(Nat)
      /\ Len(r) = IF g + 1 <= n THEN n - (g + 1) + 1 ELSE 0
      /\ \A k \in 1..(n - (g + 1) + 1) : r[k] = f[(g + 1) + k - 1]
  BY <1>2, <1>3, SubSeqProperties
<1> HIDE DEF r
<1>5. g <= n
  BY DEF n
<1>6. ASSUME NEW k \in 1..(n - g) PROVE r[k] = f[g + k]
  <2>1. k \in 1..(n - (g + 1) + 1) /\ (g + 1) + k - 1 = g + k
    BY <1>1
  <2> QED BY <1>4, <2>1
<1> QED BY <1>1, <1>4, <1>5, <1>6

LEMMA NonEmpty ==
    ASSUME NEW S, NEW s \in Seq(S)
    PROVE  Len(s) \in Nat /\ (s # <<>> <=> Len(s) \in Nat \ {0})
BY LenProperties, EmptySeq, Shorter

-----------------------------------------------------------------------------
(* Steps that leave a part alone *)

(* A part that is not touched stays as it is; telling the pumpers of the end, a stale *)
(* part more, and an aborted, failed or stuck uploader are no harm.                   *)
LEMMA Untouched ==
    ASSUME Inv, NEW i \in Parts,
           UNCHANGED <<declared, size, at>>,
           file'[i] = file[i], pump'[i] = pump[i], got'[i] = got[i], hand'[i] = hand[i],
           chan'[i] = chan[i], doc'[i] = doc[i],
           up'[i] = up[i] \/ up'[i] \in {"err", "aborted", "stuck"},
           feedDone => feedDone', stale \subseteq stale'
    PROVE  Piped(i)'
<1>1. Start(i)' = Start(i) /\ Stop(i)' = Stop(i) /\ Want(i)' = Want(i)
  BY DEF Start, Stop, Want
<1>2. Written(i)'
  BY <1>1 DEF Inv, Piped, Written
<1>3. Sent(i)' = Sent(i) /\ Broken(i)' = Broken(i) /\ (Exhausted(i) => Exhausted(i)')
  BY <1>1 DEF Sent, Broken, Exhausted
<1>4. Flowing(i)'
  BY <1>1, <1>3 DEF Inv, Piped, Flowing
<1>5. Taken(i)'
  BY <1>1, <1>3 DEF Inv, Piped, Taken
<1> QED BY <1>2, <1>4, <1>5 DEF Piped

(* The uploader only changes its state, and goes on reading. *)
LEMMA Reading ==
    ASSUME Inv, NEW i \in Parts, up[i] \in {"name", "read"}, up'[i] \in {"name", "read"},
           UNCHANGED <<declared, size, at, file, pump, got, hand, chan, doc, feedDone, stale>>
    PROVE  Piped(i)'
<1>1. Start(i)' = Start(i) /\ Stop(i)' = Stop(i) /\ Want(i)' = Want(i)
  BY DEF Start, Stop, Want
<1>2. Written(i)'
  BY <1>1 DEF Inv, Piped, Written
<1>3. Sent(i)' = Sent(i) /\ Broken(i)' = Broken(i) /\ Exhausted(i) = Exhausted(i)'
  BY <1>1 DEF Sent, Broken, Exhausted
<1>4. Flowing(i)'
  BY <1>1, <1>3 DEF Inv, Piped, Flowing
<1>5. Taken(i)'
  BY <1>1, <1>3 DEF Inv, Piped, Taken
<1> QED BY <1>2, <1>4, <1>5 DEF Piped

-----------------------------------------------------------------------------
(* The pumper and the uploader of a part *)

(* What a pumper reads follows what it has sent. *)
LEMMA ReadFileKeeps ==
    ASSUME Inv, NEW i \in Parts, ReadFile(i)
    PROVE  Piped(i)' /\ pump' \in [Parts -> {"tail", "eof", "send", "done"}]
           /\ got' \in [Parts -> Nat] /\ hand' \in [Parts -> Seq(Nat)]
<1> DEFINE bytes == SubSeq(file[i], got[i] + 1, Len(file[i]))
<1>1. /\ pump[i] = "tail"
      /\ UNCHANGED <<declared, size, at, feedDone, stale, file, chan, doc, up>>
      /\ \/ /\ bytes = <<>> /\ pump' = [pump EXCEPT ![i] = "eof"]
            /\ got' = got /\ hand' = hand
         \/ /\ bytes # <<>> /\ pump' = [pump EXCEPT ![i] = "send"]
            /\ got' = [got EXCEPT ![i] = Len(file[i])]
            /\ hand' = [hand EXCEPT ![i] = bytes]
  BY DEF ReadFile, Pump, plan, handler, feed, ups
<1>2. /\ Start(i)' = Start(i) /\ Stop(i)' = Stop(i) /\ Want(i)' = Want(i) /\ Sent(i)' = Sent(i)
      /\ Start(i) \in Nat
  BY <1>1, Layout DEF Start, Stop, Want, Sent, Inv
<1>3. /\ file[i] \in Seq(Nat) /\ Len(file[i]) \in Nat /\ got[i] \in Nat /\ got[i] <= Len(file[i])
      /\ \A k \in 1..Len(file[i]) : file[i][k] = Start(i) + k
  BY LenProperties DEF Inv, Types, Piped, Written
<1>4. /\ bytes \in Seq(Nat) /\ Len(bytes) = Len(file[i]) - got[i]
      /\ \A k \in 1..Len(bytes) : bytes[k] = Start(i) + got[i] + k
  <2>1. /\ bytes \in Seq(Nat) /\ Len(bytes) = Len(file[i]) - got[i]
        /\ \A k \in 1..(Len(file[i]) - got[i]) : bytes[k] = file[i][got[i] + k]
    <3>1. file[i] \in Seq(Nat) /\ got[i] \in Nat /\ got[i] <= Len(file[i])
      BY <1>3
    <3> QED BY <3>1, Rest DEF bytes
  <2> HIDE DEF bytes
  <2>2. ASSUME NEW k \in 1..Len(bytes) PROVE bytes[k] = Start(i) + got[i] + k
    <3>1. got[i] + k \in 1..Len(file[i]) /\ k \in 1..(Len(file[i]) - got[i])
      BY <1>3, <2>1
    <3>2. bytes[k] = file[i][got[i] + k] /\ file[i][got[i] + k] = Start(i) + (got[i] + k)
      BY <1>3, <2>1, <3>1
    <3>3. Start(i) \in Nat /\ got[i] \in Nat /\ k \in Nat
      BY <1>2, <1>3, <3>1, <2>1
    <3> QED BY <3>2, <3>3
  <2> QED BY <2>1, <2>2
<1> HIDE DEF bytes
<1>5. Written(i)'
  BY <1>1, <1>2, <1>3 DEF Inv, Types, Piped, Written
<1>6. Taken(i)'
  BY <1>1, <1>2 DEF Inv, Piped, Taken
<1>7. Broken(i)' = Broken(i)
  BY <1>1 DEF Broken
<1>8. Flowing(i)'
  <2>1. CASE bytes = <<>>
    <3>1. pump'[i] = "eof" /\ got'[i] = got[i]
      BY <1>1, <1>4, <2>1 DEF Inv, Types
    <3> QED BY <1>1, <1>2, <3>1 DEF Inv, Piped, Flowing
  <2>2. CASE bytes # <<>>
    <3>1. pump'[i] = "send" /\ got'[i] = Len(file[i]) /\ hand'[i] = bytes
      BY <1>1, <2>2 DEF Inv, Types
    <3>2. Len(bytes) \in Nat \ {0}
      BY <1>4, <2>2, NonEmpty
    <3>3. Run(bytes) /\ bytes[1] = Start(i) + got[i] + 1
      <4>1. bytes[1] = Start(i) + got[i] + 1
        BY <1>4, <3>2
      <4>2. \A j \in 1..Len(bytes) : bytes[j] = bytes[1] + (j - 1)
        BY <1>2, <1>3, <1>4, <3>2, <4>1
      <4> QED BY <4>1, <4>2 DEF Run
    <3>4. up[i] \in {"name", "read"} => Sent(i) = Start(i) + got[i]
      BY <1>1 DEF Inv, Piped, Flowing
    <3>5. up[i] \in {"name", "read"} =>
            bytes[1] = Sent(i) + 1 /\ Sent(i) + Len(bytes) = Start(i) + Len(file[i])
      BY <1>2, <1>3, <1>4, <3>3, <3>4
    <3> QED BY <1>1, <1>2, <3>1, <3>3, <3>5 DEF Inv, Piped, Flowing
  <2> QED BY <2>1, <2>2
<1>9. pump' \in [Parts -> {"tail", "eof", "send", "done"}]
  <2>1. pump \in [Parts -> {"tail", "eof", "send", "done"}]
    BY DEF Inv, Types
  <2>2. pump' = [pump EXCEPT ![i] = "eof"] \/ pump' = [pump EXCEPT ![i] = "send"]
    BY <1>1
  <2> QED BY <2>1, <2>2
<1>10. got' \in [Parts -> Nat]
  <2>1. got \in [Parts -> Nat]
    BY DEF Inv, Types
  <2>2. Len(file[i]) \in Nat /\ (got' = got \/ got' = [got EXCEPT ![i] = Len(file[i])])
    BY <1>1, <1>3
  <2> QED BY <2>1, <2>2
<1>11. hand' \in [Parts -> Seq(Nat)]
  <2>1. hand \in [Parts -> Seq(Nat)]
    BY DEF Inv, Types
  <2>2. bytes \in Seq(Nat) /\ (hand' = hand \/ hand' = [hand EXCEPT ![i] = bytes])
    BY <1>1, <1>4
  <2> QED BY <2>1, <2>2
<1> QED BY <1>5, <1>6, <1>8, <1>9, <1>10, <1>11 DEF Piped

LEMMA AtEofKeeps ==
    ASSUME Inv, NEW i \in Parts, AtEof(i)
    PROVE  Piped(i)' /\ pump' \in [Parts -> {"tail", "eof", "send", "done"}]
<1>1. /\ pump[i] = "eof"
      /\ UNCHANGED <<declared, size, at, feedDone, file, chan, doc, up, got, hand>>
      /\ pump' = [pump EXCEPT ![i] = IF feedDone THEN "done" ELSE "tail"]
      /\ stale' = IF feedDone /\ Len(file[i]) > got[i] THEN stale \cup {i} ELSE stale
  BY DEF AtEof, Pump, plan, handler, feed, ups
<1>2. /\ Start(i)' = Start(i) /\ Stop(i)' = Stop(i) /\ Want(i)' = Want(i) /\ Sent(i)' = Sent(i)
  BY <1>1 DEF Start, Stop, Want, Sent
<1>3. pump'[i] = IF feedDone THEN "done" ELSE "tail"
  BY <1>1 DEF Inv, Types
<1>4. Written(i)'
  BY <1>1, <1>2 DEF Inv, Piped, Written
<1>5. Taken(i)'
  BY <1>1, <1>2 DEF Inv, Piped, Taken
<1>6. feedDone => Exhausted(i)'
  <2>1. got[i] \in Nat /\ Len(file[i]) \in Nat /\ got[i] <= Len(file[i])
    BY LenProperties DEF Inv, Types, Piped, Written
  <2> QED BY <1>1, <2>1 DEF Exhausted
<1>7. Flowing(i)'
  BY <1>1, <1>2, <1>3, <1>6 DEF Inv, Piped, Flowing
<1> QED BY <1>1, <1>4, <1>5, <1>7 DEF Piped, Inv, Types

LEMMA ReadFailsKeeps ==
    ASSUME Inv, NEW i \in Parts, ReadFails(i)
    PROVE  Piped(i)' /\ pump' \in [Parts -> {"tail", "eof", "send", "done"}]
           /\ hand' \in [Parts -> Seq(Nat)]
<1>1. /\ pump[i] = "tail"
      /\ UNCHANGED <<declared, size, at, feedDone, file, chan, doc, up, got, stale>>
      /\ pump' = [pump EXCEPT ![i] = "send"] /\ hand' = [hand EXCEPT ![i] = ReadError]
  BY DEF ReadFails, Pump, plan, handler, feed, ups
<1>2. /\ Start(i)' = Start(i) /\ Stop(i)' = Stop(i) /\ Want(i)' = Want(i) /\ Sent(i)' = Sent(i)
  BY <1>1 DEF Start, Stop, Want, Sent
<1>3. pump'[i] = "send" /\ hand'[i] = ReadError
  BY <1>1 DEF Inv, Types
<1>4. Written(i)'
  BY <1>1, <1>2 DEF Inv, Piped, Written
<1>5. Taken(i)'
  BY <1>1, <1>2 DEF Inv, Piped, Taken
<1>7. Flowing(i)'
  BY <1>1, <1>2, <1>3 DEF Inv, Piped, Flowing
<1>8. pump' \in [Parts -> {"tail", "eof", "send", "done"}] /\ hand' \in [Parts -> Seq(Nat)]
  BY <1>1, EmptySeq DEF Inv, Types, ReadError
<1> QED BY <1>4, <1>5, <1>7, <1>8 DEF Piped

(* A chunk, or the error, goes behind the others; to an uploader that has ended it is lost. *)
LEMMA SendKeeps ==
    ASSUME Inv, NEW i \in Parts, Send(i)
    PROVE  Piped(i)' /\ pump' \in [Parts -> {"tail", "eof", "send", "done"}]
           /\ hand' \in [Parts -> Seq(Nat)] /\ chan' \in [Parts -> Seq(Seq(Nat))]
<1> DEFINE h == hand[i]
           c == chan[i]
           n == Len(c)
<1>1. /\ pump[i] = "send"
      /\ UNCHANGED <<declared, size, at, feedDone, file, doc, up, got, stale>>
      /\ hand' = [hand EXCEPT ![i] = <<>>]
      /\ \/ /\ UpEnded(i) /\ pump' = [pump EXCEPT ![i] = "done"] /\ chan' = chan
         \/ /\ ~UpEnded(i)
            /\ chan' = [chan EXCEPT ![i] = Append(c, h)]
            /\ pump' = [pump EXCEPT ![i] =
                          IF h = ReadError \/ got[i] >= Want(i) THEN "done" ELSE "tail"]
  BY DEF Send, Pump, plan, handler, feed, ups
<1>2. Start(i)' = Start(i) /\ Stop(i)' = Stop(i) /\ Want(i)' = Want(i) /\ Start(i) \in Nat
  BY <1>1, Layout DEF Start, Stop, Want, Inv
<1>3. c \in Seq(Seq(Nat)) /\ h \in Seq(Nat) /\ got[i] \in Nat /\ up[i] \notin {"post", "ok"}
  BY <1>1 DEF Inv, Types, Piped, Taken
<1>4. /\ Append(c, h) \in Seq(Seq(Nat)) /\ n \in Nat /\ Len(Append(c, h)) = n + 1
      /\ \A k \in 1..n : Append(c, h)[k] = c[k]
      /\ Append(c, h)[n + 1] = h
  BY <1>3, Longer
<1>5. /\ pump' \in [Parts -> {"tail", "eof", "send", "done"}]
      /\ hand' \in [Parts -> Seq(Nat)] /\ chan' \in [Parts -> Seq(Seq(Nat))]
  BY <1>1, <1>4, EmptySeq DEF Inv, Types
<1>6. Written(i)'
  BY <1>1, <1>2 DEF Inv, Piped, Written
<1>7. Taken(i)'
  BY <1>1, <1>2, <1>3 DEF Inv, Piped, Taken
<1>8. CASE UpEnded(i) \/ up[i] = "stuck"
  <2>1. Flowing(i)'
    BY <1>1, <1>8 DEF UpEnded, Flowing
  <2> QED BY <1>5, <1>6, <1>7, <2>1 DEF Piped
<1>9. CASE ~UpEnded(i) /\ up[i] # "stuck"
  <2>1. /\ chan'[i] = Append(c, h) /\ up'[i] = up[i] /\ up[i] \in {"name", "read"}
        /\ pump'[i] = IF h = ReadError \/ got[i] >= Want(i) THEN "done" ELSE "tail"
    BY <1>1, <1>3, <1>9 DEF Inv, Types, UpEnded
  <2>2. /\ \A k \in 1..n : c[k] # ReadError
        /\ \A k \in 1..n : Run(c[k])
        /\ \A k \in 1..n : c[k][1] = 1 + (IF k = 1 THEN Start(i) + Len(doc[i])
                                         ELSE c[k - 1][1] + Len(c[k - 1]) - 1)
        /\ h # ReadError => /\ Run(h) /\ h[1] = Sent(i) + 1
                            /\ Sent(i) + Len(h) = Start(i) + got[i]
    BY <1>1, <2>1 DEF Inv, Piped, Flowing
  <2>3. Sent(i) = IF n = 0 THEN Start(i) + Len(doc[i]) ELSE c[n][1] + Len(c[n]) - 1
    BY DEF Sent
  <2>4. Sent(i)' = h[1] + Len(h) - 1
    BY <1>2, <1>4, <2>1 DEF Sent
  <2>5. h # ReadError => Len(h) \in Nat \ {0} /\ h[1] \in Nat
    <3>1. h # ReadError => Len(h) \in Nat \ {0}
      BY <1>3, NonEmpty DEF ReadError
    <3> QED BY <1>3, <3>1, ElementOfSeq
  <2>6. Sent(i) \in Int
    <3>1. Len(doc[i]) \in Nat
      BY LenProperties DEF Inv, Types
    <3>2. n # 0 => c[n][1] \in Int /\ Len(c[n]) \in Nat
      <4>1. n # 0 => c[n] \in Seq(Nat) /\ c[n] # <<>>
        BY <1>3, <1>4, <2>2, ElementOfSeq DEF ReadError
      <4>2. n # 0 => Len(c[n]) \in Nat \ {0}
        BY <4>1, NonEmpty
      <4> QED BY <4>1, <4>2, ElementOfSeq
    <3> QED BY <1>2, <2>3, <3>1, <3>2
  <2>7. h # ReadError => Sent(i)' = Start(i) + got[i]
    BY <1>2, <1>3, <2>2, <2>4, <2>5, <2>6
  <2>8. \A k \in 1..Len(chan'[i]) :
            IF chan'[i][k] = ReadError THEN k = Len(chan'[i]) /\ pump'[i] = "done"
            ELSE /\ Run(chan'[i][k])
                 /\ chan'[i][k][1] = 1 + (IF k = 1 THEN Start(i) + Len(doc[i])
                                         ELSE chan'[i][k - 1][1] + Len(chan'[i][k - 1]) - 1)
    <3> SUFFICES ASSUME NEW k \in 1..(n + 1)
                 PROVE  IF Append(c, h)[k] = ReadError THEN k = n + 1 /\ pump'[i] = "done"
                        ELSE /\ Run(Append(c, h)[k])
                             /\ Append(c, h)[k][1] = 1 + (IF k = 1 THEN Start(i) + Len(doc[i])
                                  ELSE Append(c, h)[k - 1][1] + Len(Append(c, h)[k - 1]) - 1)
      BY <1>4, <2>1
    <3>1. CASE k \in 1..n
      <4>1. k # 1 => k - 1 \in 1..n
        BY <1>4, <3>1
      <4>2. Append(c, h)[k] = c[k] /\ (k # 1 => Append(c, h)[k - 1] = c[k - 1])
        BY <1>4, <3>1, <4>1
      <4> QED BY <2>2, <3>1, <4>2
    <3>2. CASE k = n + 1
      <4>1. Append(c, h)[k] = h
        BY <1>4, <3>2
      <4>2. CASE h = ReadError
        BY <2>1, <3>2, <4>1, <4>2
      <4>3. CASE h # ReadError
        <5>1. k # 1 => n # 0 /\ k - 1 = n /\ Append(c, h)[k - 1] = c[n]
          BY <1>4, <3>2
        <5>2. k = 1 => n = 0
          BY <1>4, <3>2
        <5>3. h[1] = 1 + Sent(i)
          BY <2>2, <2>6, <4>3
        <5> QED BY <2>2, <2>3, <4>1, <4>3, <5>1, <5>2, <5>3
      <4> QED BY <4>2, <4>3
    <3> QED BY <1>4, <3>1, <3>2
  <2>9. h = ReadError => Broken(i)'
    <3>1. n + 1 # 0 /\ Append(c, h) # <<>>
      <4>1. n + 1 \in Nat \ {0}
        BY <1>4
      <4> QED BY <1>4, <4>1, NonEmpty
    <3> QED BY <1>4, <2>1, <3>1 DEF Broken
  <2>10. h # ReadError /\ pump'[i] = "done" => Exhausted(i)'
    BY <1>1, <1>2, <2>1 DEF Exhausted
  <2> HIDE DEF c, h, n
  <2>11. pump'[i] \in {"tail", "eof"} => Sent(i)' = Start(i)' + got'[i]
    BY <1>1, <1>2, <2>1, <2>7
  <2>12. pump'[i] = "done" => Broken(i)' \/ (Sent(i)' = Start(i)' + got'[i] /\ Exhausted(i)')
    BY <1>1, <1>2, <2>7, <2>9, <2>10
  <2>13. pump'[i] # "send"
    BY <2>1
  <2>14. Flowing(i)'
    BY <1>1, <1>2, <2>8, <2>11, <2>12, <2>13 DEF Flowing
  <2> QED BY <1>5, <1>6, <1>7, <2>14 DEF Piped
<1> QED BY <1>8, <1>9

(* The first chunk joins the document; after an error the uploader is over. *)
LEMMA ReceiveKeeps ==
    ASSUME Inv, NEW i \in Parts, Receive(i)
    PROVE  Piped(i)' /\ chan' \in [Parts -> Seq(Seq(Nat))] /\ doc' \in [Parts -> Seq(Nat)]
           /\ up' \in [Parts -> {"name", "read", "stuck", "post", "ok", "err", "aborted"}]
<1> DEFINE c == chan[i]
           d == doc[i]
           n == Len(c)
<1>1. /\ up[i] = "read" /\ c # <<>>
      /\ UNCHANGED <<declared, size, at, feedDone, file, pump, got, hand, stale>>
      /\ chan' = [chan EXCEPT ![i] = Tail(c)]
      /\ \/ Head(c) = ReadError /\ up' = [up EXCEPT ![i] = "err"] /\ doc' = doc
         \/ Head(c) # ReadError /\ up' = up /\ doc' = [doc EXCEPT ![i] = d \o Head(c)]
  BY DEF Receive, Up, plan, handler, feed, pumps
<1>2. Start(i)' = Start(i) /\ Stop(i)' = Stop(i) /\ Want(i)' = Want(i) /\ Start(i) \in Nat
  BY <1>1, Layout DEF Start, Stop, Want, Inv
<1>3. /\ c \in Seq(Seq(Nat)) /\ d \in Seq(Nat) /\ Len(d) \in Nat
  BY LenProperties DEF Inv, Types
<1>4. /\ n \in Nat \ {0} /\ Tail(c) \in Seq(Seq(Nat)) /\ Len(Tail(c)) = n - 1
      /\ Head(c) = c[1] /\ c[1] \in Seq(Nat)
      /\ \A k \in 1..(n - 1) : k + 1 \in 1..n /\ Tail(c)[k] = c[k + 1]
  BY <1>1, <1>3, Shorter
<1> HIDE DEF c, d, n
<1>5. d \o c[1] \in Seq(Nat)
  BY <1>3, <1>4, Joined
<1>6. /\ chan' \in [Parts -> Seq(Seq(Nat))] /\ doc' \in [Parts -> Seq(Nat)]
      /\ up' \in [Parts -> {"name", "read", "stuck", "post", "ok", "err", "aborted"}]
  <2>1. chan' \in [Parts -> Seq(Seq(Nat))]
    BY <1>1, <1>4 DEF Inv, Types
  <2>2. doc' = doc \/ doc' = [doc EXCEPT ![i] = d \o c[1]]
    BY <1>1, <1>4
  <2>3. doc' \in [Parts -> Seq(Nat)]
    BY <1>5, <2>2 DEF Inv, Types
  <2>4. up' \in [Parts -> {"name", "read", "stuck", "post", "ok", "err", "aborted"}]
    BY <1>1 DEF Inv, Types
  <2> QED BY <2>1, <2>3, <2>4
<1>7. Written(i)'
  BY <1>1, <1>2 DEF Inv, Piped, Written
<1>8. CASE c[1] = ReadError
  <2>1. up'[i] = "err" /\ doc'[i] = doc[i]
    BY <1>1, <1>4, <1>8 DEF Inv, Types
  <2>2. Flowing(i)'
    BY <2>1 DEF Flowing
  <2>3. Taken(i)'
    BY <1>1, <1>2, <2>1 DEF Inv, Piped, Taken
  <2> QED BY <1>6, <1>7, <2>2, <2>3 DEF Piped
<1>9. CASE c[1] # ReadError
  <2> DEFINE m == Len(c[1])
             e == d \o c[1]
             t == Tail(c)
  <2> HIDE DEF e, t, m
  <2>1. up'[i] = "read" /\ doc'[i] = e /\ chan'[i] = t
    BY <1>1, <1>4, <1>9 DEF Inv, Types, e, t
  <2>2. m \in Nat \ {0}
    BY <1>4, <1>9, NonEmpty DEF ReadError, m
  <2>3. /\ Len(e) = Len(d) + m
        /\ \A k \in 1..Len(d) : e[k] = d[k]
        /\ \A k \in 1..m : e[Len(d) + k] = c[1][k]
    BY <1>3, <1>4, Joined DEF e, m
  <2>4. /\ \A k \in 1..n :
            IF c[k] = ReadError THEN k = n /\ pump[i] = "done"
            ELSE /\ Run(c[k])
                 /\ c[k][1] = 1 + (IF k = 1 THEN Start(i) + Len(d)
                                   ELSE c[k - 1][1] + Len(c[k - 1]) - 1)
    BY <1>1 DEF Inv, Piped, Flowing, c, d, n
  <2>5. Run(c[1]) /\ c[1][1] = 1 + (Start(i) + Len(d))
    <3>1. 1 \in 1..n
      BY <1>4
    <3> QED BY <1>9, <2>4, <3>1
  <2>6. Taken(i)'
    <3>1. \A k \in 1..Len(d) : d[k] = Start(i) + k
      BY DEF Inv, Piped, Taken, d
    <3>2. ASSUME NEW k \in 1..Len(e) PROVE e[k] = Start(i) + k
      <4>1. CASE k <= Len(d)
        BY <1>3, <2>3, <3>1, <4>1
      <4>2. CASE k > Len(d)
        <5>1. k - Len(d) \in 1..m /\ Len(d) + (k - Len(d)) = k
          <6>1. k \in Nat /\ k <= Len(d) + m
            BY <1>3, <2>2, <2>3
          <6> QED BY <1>3, <2>2, <4>2, <6>1
        <5>2. e[k] = c[1][k - Len(d)]
          BY <2>3, <5>1
        <5>3. c[1][k - Len(d)] = c[1][1] + ((k - Len(d)) - 1)
          BY <2>5, <5>1 DEF Run, m
        <5> QED BY <1>2, <1>3, <2>5, <5>1, <5>2, <5>3
      <4> QED BY <1>3, <2>2, <2>3, <4>1, <4>2
    <3> QED BY <1>2, <2>1, <3>2 DEF Taken
  <2>7. Len(t) = n - 1 /\ \A k \in 1..(n - 1) : k + 1 \in 1..n /\ t[k] = c[k + 1]
    BY <1>4 DEF t
  <2>8. /\ \A k \in 1..Len(t) :
            IF t[k] = ReadError THEN k = Len(t) /\ pump[i] = "done"
            ELSE /\ Run(t[k])
                 /\ t[k][1] = 1 + (IF k = 1 THEN Start(i) + Len(e)
                                   ELSE t[k - 1][1] + Len(t[k - 1]) - 1)
    <3> SUFFICES ASSUME NEW k \in 1..(n - 1)
                 PROVE  IF t[k] = ReadError THEN k = n - 1 /\ pump[i] = "done"
                        ELSE /\ Run(t[k])
                             /\ t[k][1] = 1 + (IF k = 1 THEN Start(i) + Len(e)
                                   ELSE t[k - 1][1] + Len(t[k - 1]) - 1)
      BY <1>4, <2>7
    <3>1. k + 1 \in 1..n /\ t[k] = c[k + 1] /\ k + 1 # 1 /\ (k + 1) - 1 = k
      BY <1>4, <2>7
    <3>2. IF c[k + 1] = ReadError THEN k + 1 = n /\ pump[i] = "done"
          ELSE Run(c[k + 1]) /\ c[k + 1][1] = 1 + (c[k][1] + Len(c[k]) - 1)
      BY <2>4, <3>1
    <3>3. CASE k = 1
      <4>1. c[k][1] + Len(c[k]) - 1 = Start(i) + Len(e)
        BY <1>2, <1>3, <2>2, <2>3, <2>5, <3>3 DEF m
      <4> QED BY <1>4, <3>1, <3>2, <3>3, <4>1
    <3>4. CASE k # 1
      <4>1. k - 1 \in 1..(n - 1) /\ (k - 1) + 1 = k
        BY <1>4, <3>4
      <4>2. t[k - 1] = c[k]
        BY <2>7, <4>1
      <4> QED BY <1>4, <3>1, <3>2, <3>4, <4>2
    <3> QED BY <3>3, <3>4
  <2>9. Sent(i)' = Sent(i)
    <3>1. Sent(i) = c[n][1] + Len(c[n]) - 1
      BY <1>4 DEF Sent, c, n
    <3>2. CASE n = 1
      <4>1. Sent(i)' = Start(i) + Len(e)
        <5>1. Len(t) = 0
          BY <2>7, <3>2
        <5> QED BY <1>2, <2>1, <5>1 DEF Sent
      <4> QED BY <1>2, <1>3, <2>2, <2>3, <2>5, <3>1, <3>2, <4>1 DEF m
    <3>3. CASE n # 1
      <4>1. n - 1 \in 1..(n - 1) /\ (n - 1) + 1 = n /\ n - 1 # 0
        <5>1. n \in Nat /\ n >= 2
          BY <1>4, <3>3
        <5> QED BY <5>1
      <4>2. t[n - 1] = c[n]
        BY <2>7, <4>1
      <4> QED BY <2>1, <2>7, <3>1, <4>1, <4>2 DEF Sent
    <3> QED BY <3>2, <3>3
  <2>10. Broken(i) => Broken(i)'
    <3> SUFFICES ASSUME c[n] = ReadError PROVE t # <<>> /\ t[Len(t)] = ReadError
      BY <2>1 DEF Broken, c, n
    <3>1. n # 1
      BY <1>9
    <3>2. n - 1 \in 1..(n - 1) /\ (n - 1) + 1 = n /\ n - 1 \in Nat \ {0}
      <4>1. n \in Nat /\ n >= 2
        BY <1>4, <3>1
      <4> QED BY <4>1
    <3>3. t # <<>>
      BY <1>4, <2>7, <3>2, NonEmpty DEF t
    <3> QED BY <2>7, <3>2, <3>3
  <2>11. Exhausted(i)' = Exhausted(i)
    BY <1>1, <1>2 DEF Exhausted
  <2>12. /\ pump[i] \in {"tail", "eof"} => Sent(i) = Start(i) + got[i]
         /\ pump[i] = "send" /\ hand[i] # ReadError =>
              /\ Run(hand[i]) /\ hand[i][1] = Sent(i) + 1
              /\ Sent(i) + Len(hand[i]) = Start(i) + got[i]
         /\ pump[i] = "done" =>
              Broken(i) \/ (Sent(i) = Start(i) + got[i] /\ Exhausted(i))
    BY <1>1 DEF Inv, Piped, Flowing
  <2>13. Flowing(i)'
    <3>1. pump' = pump /\ hand' = hand /\ got' = got /\ Start(i)' = Start(i)
      BY <1>1, <1>2
    <3>2. \A k \in 1..Len(chan'[i]) :
            IF chan'[i][k] = ReadError THEN k = Len(chan'[i]) /\ pump'[i] = "done"
            ELSE /\ Run(chan'[i][k])
                 /\ chan'[i][k][1] = 1 + (IF k = 1 THEN Start(i)' + Len(doc'[i])
                                   ELSE chan'[i][k - 1][1] + Len(chan'[i][k - 1]) - 1)
      BY <2>1, <2>8, <3>1
    <3> QED BY <2>9, <2>10, <2>11, <2>12, <3>1, <3>2 DEF Flowing
  <2> QED BY <1>6, <1>7, <2>6, <2>13 DEF Piped
<1> QED BY <1>8, <1>9

(* The channel is closed and empty: the document is what the pumper read. *)
LEMMA ReceiveEndKeeps ==
    ASSUME Inv, NEW i \in Parts, ReceiveEnd(i)
    PROVE  Piped(i)'
<1>1. /\ up[i] = "read" /\ chan[i] = <<>> /\ pump[i] = "done"
      /\ UNCHANGED <<declared, size, at, feedDone, file, pump, got, hand, stale, chan, doc>>
      /\ up'[i] \in {"post", "err"}
  BY DEF ReceiveEnd, Up, plan, handler, feed, pumps, Inv, Types
<1>2. Start(i)' = Start(i) /\ Stop(i)' = Stop(i) /\ Want(i)' = Want(i) /\ Start(i) \in Nat
  BY <1>1, Layout DEF Start, Stop, Want, Inv
<1>3. Written(i)'
  BY <1>1, <1>2 DEF Inv, Piped, Written
<1>4. Len(doc[i]) = got[i] /\ Exhausted(i)
  <2>1. Sent(i) = Start(i) + Len(doc[i])
    <3>1. Len(chan[i]) = 0
      BY <1>1, EmptySeq
    <3> QED BY <3>1 DEF Sent
  <2>2. Sent(i) = Start(i) + got[i] /\ Exhausted(i)
    BY <1>1 DEF Inv, Piped, Flowing, Broken
  <2>3. Len(doc[i]) \in Nat /\ got[i] \in Nat
    BY LenProperties DEF Inv, Types
  <2> QED BY <1>2, <2>1, <2>2, <2>3
<1>5. Exhausted(i)'
  BY <1>1, <1>2, <1>4 DEF Exhausted
<1>6. Taken(i)'
  BY <1>1, <1>2, <1>4, <1>5 DEF Inv, Piped, Taken
<1>7. Flowing(i)'
  BY <1>1 DEF Flowing
<1> QED BY <1>3, <1>6, <1>7 DEF Piped

(* Posting tells the handler, or fails. *)
LEMMA PostKeeps ==
    ASSUME Inv, NEW i \in Parts, Post(i)
    PROVE  Piped(i)'
<1>1. /\ up[i] = "post"
      /\ UNCHANGED <<declared, size, at, feedDone, file, pump, got, hand, stale, chan, doc>>
      /\ up'[i] \in {"ok", "err"}
  BY DEF Post, Up, plan, handler, feed, pumps, Inv, Types
<1>2. Start(i)' = Start(i) /\ Stop(i)' = Stop(i) /\ Want(i)' = Want(i)
  BY <1>1 DEF Start, Stop, Want
<1>3. Written(i)'
  BY <1>1, <1>2 DEF Inv, Piped, Written
<1>4. Exhausted(i)' = Exhausted(i)
  BY <1>1, <1>2 DEF Exhausted
<1>5. Taken(i)'
  BY <1>1, <1>2, <1>4 DEF Inv, Piped, Taken
<1>6. Flowing(i)'
  BY <1>1 DEF Flowing
<1> QED BY <1>3, <1>5, <1>6 DEF Piped

-----------------------------------------------------------------------------
(* The router *)

(* The owner's buffer grows by the bytes that belong there, the others are full or *)
(* wait for theirs.                                                                *)
LEMMA RouteKeeps ==
    ASSUME Inv, Route
    PROVE  /\ \A i \in Parts : Piped(i)'
           /\ at' \in Nat /\ at' <= fed /\ at' <= declared
           /\ file' \in [Parts -> Seq(Nat)]
<1> DEFINE o == Owner
           t == Take
           b == [k \in 1..t |-> at + k]
<1>1. /\ pc = "route" /\ t > 0
      /\ file' = [file EXCEPT ![o] = file[o] \o b]
      /\ at' = at + t
      /\ UNCHANGED <<declared, size, feedDone, pump, got, hand, chan, up, doc, stale>>
  BY DEF Route, plan, pumps, ups
<1>2. /\ t \in Nat \ {0} /\ o \in Parts
      /\ Start(o) <= at /\ at + t <= Stop(o) /\ at + t <= fed
  BY <1>1, TakeFits DEF Inv
<1> HIDE DEF o, t
<1>3. at \in Nat /\ fed \in Nat /\ declared \in Nat /\ ~feedDone
  BY <1>1 DEF Inv, Types, Feeding
<1>4. b \in Seq(Nat) /\ Len(b) = t /\ \A k \in 1..t : b[k] = at + k
  BY <1>2, <1>3
<1> HIDE DEF b
<1>5. \A i \in Parts : file[i] \in Seq(Nat) /\ Len(file[i]) \in Nat
  BY LenProperties DEF Inv, Types
<1>6. /\ file[o] \o b \in Seq(Nat) /\ Len(file[o] \o b) = Len(file[o]) + t
      /\ \A k \in 1..Len(file[o]) : (file[o] \o b)[k] = file[o][k]
      /\ \A k \in 1..t : (file[o] \o b)[Len(file[o]) + k] = b[k]
  <2>1. file[o] \in Seq(Nat)
    BY <1>2, <1>5
  <2> QED BY <1>4, <2>1, Joined
<1>7. /\ \A i \in Parts : /\ i \in Nat /\ Start(i) \in Nat /\ Want(i) \in Nat
                          /\ Stop(i) = Start(i) + Want(i) /\ Stop(i) <= declared
      /\ \A i, j \in Parts : i < j => Stop(i) <= Start(j)
  BY Layout DEF Inv
<1>8. at' \in Nat /\ at' <= fed /\ at' <= declared /\ file' \in [Parts -> Seq(Nat)]
  <2>1. file' \in [Parts -> Seq(Nat)]
    BY <1>1, <1>6 DEF Inv, Types
  <2> QED BY <1>1, <1>2, <1>3, <1>7, <2>1
<1>9. ASSUME NEW i \in Parts PROVE Piped(i)'
  <2>1. /\ Start(i)' = Start(i) /\ Stop(i)' = Stop(i) /\ Want(i)' = Want(i)
        /\ Sent(i)' = Sent(i) /\ Broken(i)' = Broken(i)
    BY <1>1 DEF Start, Stop, Want, Sent, Broken
  <2>2. Exhausted(i) => Exhausted(i)'
    BY <1>1, <1>3, <2>1 DEF Exhausted
  <2>3. Flowing(i)'
    BY <1>1, <2>1, <2>2 DEF Inv, Piped, Flowing
  <2>4. Taken(i)'
    BY <1>1, <2>1, <2>2 DEF Inv, Piped, Taken
  <2>5. /\ \A k \in 1..Len(file[i]) : file[i][k] = Start(i) + k
        /\ Len(file[i]) = IF at <= Start(i) THEN 0
                          ELSE IF at < Stop(i) THEN at - Start(i) ELSE Want(i)
        /\ got[i] <= Len(file[i]) /\ got[i] \in Nat
    BY DEF Inv, Types, Piped, Written
  <2>6. CASE i = o
    <3>1. file'[i] = file[o] \o b
      BY <1>1, <2>6 DEF Inv, Types
    <3>2. Len(file[o]) = at - Start(o) /\ Start(o) \in Nat /\ Stop(o) = Start(o) + Want(o)
      BY <1>2, <1>3, <1>7, <2>5, <2>6
    <3>3. Len(file'[i]) = at' - Start(o)
      <4>1. Len(file'[i]) = Len(file[o]) + t
        BY <1>6, <3>1
      <4> QED BY <1>1, <1>2, <1>3, <3>2, <4>1
    <3>4. ASSUME NEW k \in 1..Len(file'[i]) PROVE file'[i][k] = Start(i) + k
      <4>1. CASE k <= Len(file[o])
        BY <1>5, <1>6, <2>5, <2>6, <3>1, <4>1
      <4>2. CASE k > Len(file[o])
        <5>1. k - Len(file[o]) \in 1..t /\ Len(file[o]) + (k - Len(file[o])) = k
          <6>1. Len(file'[i]) = Len(file[o]) + t /\ Len(file[o]) \in Nat
            BY <1>2, <1>5, <1>6, <3>1
          <6>2. k \in Nat /\ k <= Len(file[o]) + t
            BY <6>1, <1>2
          <6> QED BY <1>2, <4>2, <6>1, <6>2
        <5>2. file'[i][k] = at + (k - Len(file[o]))
          BY <1>4, <1>6, <3>1, <5>1
        <5> QED BY <1>3, <2>6, <3>2, <5>1, <5>2
      <4>3. Len(file[o]) \in Nat
        BY <1>2, <1>5
      <4> QED BY <4>1, <4>2, <4>3
    <3>5. Len(file'[i]) = IF at' <= Start(i) THEN 0
                          ELSE IF at' < Stop(i) THEN at' - Start(i) ELSE Want(i)
      BY <1>1, <1>2, <1>3, <1>7, <2>6, <3>2, <3>3
    <3>6. got[i] <= Len(file'[i])
      BY <1>1, <1>2, <1>3, <2>5, <2>6, <3>2, <3>3
    <3>7. Written(i)'
      BY <1>1, <2>1, <3>4, <3>5, <3>6 DEF Written
    <3> QED BY <2>3, <2>4, <3>7 DEF Piped
  <2>7. CASE i # o
    <3>1. file'[i] = file[i]
      BY <1>1, <1>2, <2>7 DEF Inv, Types
    <3>2. \/ Stop(i) <= Start(o)
          \/ Stop(o) <= Start(i)
      <4>1. i < o \/ o < i
        <5>1. i \in Nat /\ o \in Nat
          BY <1>2, <1>7
        <5> QED BY <2>7, <5>1
      <4> QED BY <1>2, <1>7, <4>1
    <3>3. Len(file[i]) = IF at' <= Start(i) THEN 0
                         ELSE IF at' < Stop(i) THEN at' - Start(i) ELSE Want(i)
      <4>1. /\ Start(i) \in Nat /\ Want(i) \in Nat /\ Stop(i) = Start(i) + Want(i)
            /\ Start(o) \in Nat /\ Want(o) \in Nat /\ Stop(o) = Start(o) + Want(o)
        BY <1>2, <1>7
      <4>2. CASE Stop(i) <= Start(o)
        BY <1>1, <1>2, <1>3, <2>5, <4>1, <4>2
      <4>3. CASE Stop(o) <= Start(i)
        BY <1>1, <1>2, <1>3, <2>5, <4>1, <4>3
      <4> QED BY <3>2, <4>2, <4>3
    <3>4. Written(i)'
      BY <1>1, <2>1, <2>5, <3>1, <3>3 DEF Written
    <3> QED BY <2>3, <2>4, <3>4 DEF Piped
  <2> QED BY <2>6, <2>7
<1> QED BY <1>8, <1>9

-----------------------------------------------------------------------------
(* The invariant holds *)

LEMMA InvInit == Init => Inv
<1> SUFFICES ASSUME Init PROVE Inv
  OBVIOUS
<1>1. declared \in Nat /\ body \in Nat /\ size \in Nat \ {0}
  <2>1. declared \in Nat /\ body \in Nat
    BY SpillAssumption DEF Init
  <2>2. PICK split \in Splits : size = PartSize(declared, split)
    BY DEF Init
  <2>3. split \in Nat
    BY SpillAssumption
  <2>4. size \in 1..DocCap
    BY <2>1, <2>2, <2>3, UnitFits
  <2> QED BY <2>1, <2>4, DocCapAssumption
<1>2. Types
  <2>1. <<>> \in Seq(Nat) /\ <<>> \in Seq(Seq(Nat))
    BY EmptySeq
  <2> QED BY <1>1, <2>1 DEF Init, Types
<1>3. Feeding
  BY <1>1 DEF Init, Feeding
<1>4. Collected
  BY DEF Init, Collected
<1>5. ASSUME NEW i \in Parts PROVE Piped(i)
  <2>1. /\ Start(i) \in Nat /\ Want(i) \in Nat
    BY <1>2, Layout
  <2>2. /\ file[i] = <<>> /\ got[i] = 0 /\ hand[i] = <<>> /\ chan[i] = <<>>
        /\ up[i] = "name" /\ doc[i] = <<>> /\ at = 0
        /\ pump[i] = IF Want(i) = 0 THEN "done" ELSE "tail"
    BY DEF Init
  <2>3. Written(i)
    BY <2>1, <2>2 DEF Written
  <2>4. Sent(i) = Start(i) + got[i]
    BY <2>1, <2>2 DEF Sent
  <2>5. Flowing(i)
    BY <2>1, <2>2, <2>4 DEF Flowing, Exhausted
  <2>6. Taken(i)
    BY <2>2 DEF Taken
  <2> QED BY <2>3, <2>5, <2>6 DEF Piped
<1> QED BY <1>2, <1>3, <1>4, <1>5 DEF Inv

(* The steps of the handler that move no byte. *)
LEMMA HandlerKeeps ==
    ASSUME Inv,
           \/ FieldFound \/ FieldMissing \/ Chunk \/ BodyEnds \/ FeedFails \/ End
           \/ AbortFeed \/ Join \/ CollectOk \/ CollectErr \/ Insert \/ HangUp
    PROVE  Inv'
<1>1. UNCHANGED <<plan, at, file, pumps, chan, doc, stale>>
  BY DEF FieldFound, FieldMissing, Chunk, BodyEnds, FeedFails, End, AbortFeed, Join, CollectOk,
         CollectErr, Insert, HangUp, plan, feed, pumps, ups, AbortAll
<1>2. UNCHANGED <<declared, size, body>> /\ UNCHANGED <<pump, got, hand>>
  BY <1>1 DEF plan, pumps
<1>3. /\ up' \in [Parts -> {"name", "read", "stuck", "post", "ok", "err", "aborted"}]
      /\ \A i \in Parts : /\ up'[i] = up[i] \/ up'[i] \in {"err", "aborted"}
                          /\ up[i] = "ok" => up'[i] = "ok"
  <2>1. CASE AbortFeed
    BY <2>1 DEF AbortFeed, AbortAll, UpEnded, Inv, Types
  <2>2. CASE CollectErr
    BY <2>2 DEF CollectErr, UpEnded, Inv, Types
  <2>3. CASE ~AbortFeed /\ ~CollectErr
    <3>1. up' = up
      BY <2>3 DEF FieldFound, FieldMissing, Chunk, BodyEnds, FeedFails, End, Join, CollectOk,
                  Insert, HangUp, ups
    <3> QED BY <3>1 DEF Inv, Types
  <2> QED BY <2>1, <2>2, <2>3
<1>4. feedDone => feedDone'
  BY DEF FieldFound, FieldMissing, Chunk, BodyEnds, FeedFails, End, AbortFeed, Join, CollectOk,
         CollectErr, Insert, HangUp, feed
<1>5. Parts' = Parts /\ N' = N /\ N \in Nat \ {0}
  BY <1>2, Layout DEF Parts, N, Inv
<1>6. \A i \in Parts : Piped(i)'
  <2> SUFFICES ASSUME NEW i \in Parts PROVE Piped(i)'
    OBVIOUS
  <2> QED BY <1>1, <1>2, <1>3, <1>4, Untouched
<1>7. fed' \in Nat /\ joined' \in Nat /\ complete' \in BOOLEAN /\ feedDone' \in BOOLEAN
      /\ row' \in BOOLEAN
  <2>1. fed' \in Nat
    <3>1. CASE Chunk
      <4>1. PICK n \in 1..MaxChunk : fed' = fed + n
        BY <3>1 DEF Chunk
      <4> QED BY <4>1, SpillAssumption DEF Inv, Types
    <3>2. CASE ~Chunk
      BY <3>2 DEF FieldFound, FieldMissing, BodyEnds, FeedFails, End, AbortFeed, Join,
                  CollectOk, CollectErr, Insert, HangUp, feed, Inv, Types
    <3> QED BY <3>1, <3>2
  <2>2. joined' \in Nat
    BY DEF FieldFound, FieldMissing, Chunk, BodyEnds, FeedFails, End, AbortFeed, Join,
           CollectOk, CollectErr, Insert, HangUp, Inv, Types
  <2>3. complete' \in BOOLEAN /\ feedDone' \in BOOLEAN
    BY DEF FieldFound, FieldMissing, Chunk, BodyEnds, FeedFails, End, AbortFeed, Join,
           CollectOk, CollectErr, Insert, HangUp, feed, Inv, Types
  <2>4. row' \in BOOLEAN
    BY DEF FieldFound, FieldMissing, Chunk, BodyEnds, FeedFails, End, AbortFeed, Join,
           CollectOk, CollectErr, Insert, HangUp, Inv, Types
  <2> QED BY <2>1, <2>2, <2>3, <2>4
<1>8. Types'
  BY <1>1, <1>2, <1>3, <1>5, <1>7 DEF Inv, Types
<1>9. Feeding'
  <2>1. Feeding /\ at \in Nat /\ fed \in Nat /\ at' = at /\ declared' = declared /\ body' = body
    BY <1>1, <1>2 DEF Inv, Types
  <2>2. CASE Chunk
    <3>1. PICK n \in 1..MaxChunk : fed' = fed + n
      BY <2>2 DEF Chunk
    <3>2. pc' = "route" \/ (pc' = "end" /\ complete' = FALSE)
      <4>1. CASE fed' > Limit
        BY <2>2, <4>1 DEF Chunk
      <4>2. CASE ~(fed' > Limit)
        BY <2>2, <4>2 DEF Chunk
      <4> QED BY <4>1, <4>2
    <3>3. at <= fed'
      BY <2>1, <3>1, SpillAssumption DEF Feeding
    <3>4. pc = "feed" /\ UNCHANGED <<feedDone, joined, row>>
      BY <2>2 DEF Chunk
    <3> QED BY <2>1, <3>3, <3>4, <3>2 DEF Feeding
  <2>3. CASE FieldFound \/ FieldMissing \/ BodyEnds \/ FeedFails
    BY <2>1, <2>3 DEF Feeding, FieldFound, FieldMissing, BodyEnds, FeedFails, feed
  <2>4. CASE End
    BY <2>1, <2>4 DEF Feeding, End
  <2>5. CASE AbortFeed \/ Join \/ CollectOk \/ CollectErr \/ Insert
    BY <2>1, <2>5 DEF Feeding, AbortFeed, Join, CollectOk, CollectErr, Insert, feed
  <2>6. CASE HangUp
    BY <2>1, <2>6 DEF Feeding, HangUp
  <2> QED BY <2>2, <2>3, <2>4, <2>5, <2>6
<1>10. Collected'
  <2>1. Collected /\ Feeding /\ joined \in Nat
    BY DEF Inv, Types
  <2>2. CASE FieldFound \/ FieldMissing \/ Chunk \/ BodyEnds \/ FeedFails
    BY <1>3, <1>5, <2>1, <2>2 DEF FieldFound, FieldMissing, Chunk, BodyEnds, FeedFails,
                                  ups, Collected, Feeding
  <2>3. CASE End
    BY <1>3, <1>5, <2>1, <2>3 DEF End, ups, Collected, Feeding
  <2>4. CASE AbortFeed
    BY <1>3, <1>5, <2>1, <2>4 DEF AbortFeed, AbortAll, Collected, Feeding
  <2>5. CASE Join
    BY <1>3, <1>5, <2>1, <2>5 DEF Join, ups, Collected, Feeding
  <2>6. CASE CollectOk
    <3>1. /\ pc = "collect" /\ up[joined] = "ok" /\ joined' = joined + 1
          /\ pc' = IF joined' = N THEN "join_ok" ELSE "collect"
          /\ UNCHANGED <<row, posted, up>>
      BY <2>6 DEF CollectOk, ups
    <3>2. ~row /\ joined < N /\ \A i \in 0..(joined - 1) : up[i] = "ok"
      BY <2>1, <3>1 DEF Collected, Feeding
    <3>3. \A i \in 0..joined : up[i] = "ok"
      BY <2>1, <3>1, <3>2
    <3>4. joined' = N => \A i \in Parts : up[i] = "ok"
      BY <1>5, <2>1, <3>1, <3>3 DEF Parts
    <3>5. joined' # N => joined' < N /\ \A i \in 0..(joined' - 1) : up[i] = "ok"
      BY <1>5, <2>1, <3>1, <3>2, <3>3
    <3>6. \A i \in Parts : up[i] = "ok" => i \in posted
      BY <2>1, <3>1 DEF Collected
    <3> QED BY <1>5, <3>1, <3>2, <3>4, <3>5, <3>6 DEF Collected
  <2>7. CASE CollectErr
    BY <1>3, <1>5, <2>1, <2>7 DEF CollectErr, Collected, Feeding
  <2>8. CASE Insert
    BY <1>3, <1>5, <2>1, <2>8 DEF Insert, Collected, Feeding
  <2>9. CASE HangUp
    BY <1>3, <1>5, <2>1, <2>9 DEF HangUp, ups, Collected, Feeding
  <2> QED BY <2>2, <2>3, <2>4, <2>5, <2>6, <2>7, <2>8, <2>9
<1> QED BY <1>5, <1>6, <1>8, <1>9, <1>10 DEF Inv

(* A pumper changes only its part's file, hand and channel. *)
LEMMA PumpKeeps ==
    ASSUME Inv, NEW i \in Parts, PumpPart(i)
    PROVE  Inv'
<1>1. UNCHANGED <<declared, size, body, pc, joined, row, fed, at, complete, feedDone, file, up,
                  doc, posted>>
  BY DEF PumpPart, ReadFile, AtEof, Send, ReadFails, plan, handler, feed, ups
<1>2. /\ Piped(i)' /\ pump' \in [Parts -> {"tail", "eof", "send", "done"}]
      /\ got' \in [Parts -> Nat] /\ hand' \in [Parts -> Seq(Nat)]
      /\ chan' \in [Parts -> Seq(Seq(Nat))]
  <2>1. CASE ReadFile(i)
    BY <2>1, ReadFileKeeps DEF ReadFile, Inv, Types
  <2>2. CASE AtEof(i)
    BY <2>2, AtEofKeeps DEF AtEof, Inv, Types
  <2>3. CASE Send(i)
    BY <2>3, SendKeeps DEF Send, Inv, Types
  <2>4. CASE ReadFails(i)
    BY <2>4, ReadFailsKeeps DEF ReadFails, Inv, Types
  <2> QED BY <2>1, <2>2, <2>3, <2>4 DEF PumpPart
<1>3. /\ \A j \in Parts \ {i} : /\ pump'[j] = pump[j] /\ got'[j] = got[j]
                                /\ hand'[j] = hand[j] /\ chan'[j] = chan[j]
      /\ stale \subseteq stale'
  BY DEF PumpPart, ReadFile, AtEof, Send, ReadFails, Pump, Inv, Types
<1>4. \A j \in Parts \ {i} : Piped(j)'
  <2> SUFFICES ASSUME NEW j \in Parts, j # i PROVE Piped(j)'
    OBVIOUS
  <2> QED BY <1>1, <1>3, Untouched
<1>5. Parts' = Parts /\ N' = N
  BY <1>1 DEF Parts, N
<1>6. Types' /\ Feeding' /\ Collected'
  <2>1. Types'
    BY <1>1, <1>2, <1>5 DEF Inv, Types
  <2>2. Feeding'
    BY <1>1 DEF Inv, Feeding
  <2>3. Collected'
    BY <1>1, <1>5 DEF Inv, Collected
  <2> QED BY <2>1, <2>2, <2>3
<1> QED BY <1>2, <1>4, <1>5, <1>6 DEF Inv

(* An uploader changes only its part's channel and document, and becomes "ok" when it *)
(* has posted.                                                                        *)
LEMMA UploadKeeps ==
    ASSUME Inv, NEW i \in Parts, UploadPart(i)
    PROVE  Inv'
<1>1. UNCHANGED <<declared, size, body, pc, joined, row, fed, at, complete, feedDone, file,
                  pump, got, hand, stale>>
  BY DEF UploadPart, LearnName, Receive, ReceiveEnd, UploadFails, UploadHangs, Post, plan, handler, feed, pumps
<1>2. /\ \A j \in Parts \ {i} : chan'[j] = chan[j] /\ doc'[j] = doc[j] /\ up'[j] = up[j]
      /\ up[i] # "ok" /\ posted \subseteq posted'
      /\ up'[i] = "ok" => i \in posted'
      /\ up' \in [Parts -> {"name", "read", "stuck", "post", "ok", "err", "aborted"}]
  BY DEF UploadPart, LearnName, Receive, ReceiveEnd, UploadFails, UploadHangs, Post, Up, Inv, Types
<1>3. Piped(i)' /\ chan' \in [Parts -> Seq(Seq(Nat))] /\ doc' \in [Parts -> Seq(Nat)]
  <2>1. CASE LearnName(i)
    <3>1. UNCHANGED <<chan, doc>> /\ up[i] = "name" /\ up'[i] \in {"read", "err"}
      BY <2>1 DEF LearnName, Up, Inv, Types
    <3>2. CASE up'[i] = "read"
      BY <1>1, <3>1, <3>2, Reading DEF Inv, Types
    <3>3. CASE up'[i] = "err"
      BY <1>1, <3>1, <3>3, Untouched DEF Inv, Types
    <3> QED BY <3>1, <3>2, <3>3
  <2>2. CASE Receive(i)
    BY <2>2, ReceiveKeeps
  <2>3. CASE ReceiveEnd(i)
    BY <2>3, ReceiveEndKeeps DEF ReceiveEnd, Inv, Types
  <2>4. CASE UploadFails(i) \/ UploadHangs(i)
    <3>1. UNCHANGED <<chan, doc>> /\ up'[i] \in {"err", "stuck"}
      BY <2>4 DEF UploadFails, UploadHangs, Up, Inv, Types
    <3> QED BY <1>1, <3>1, Untouched DEF Inv, Types
  <2>5. CASE Post(i)
    BY <2>5, PostKeeps DEF Post, Inv, Types
  <2> QED BY <2>1, <2>2, <2>3, <2>4, <2>5 DEF UploadPart
<1>4. \A j \in Parts \ {i} : Piped(j)'
  <2> SUFFICES ASSUME NEW j \in Parts, j # i PROVE Piped(j)'
    OBVIOUS
  <2> QED BY <1>1, <1>2, Untouched
<1>5. Parts' = Parts /\ N' = N
  BY <1>1 DEF Parts, N
<1>6. Types' /\ Feeding'
  <2>1. Types'
    BY <1>1, <1>2, <1>3, <1>5 DEF Inv, Types
  <2>2. Feeding'
    BY <1>1 DEF Inv, Feeding
  <2> QED BY <2>1, <2>2
<1>7. Collected'
  <2>1. \A j \in Parts : up[j] = "ok" => up'[j] = "ok"
    BY <1>2
  <2>2. pc \notin {"over", "gone"} \/ row => \A j \in Parts : up'[j] = "ok" => j \in posted'
    BY <1>2 DEF Inv, Collected
  <2>3. pc = "collect" => \A j \in 0..(joined - 1) : up'[j] = "ok"
    <3> SUFFICES ASSUME pc = "collect", NEW j \in 0..(joined - 1) PROVE up'[j] = "ok"
      OBVIOUS
    <3>1. up[j] = "ok" /\ joined < N
      BY DEF Inv, Collected
    <3>2. j \in Parts
      BY <3>1, Layout DEF Inv, Types, Parts
    <3> QED BY <2>1, <3>1, <3>2
  <2> QED BY <1>1, <1>5, <2>1, <2>2, <2>3 DEF Inv, Collected
<1> QED BY <1>3, <1>4, <1>5, <1>6, <1>7 DEF Inv

LEMMA InvNext == Inv /\ [Next]_vars => Inv'
<1> SUFFICES ASSUME Inv, [Next]_vars PROVE Inv'
  OBVIOUS
<1>1. CASE Route
  <2>1. UNCHANGED <<declared, size, body, fed, complete, feedDone, joined, row, pump, got, hand,
                    chan, up, doc, posted>>
        /\ pc = "route" /\ pc' \in {"feed", "route"} /\ (pc' = "feed" => at' = fed)
    BY <1>1 DEF Route, plan, pumps, ups
  <2>2. Parts' = Parts /\ N' = N
    BY <2>1 DEF Parts, N
  <2>3. Types'
    BY <1>1, <2>1, <2>2, RouteKeeps DEF Inv, Types
  <2>4. Feeding'
    BY <1>1, <2>1, RouteKeeps DEF Inv, Feeding
  <2>5. Collected'
    BY <2>1, <2>2 DEF Inv, Collected
  <2> QED BY <1>1, <2>2, <2>3, <2>4, <2>5, RouteKeeps DEF Inv
<1>2. CASE BodyStep \/ (Handle /\ ~Route)
  BY <1>2, HandlerKeeps DEF BodyStep, Handle
<1>3. CASE HangUp
  BY <1>3, HandlerKeeps
<1>4. CASE \E i \in Parts : PumpPart(i) \/ UploadPart(i)
  BY <1>4, PumpKeeps, UploadKeeps
<1>5. CASE UNCHANGED vars
  <2>1. UNCHANGED <<declared, size, body, fed, at, complete, feedDone, joined, row, pump, got,
                    hand, chan, up, doc, posted, pc, file, stale>>
    BY <1>5 DEF vars, plan, handler, feed, pumps, ups
  <2>2. Parts' = Parts /\ N' = N
    BY <2>1 DEF Parts, N
  <2>3. \A i \in Parts : Piped(i)'
    <3> SUFFICES ASSUME NEW i \in Parts PROVE Piped(i)'
      OBVIOUS
    <3> QED BY <2>1, Untouched
  <2>4. Types'
    BY <2>1, <2>2 DEF Inv, Types
  <2>5. Feeding' /\ Collected'
    BY <2>1, <2>2 DEF Inv, Feeding, Collected
  <2> QED BY <2>2, <2>3, <2>4, <2>5 DEF Inv
<1> QED BY <1>1, <1>2, <1>3, <1>4, <1>5 DEF Next

LEMMA InvSuffices == Inv => StoredUnlessStale
<1> SUFFICES ASSUME Inv, row PROVE StoredUnlessStale
  BY DEF StoredUnlessStale
<1>1. body = declared /\ at = declared /\ at \in Nat
  BY DEF Inv, Types, Feeding
<1>2. ASSUME NEW i \in Parts
      PROVE  /\ i \in posted /\ IsPrefix(doc[i], BytesOf(i))
             /\ doc[i] = BytesOf(i) \/ i \in stale
  <2>1. up[i] = "ok" /\ i \in posted
    BY DEF Inv, Collected
  <2>2. /\ \A k \in 1..Len(doc[i]) : doc[i][k] = Start(i) + k
        /\ Len(doc[i]) = got[i] /\ Exhausted(i) /\ got[i] <= Len(file[i])
    BY <2>1 DEF Inv, Piped, Taken, Written
  <2>3. /\ Start(i) \in Nat /\ Want(i) \in Nat /\ Stop(i) = Start(i) + Want(i)
        /\ Stop(i) <= declared
    BY Layout DEF Inv
  <2>4. Len(file[i]) = Want(i)
    BY <1>1, <2>3 DEF Inv, Piped, Written
  <2>5. doc[i] \in Seq(Nat) /\ got[i] \in Nat
    BY DEF Inv, Types
  <2> DEFINE d == doc[i]
             b == BytesOf(i)
  <2>6. b \in Seq(Nat) /\ Len(b) = Want(i) /\ \A k \in 1..Want(i) : b[k] = Start(i) + k
    BY <2>3 DEF BytesOf, Start
  <2>7. d \in Seq(Nat) /\ Len(d) = got[i] /\ got[i] <= Want(i)
        /\ \A k \in 1..Len(d) : d[k] = b[k] /\ b[k] \in Nat
    BY <2>2, <2>3, <2>4, <2>5, <2>6
  <2>8. got[i] = Want(i) \/ i \in stale
    BY <2>2, <2>3, <2>4, <2>5 DEF Exhausted
  <2> HIDE DEF d, b
  <2>9. IsPrefix(d, b)
    <3>1. SubSeq(d, 1, Len(d)) = d
      BY <2>7, SubSeqFull
    <3>2. SubSeq(b, 1, Len(d)) = d
      <4>1. Len(d) \in Nat /\ \A k \in 1..Len(d) : b[k] \in Nat
        BY <2>5, <2>7
      <4>2. /\ SubSeq(b, 1, Len(d)) \in Seq(Nat)
            /\ Len(SubSeq(b, 1, Len(d))) = IF 1 <= Len(d) THEN Len(d) - 1 + 1 ELSE 0
            /\ \A k \in 1..(Len(d) - 1 + 1) : SubSeq(b, 1, Len(d))[k] = b[1 + k - 1]
        BY <4>1, SubSeqProperties
      <4>3. Len(SubSeq(b, 1, Len(d))) = Len(d)
        BY <4>1, <4>2
      <4>4. \A k \in 1..Len(d) : SubSeq(b, 1, Len(d))[k] = d[k]
        BY <2>7, <4>1, <4>2
      <4> QED BY <2>7, <4>2, <4>3, <4>4, SeqEqual
    <3> QED BY <2>6, <2>7, <3>1, <3>2 DEF IsPrefix
  <2>10. d = b \/ i \in stale
    <3>1. ASSUME got[i] = Want(i) PROVE d = b
      BY <2>6, <2>7, <3>1, SeqEqual
    <3> QED BY <2>8, <3>1
  <2> QED BY <2>1, <2>9, <2>10 DEF d, b
<1> QED BY <1>1, <1>2 DEF StoredUnlessStale

(* Whatever the router, the pumpers and the uploaders overtake, and whatever fails: a   *)
(* recorded file has its declared length and each part's bytes, but for a part that     *)
(* ended on a stale end of file (spill_upload and its part uploaders in upload.rs).     *)
THEOREM RecordedIsReceived == Spec => []StoredUnlessStale
<1>1. Init => Inv
  BY InvInit
<1>2. Inv /\ [Next]_vars => Inv'
  BY InvNext
<1>3. Inv => StoredUnlessStale
  BY InvSuffices
<1> QED BY <1>1, <1>2, <1>3, PTL DEF Spec

-----------------------------------------------------------------------------
(* UploadContract *)

LEMMA PlanFixed == [Next]_vars => UNCHANGED <<declared, size, body>>
BY DEF Next, BodyStep, Handle, PumpPart, UploadPart, FieldFound, FieldMissing, Chunk, Route, BodyEnds,
       FeedFails, End, AbortFeed, Join, CollectOk, CollectErr, Insert, HangUp, ReadFile, AtEof,
       Send, ReadFails, LearnName, Receive, ReceiveEnd, UploadFails, UploadHangs, Post, vars, plan

LEMMA ContractInit == Init => Contract!Init
BY InvInit DEF Init, Inv, Types, Contract!Init

(* What a row names is there. *)
LEMMA DocumentsThere ==
  ASSUME Inv, row PROVE Contract!Kept(Documents, {Document(i) : i \in posted})
<1>1. N \in Nat /\ Documents = [i \in 1..N |-> Document(i - 1)] /\ Len(Documents) = N
  BY Layout DEF Inv, Documents
<1>2. ASSUME NEW i \in 1..N PROVE i - 1 \in posted
  <2>1. i - 1 \in Parts
    BY <1>1 DEF Parts
  <2> QED BY <2>1 DEF Inv, Collected
<1> QED BY <1>1, <1>2 DEF Contract!Kept

(* The pieces of a file that no pumper closed early. *)
LEMMA WholeFile ==
  ASSUME Inv, row, stale = {} PROVE Contract!IsTheFile(Documents)
<1> DEFINE cut == [i \in 0..N |-> IF i = N THEN declared ELSE Start(i)]
<1>1. N \in Nat \ {0} /\ Documents = [i \in 1..N |-> Document(i - 1)] /\ Len(Documents) = N
  BY Layout DEF Inv, Documents
<1>2. declared \in Nat /\ Start(0) = 0
  BY DEF Inv, Types, Start, PartStart
<1>3. ASSUME NEW i \in Parts
      PROVE  /\ doc[i] = [k \in 1..Want(i) |-> Start(i) + k]
             /\ Want(i) \in Nat /\ (Want(i) # 0 \/ declared = 0) /\ Start(i) \in 0..declared
             /\ cut[i] = Start(i) /\ cut[i + 1] = Start(i) + Want(i)
  <2>1. doc[i] = [k \in 1..Want(i) |-> Start(i) + k]
    BY InvSuffices DEF StoredUnlessStale, BytesOf, Start
  <2>2. /\ i \in 0..(N - 1) /\ Start(i) \in Nat /\ Want(i) \in Nat
        /\ Stop(i) = Start(i) + Want(i) /\ Stop(i) <= declared
    BY Layout DEF Inv, Parts
  <2>3. size \in Nat \ {0}
    BY DEF Inv, Types
  <2>4. CASE declared = 0
    <3>1. N = 1 /\ i = 0 /\ Start(i) = 0 /\ Want(i) = 0
      BY <2>2, <2>4 DEF N, NParts
    <3> QED BY <1>2, <2>1, <2>4, <3>1
  <2>5. CASE declared # 0
    <3>1. declared \in Nat \ {0}
      BY <1>2, <2>5
    <3>2. /\ Want(i) \in 1..size
          /\ i + 1 < N => Start(i + 1) = Stop(i)
          /\ i + 1 = N => Stop(i) = declared
      BY <2>2, <2>3, <3>1, PartsTile DEF N, Want, Start, Stop
    <3>3. cut[i] = Start(i) /\ cut[i + 1] = Stop(i)
      BY <1>1, <2>2, <3>2
    <3> QED BY <1>2, <2>1, <2>2, <3>2, <3>3
  <2> QED BY <2>4, <2>5
<1>4. cut \in [0..N -> 0..declared] /\ cut[0] = 0 /\ cut[N] = declared
  <2>1. \A i \in 0..N : cut[i] \in 0..declared
    <3> SUFFICES ASSUME NEW i \in 0..N PROVE cut[i] \in 0..declared
      OBVIOUS
    <3>1. CASE i = N
      BY <1>1, <1>2, <3>1
    <3>2. CASE i # N
      <4>1. i \in Parts
        BY <1>1, <3>2 DEF Parts
      <4>2. cut[i] = Start(i) /\ Start(i) \in 0..declared
        BY <1>3, <4>1
      <4> QED BY <4>2
    <3> QED BY <3>1, <3>2
  <2> QED BY <1>1, <1>2, <2>1
<1>5. ASSUME NEW i \in 1..N
      PROVE  /\ cut[i - 1] < cut[i] \/ declared = 0
             /\ Documents[i].data = [k \in 1..(cut[i] - cut[i - 1]) |-> cut[i - 1] + k]
  <2> HIDE DEF cut
  <2>1. PICK j \in Parts : j = i - 1 /\ j + 1 = i
    BY <1>1 DEF Parts
  <2>2. /\ Want(j) \in Nat /\ (Want(j) # 0 \/ declared = 0) /\ Start(j) \in Nat
        /\ cut[j] = Start(j) /\ cut[i] = Start(j) + Want(j)
    <3>1. cut[j + 1] = Start(j) + Want(j) /\ cut[j] = Start(j)
      BY <1>3
    <3>2. Want(j) \in Nat /\ (Want(j) # 0 \/ declared = 0) /\ Start(j) \in 0..declared
      BY <1>3
    <3> QED BY <1>2, <2>1, <3>1, <3>2
  <2>3. cut[i] - cut[j] = Want(j) /\ (cut[j] < cut[i] \/ declared = 0)
    BY <2>2
  <2>4. Documents[i].data = [k \in 1..Want(j) |-> Start(j) + k]
    BY <1>1, <1>3, <2>1 DEF Document
  <2> QED BY <2>1, <2>2, <2>3, <2>4
<1> HIDE DEF cut
<1>6. \E c \in [0..N -> 0..declared] :
        /\ c[0] = 0 /\ c[N] = declared
        /\ \A i \in 1..N :
             /\ c[i - 1] < c[i] \/ declared = 0
             /\ Documents[i].data = [k \in 1..(c[i] - c[i - 1]) |-> c[i - 1] + k]
  BY <1>4, <1>5
<1>7. Len(Documents) = N
  BY <1>1
<1> QED BY <1>6, <1>7 DEF Contract!IsTheFile

(* What the row names is there and, unless a pumper closed a part early, the file. *)
Sound ==
    row => /\ Contract!Kept(Documents, {Document(i) : i \in posted})
           /\ Documents # <<>>
           /\ stale = {} => Contract!IsTheFile(Documents)

LEMMA DocumentsSound == Inv => Sound
<1> SUFFICES ASSUME Inv, row PROVE Sound
  BY DEF Sound
<1>1. Documents # <<>>
  <2>1. N \in Nat \ {0} /\ Documents = [i \in 1..N |-> Document(i - 1)]
    BY Layout DEF Inv, Documents
  <2>2. Len(Documents) # 0
    BY <2>1
  <2> QED BY <2>2
<1> QED BY <1>1, DocumentsThere, WholeFile DEF Sound

(* A recorded upload is left alone: its tasks have ended, its handler has. *)
LEMMA DocumentsStay ==
  ASSUME Inv, row, [Next]_vars PROVE row' /\ Documents' = Documents
<1>1. /\ pc = "over" /\ \A i \in Parts : up[i] = "ok"
      /\ UNCHANGED <<declared, size>>
  BY PlanFixed DEF Inv, Feeding, Collected
<1>2. N' = N /\ Parts' = Parts /\ Parts = 0..(N - 1) /\ N \in Nat
  BY <1>1, Layout DEF N, Parts, Inv
<1>3. UNCHANGED <<row, doc>>
  <2>1. CASE BodyStep \/ Handle \/ HangUp
    BY <1>1, <2>1 DEF BodyStep, Handle, HangUp, FieldFound, FieldMissing, Chunk, Route, BodyEnds, FeedFails,
       End, AbortFeed, Join, CollectOk, CollectErr, Insert
  <2>2. ASSUME NEW i \in Parts, PumpPart(i) PROVE UNCHANGED <<row, doc>>
    BY <2>2 DEF PumpPart, ReadFile, AtEof, Send, ReadFails, handler, ups
  <2>3. ASSUME NEW i \in Parts, UploadPart(i) PROVE FALSE
    BY <1>1, <2>3 DEF UploadPart, LearnName, Receive, ReceiveEnd, UploadFails, UploadHangs, Post
  <2>4. CASE UNCHANGED vars
    BY <2>4 DEF vars, handler, ups
  <2> QED BY <2>1, <2>2, <2>3, <2>4 DEF Next
<1> QED BY <1>2, <1>3 DEF Documents, Document

(* The row appears in persist_row, and nothing else changes. *)
LEMMA RowAppears ==
  ASSUME Inv, [Next]_vars, ~row, row'
  PROVE  UNCHANGED <<posted, doc, stale, declared, size>>
<1>1. CASE BodyStep \/ Handle \/ HangUp
  BY <1>1 DEF BodyStep, Handle, HangUp, FieldFound, FieldMissing, Chunk, Route, BodyEnds, FeedFails, End,
     AbortFeed, Join, CollectOk, CollectErr, Insert, plan, handler, feed, pumps, ups
<1>2. ASSUME NEW i \in Parts, PumpPart(i) \/ UploadPart(i) PROVE UNCHANGED row
  BY <1>2 DEF PumpPart, UploadPart, ReadFile, AtEof, Send, ReadFails, LearnName, Receive,
     ReceiveEnd, UploadFails, UploadHangs, Post, handler
<1>3. CASE UNCHANGED vars
  BY <1>3 DEF vars, handler
<1> QED BY <1>1, <1>2, <1>3 DEF Next

(* An early end of file changes nothing else that the client could see. *)
LEMMA OnlyAnEndTears ==
  ASSUME Inv, [Next]_vars, stale' # stale
  PROVE  stale' # {} /\ UNCHANGED <<row, posted, doc, declared, size>>
<1>1. CASE BodyStep \/ Handle \/ HangUp
  BY <1>1 DEF BodyStep, Handle, HangUp, FieldFound, FieldMissing, Chunk, Route, BodyEnds, FeedFails, End,
     AbortFeed, Join, CollectOk, CollectErr, Insert
<1>2. ASSUME NEW i \in Parts, PumpPart(i)
      PROVE  stale' # {} /\ UNCHANGED <<row, posted, doc, declared, size>>
  BY <1>2 DEF PumpPart, ReadFile, AtEof, Send, ReadFails, plan, handler, ups
<1>3. ASSUME NEW i \in Parts, UploadPart(i) PROVE FALSE
  BY <1>3 DEF UploadPart, LearnName, Receive, ReceiveEnd, UploadFails, UploadHangs, Post
<1>4. CASE UNCHANGED vars
  BY <1>4 DEF vars
<1> QED BY <1>1, <1>2, <1>3, <1>4 DEF Next

LEMMA ContractStep == Inv /\ [Next]_vars => [Contract!Next]_Contract!vars
<1> SUFFICES ASSUME Inv, [Next]_vars PROVE Contract!Next
  BY DEF Contract!vars
<1> USE DEF Contract!Next
<1>1. Inv' /\ UNCHANGED <<declared, size>>
  BY InvNext, PlanFixed
<1>2. Sound'
  <2>1. Inv' => Sound'
    BY DocumentsSound, PTL
  <2> QED BY <1>1, <2>1
<1>3. CASE row <=> row'
  <2>1. row => Documents' = Documents
    BY DocumentsStay
  <2>2. (IF row THEN {Documents} ELSE {})' = (IF row THEN {Documents} ELSE {})
    BY <1>3, <2>1
  <2>3. CASE (stale # {})' = (stale # {})
    <3>1. row => Contract!Kept(Documents, {Document(i)' : i \in posted'})
      BY <1>2, <1>3, <2>1 DEF Sound, Contract!Kept
    <3>2. Contract!PostOrDelete
      BY <1>1, <2>2, <2>3, <3>1 DEF Contract!PostOrDelete
    <3> QED BY <3>2
  <2>4. CASE (stale # {})' # (stale # {})
    <3>1. stale' # {} /\ UNCHANGED <<posted, doc>>
      BY <2>4, OnlyAnEndTears
    <3>2. {Document(i)' : i \in posted'} = {Document(i) : i \in posted}
      BY <3>1 DEF Document
    <3>3. Contract!Tear
      BY <1>1, <2>2, <3>1, <3>2 DEF Contract!Tear
    <3> QED BY <3>3
  <2> QED BY <2>3, <2>4
<1>4. CASE ~row /\ row'
  <2>1. UNCHANGED <<posted, doc, stale>>
    BY <1>4, RowAppears
  <2>2. {Document(i)' : i \in posted'} = {Document(i) : i \in posted}
    BY <2>1 DEF Document
  <2>3. stale # {} \/ Contract!IsTheFile(Documents')
    <3>1. stale' = {} => Contract!IsTheFile(Documents)'
      BY <1>2, <1>4 DEF Sound
    <3> QED BY <1>1, <2>1, <3>1 DEF Contract!IsTheFile
  <2>4. Documents' # <<>> /\ Contract!Kept(Documents', {Document(i) : i \in posted})
    BY <1>2, <1>4, <2>2 DEF Sound, Contract!Kept
  <2>5. Contract!Record
    BY <1>1, <1>4, <2>1, <2>2, <2>3, <2>4 DEF Contract!Record
  <2> QED BY <2>5
<1>5. CASE row /\ ~row'
  BY <1>5, DocumentsStay
<1> QED BY <1>3, <1>4, <1>5

(* A direct upload keeps the promise of UploadContract: every step of the handler, the *)
(* pumpers and the uploaders posts or deletes documents, closes a part early, records  *)
(* the file, or changes nothing of these.                                              *)
THEOREM SpillImplements == Spec => Implements
<1>1. Spec => []Inv
  BY InvInit, InvNext, PTL DEF Spec
<1>2. Spec => Contract!Spec
  BY <1>1, ContractInit, ContractStep, PTL DEF Spec, Contract!Spec
<1> QED BY <1>2 DEF Implements

=============================================================================
