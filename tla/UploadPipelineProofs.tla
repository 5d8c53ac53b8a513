------------------------- MODULE UploadPipelineProofs -------------------------
(***************************************************************************)
(* What TLAPS proves of UploadPipeline, for every number of workers and of *)
(* parts, every channel capacity and every number of failed RPCs.          *)
(***************************************************************************)
EXTENDS UploadPipeline, TLAPS

-----------------------------------------------------------------------------
(* The channel *)

\* Sending adds the part to what is in the channel.
LEMMA AppendContent ==
  ASSUME NEW q \in Seq(Int), NEW p \in Int
  PROVE  /\ Append(q, p) \in Seq(Int)
         /\ {Append(q, p)[k] : k \in 1..Len(Append(q, p))}
              = {q[k] : k \in 1..Len(q)} \union {p}
<1> DEFINE a == Append(q, p)
<1>1. /\ a \in Seq(Int)
      /\ Len(a) = Len(q) + 1
      /\ a[Len(q) + 1] = p
      /\ \A k \in 1..Len(q) : a[k] = q[k]
  OBVIOUS
<1>2. Len(q) \in Nat
  OBVIOUS
<1>3. \A x : (\E k \in 1..Len(a) : x = a[k]) <=> (\E k \in 1..Len(q) : x = q[k]) \/ x = p
  <2>1. \A k \in 1..Len(a) : k \in 1..Len(q) \/ k = Len(q) + 1
    BY <1>1, <1>2
  <2>2. 1..Len(q) \subseteq 1..Len(a) /\ Len(q) + 1 \in 1..Len(a)
    BY <1>1, <1>2
  <2> HIDE DEF a
  <2> QED BY <1>1, <2>1, <2>2
<1> HIDE DEF a
<1>4. {a[k] : k \in 1..Len(a)} = {q[k] : k \in 1..Len(q)} \union {p}
  BY <1>3
<1> QED BY <1>1, <1>4 DEF a

Distinct(q) == \A j, k \in 1..Len(q) : q[j] = q[k] => j = k

\* A part that is not in the channel leaves it without duplicates when sent.
LEMMA AppendDistinct ==
  ASSUME NEW q \in Seq(Int), NEW p \in Int, Distinct(q),
         p \notin {q[k] : k \in 1..Len(q)}
  PROVE  Distinct(Append(q, p))
<1>1. /\ Len(Append(q, p)) = Len(q) + 1
      /\ Append(q, p)[Len(q) + 1] = p
      /\ \A k \in 1..Len(q) : Append(q, p)[k] = q[k]
      /\ Len(q) \in Nat
  OBVIOUS
<1>2. \A k \in 1..Len(q) : q[k] # p
  OBVIOUS
<1> QED BY <1>1, <1>2 DEF Distinct

\* Receiving takes the head out, and nothing else.
LEMMA TailContent ==
  ASSUME NEW q \in Seq(Int), q # <<>>, Distinct(q)
  PROVE  /\ Head(q) \in Int /\ Tail(q) \in Seq(Int)
         /\ Distinct(Tail(q))
         /\ Head(q) \notin {Tail(q)[k] : k \in 1..Len(Tail(q))}
         /\ {q[k] : k \in 1..Len(q)}
              = {Tail(q)[k] : k \in 1..Len(Tail(q))} \union {Head(q)}
<1> DEFINE s == Tail(q)
<1>1. /\ Len(q) \in Nat /\ Len(q) >= 1
      /\ Head(q) = q[1] /\ Head(q) \in Int
      /\ s \in Seq(Int) /\ Len(s) = Len(q) - 1
      /\ \A k \in 1..Len(s) : s[k] = q[k + 1]
  OBVIOUS
<1> HIDE DEF s
<1>2. \A k \in 1..Len(s) : k + 1 \in 1..Len(q) /\ k + 1 # 1
  BY <1>1
<1>3. Distinct(s)
  <2> SUFFICES ASSUME NEW j \in 1..Len(s), NEW k \in 1..Len(s), s[j] = s[k]
               PROVE  j = k
    BY DEF Distinct
  <2>1. q[j + 1] = q[k + 1]
    BY <1>1
  <2>2. j + 1 = k + 1
    BY <1>2, <2>1 DEF Distinct
  <2> QED BY <1>1, <2>2
<1>4. \A k \in 1..Len(s) : s[k] # q[1]
  <2>1. 1 \in 1..Len(q)
    BY <1>1
  <2> QED BY <1>1, <1>2, <2>1 DEF Distinct
<1>5. \A x : (\E k \in 1..Len(q) : x = q[k]) <=> (\E k \in 1..Len(s) : x = s[k]) \/ x = q[1]
  <2>1. \A k \in 1..Len(q) : k = 1 \/ (k - 1 \in 1..Len(s) /\ s[k - 1] = q[k])
    BY <1>1
  <2>2. 1 \in 1..Len(q)
    BY <1>1
  <2> QED BY <1>1, <1>2, <2>1, <2>2
<1>6. {q[k] : k \in 1..Len(q)} = {s[k] : k \in 1..Len(s)} \union {q[1]}
  BY <1>5, Zenon
<1> QED BY <1>1, <1>3, <1>4, <1>6 DEF s

-----------------------------------------------------------------------------
(* The inductive invariant *)

\* What the workers have taken and not finished, and the types.
Types ==
  /\ producer \in {"check", "read", "send", "done", "short"}
  /\ part \in 0..Total
  /\ producer \in {"read", "send"} => part < Total
  /\ queue \in Seq(Int)
  /\ worker \in [Workers -> {"recv", "rpc", "ok", "err"}]
  /\ cur \in [Workers -> Int]
  /\ failed \in Nat
  /\ result \in {"none", "ok", "err"}

\* Only parts that were sent are in the channel, with a worker, or saved.
OnlySent ==
  /\ InQueue \subseteq 0..(part - 1)
  /\ saved \subseteq 0..(part - 1)
  /\ \A w \in Workers : worker[w] = "rpc" => cur[w] \in 0..(part - 1)

\* A part is in one place.
OnePlace ==
  /\ Distinct(queue)
  /\ InQueue \intersect saved = {}
  /\ NoPartTwice

\* Until an RPC fails every part that was sent is in some place.
Accounted ==
  failed = 0 =>
    \A p \in 0..(part - 1) :
      p \in saved \union InQueue \/ \E w \in Workers : worker[w] = "rpc" /\ cur[w] = p

\* What the way each side stopped tells about the other.
Stops ==
  /\ producer = "done" => part = Total \/ failed > 0
  /\ failed > 0 <=> \E w \in Workers : worker[w] = "err"
  /\ (\E w \in Workers : worker[w] = "ok") => queue = <<>> /\ ProducerEnded
  /\ result # "none" => ProducerEnded /\ \A w \in Workers : worker[w] \in {"ok", "err"}
  /\ result = "ok" => producer = "done" /\ \A w \in Workers : worker[w] = "ok"

IndInv == Types /\ OnlySent /\ OnePlace /\ Accounted /\ Stops

LEMMA PipelineInit == Init => IndInv
<1> SUFFICES ASSUME Init PROVE IndInv
  OBVIOUS
<1>1. InQueue = {}
  BY DEF Init, InQueue
<1>2. Types
  BY TotalAssumption DEF Init, Types
<1>3. OnlySent /\ OnePlace
  BY <1>1 DEF Init, OnlySent, OnePlace, NoPartTwice, Distinct
<1>4. Accounted /\ Stops
  BY DEF Init, Accounted, Stops
<1> QED BY <1>2, <1>3, <1>4 DEF IndInv

\* The producer: a part that is sent is new to the channel, the workers and Telegram.
LEMMA ProduceKeeps == IndInv /\ Produce => IndInv'
<1> SUFFICES ASSUME IndInv, Produce PROVE IndInv'
  OBVIOUS
<1> USE TotalAssumption DEF IndInv
<1>1. CASE Check \/ ReadOk \/ ReadShort
  <2>1. UNCHANGED <<part, queue, worker, cur, failed, saved, result>>
    BY <1>1 DEF Check, ReadOk, ReadShort
  <2>2. InQueue' = InQueue
    BY <2>1 DEF InQueue
  <2>3. Types'
    BY <1>1, <2>1 DEF Types, Check, ReadOk, ReadShort
  <2>4. OnlySent' /\ OnePlace' /\ Accounted'
    BY <2>1, <2>2 DEF OnlySent, OnePlace, Accounted, NoPartTwice, Distinct
  <2>5. Stops'
    BY <1>1, <2>1 DEF Types, Stops, ProducerEnded, Check, ReadOk, ReadShort
  <2> QED BY <2>3, <2>4, <2>5
<1>2. CASE Send
  <2>1. /\ UNCHANGED <<worker, cur, failed, saved, result>>
        /\ part' = part + 1
        /\ queue' = Append(queue, part)
        /\ producer = "send" /\ producer' = "check"
    BY <1>2 DEF Send
  <2>2. InQueue' = InQueue \union {part} /\ queue' \in Seq(Int)
    BY <2>1, AppendContent DEF Types, InQueue
  <2>3. part \notin InQueue /\ part \notin saved
    BY DEF Types, OnlySent
  <2>4. Types'
    BY <2>1, <2>2 DEF Types
  <2>5. OnlySent'
    BY <2>1, <2>2 DEF Types, OnlySent
  <2>6. Distinct(queue')
    BY <2>1, <2>3, AppendDistinct DEF Types, OnePlace, InQueue
  <2>7. NoPartTwice'
    BY <2>1, <2>2 DEF OnePlace, NoPartTwice, OnlySent, Types
  <2>8. OnePlace'
    BY <2>1, <2>2, <2>3, <2>6, <2>7 DEF OnePlace
  <2>9. Accounted'
    BY <2>1, <2>2 DEF Accounted, Types
  <2>10. Stops'
    BY <2>1 DEF Stops, ProducerEnded
  <2> QED BY <2>4, <2>5, <2>8, <2>9, <2>10
<1> QED BY <1>1, <1>2 DEF Produce

LEMMA WorkKeeps == ASSUME IndInv, NEW w \in Workers, Work(w) PROVE IndInv'
<1> USE DEF IndInv
<1>1. CASE Recv(w)
  <2>1. /\ UNCHANGED <<producer, part, failed, saved, result>>
        /\ queue # <<>> /\ queue' = Tail(queue)
        /\ worker[w] = "recv" /\ worker' = [worker EXCEPT ![w] = "rpc"]
        /\ cur' = [cur EXCEPT ![w] = Head(queue)]
    BY <1>1 DEF Recv
  <2>2. /\ Head(queue) \in Int /\ queue' \in Seq(Int) /\ Distinct(queue')
        /\ Head(queue) \notin InQueue'
        /\ InQueue = InQueue' \union {Head(queue)}
    BY <2>1, TailContent DEF Types, OnePlace, InQueue
  <2>3. Types'
    BY <2>1, <2>2 DEF Types
  <2>4. OnlySent'
    BY <2>1, <2>2 DEF Types, OnlySent
  <2>5. NoPartTwice'
    BY <2>1, <2>2 DEF Types, OnePlace, NoPartTwice
  <2>6. OnePlace'
    BY <2>1, <2>2, <2>5 DEF OnePlace
  <2>7. Accounted'
    BY <2>1, <2>2 DEF Types, Accounted
  <2>8. Stops'
    BY <2>1 DEF Types, Stops, ProducerEnded
  <2> QED BY <2>3, <2>4, <2>6, <2>7, <2>8
<1>2. CASE RecvNone(w)
  <2>1. /\ UNCHANGED <<producer, part, queue, cur, failed, saved, result>>
        /\ queue = <<>> /\ ProducerEnded
        /\ worker[w] = "recv" /\ worker' = [worker EXCEPT ![w] = "ok"]
    BY <1>2 DEF RecvNone, TxDropped
  <2>2. InQueue' = InQueue /\ ProducerEnded'
    BY <2>1 DEF InQueue, ProducerEnded
  <2>3. Types'
    BY <2>1 DEF Types
  <2>4. OnlySent' /\ OnePlace' /\ Accounted'
    BY <2>1, <2>2 DEF Types, OnlySent, OnePlace, Accounted, NoPartTwice
  <2>5. Stops'
    BY <2>1, <2>2 DEF Types, Stops
  <2> QED BY <2>3, <2>4, <2>5
<1>3. CASE SaveOk(w)
  <2>1. /\ UNCHANGED <<producer, part, queue, cur, failed, result>>
        /\ saved' = saved \union {cur[w]}
        /\ worker[w] = "rpc" /\ worker' = [worker EXCEPT ![w] = "recv"]
    BY <1>3 DEF SaveOk
  <2>2. InQueue' = InQueue /\ ProducerEnded' = ProducerEnded
    BY <2>1 DEF InQueue, ProducerEnded
  <2>3. Types'
    BY <2>1 DEF Types
  <2>4. OnlySent'
    BY <2>1, <2>2 DEF Types, OnlySent
  <2>5. OnePlace'
    BY <2>1, <2>2 DEF Types, OnePlace, NoPartTwice
  <2>6. Accounted'
    BY <2>1, <2>2 DEF Types, Accounted
  <2>7. Stops'
    BY <2>1, <2>2 DEF Types, Stops
  <2> QED BY <2>3, <2>4, <2>5, <2>6, <2>7
<1>4. CASE SaveErr(w)
  <2>1. /\ UNCHANGED <<producer, part, queue, cur, saved, result>>
        /\ failed' = failed + 1
        /\ worker[w] = "rpc" /\ worker' = [worker EXCEPT ![w] = "err"]
    BY <1>4 DEF SaveErr
  <2>2. InQueue' = InQueue /\ ProducerEnded' = ProducerEnded
    BY <2>1 DEF InQueue, ProducerEnded
  <2>3. Types'
    BY <2>1 DEF Types
  <2>4. OnlySent' /\ OnePlace' /\ Accounted'
    BY <2>1, <2>2 DEF Types, OnlySent, OnePlace, Accounted, NoPartTwice
  <2>5. Stops'
    BY <2>1, <2>2 DEF Types, Stops
  <2> QED BY <2>3, <2>4, <2>5
<1> QED BY <1>1, <1>2, <1>3, <1>4 DEF Work

LEMMA JoinKeeps == IndInv /\ Join => IndInv'
<1> SUFFICES ASSUME IndInv, Join PROVE IndInv'
  OBVIOUS
<1>1. UNCHANGED <<producer, part, queue, worker, cur, failed, saved>>
  BY DEF Join
<1>2. InQueue' = InQueue /\ ProducerEnded' = ProducerEnded
  BY <1>1 DEF InQueue, ProducerEnded
<1>3. Types' /\ OnlySent' /\ OnePlace' /\ Accounted'
  BY <1>1, <1>2
     DEF Join, IndInv, Types, OnlySent, OnePlace, Accounted, NoPartTwice, Distinct
<1>4. Stops'
  BY <1>1, <1>2 DEF Join, IndInv, Types, Stops
<1> QED BY <1>3, <1>4 DEF IndInv

LEMMA PipelineStep == IndInv /\ [Next]_vars => IndInv'
<1> SUFFICES ASSUME IndInv, [Next]_vars PROVE IndInv'
  OBVIOUS
<1>1. CASE Next
  BY <1>1, ProduceKeeps, WorkKeeps, JoinKeeps DEF Next
<1>2. CASE UNCHANGED vars
  BY <1>2 DEF vars, IndInv, Types, OnlySent, OnePlace, Accounted, Stops, NoPartTwice,
              Distinct, InQueue, ProducerEnded
<1> QED BY <1>1, <1>2

-----------------------------------------------------------------------------
\* What holds when every task has ended without an error.
EndedWell == producer = "done" /\ \A w \in Workers : worker[w] = "ok"

LEMMA EndedWellSaved == ASSUME IndInv, EndedWell PROVE saved = PartIds
<1>1. /\ producer = "done"
      /\ \A w \in Workers : worker[w] = "ok"
  BY DEF EndedWell
<1>2. failed = 0
  BY <1>1 DEF IndInv, Types, Stops
<1>3. part = Total
  BY <1>1, <1>2 DEF IndInv, Stops
<1>4. queue = <<>>
  BY <1>1, WorkersAssumption DEF IndInv, Stops
<1>5. InQueue = {}
  BY <1>4 DEF InQueue
<1>6. \A p \in 0..(Total - 1) : p \in saved
  BY <1>1, <1>2, <1>3, <1>5 DEF IndInv, Accounted
<1>7. saved \subseteq 0..(Total - 1)
  BY <1>3 DEF IndInv, OnlySent
<1> QED BY <1>6, <1>7 DEF PartIds

\* No document part reaches Telegram twice, and none is lost between the channel
\* and the workers that share it.
THEOREM PartsInOnePlace == Spec => []NoPartTwice
<1>1. IndInv => NoPartTwice
  BY DEF IndInv, OnePlace
<1> QED BY PipelineInit, PipelineStep, <1>1, PTL DEF Spec

\* When upload_stream reports success Telegram has the whole document, however
\* many workers raced for the parts and wherever they failed.
LEMMA IndInvDelivered == IndInv => Delivered
<1> SUFFICES ASSUME IndInv, result = "ok" PROVE saved = PartIds
  BY DEF Delivered
<1>1. EndedWell
  BY DEF IndInv, Stops, EndedWell
<1> QED BY <1>1, EndedWellSaved

\* What upload_stream answers with Ok is at Telegram, for any number of workers and parts.
THEOREM SuccessMeansDelivered == Spec => []Delivered
BY PipelineInit, PipelineStep, IndInvDelivered, PTL DEF Spec

-----------------------------------------------------------------------------
(* UploadPipeline implements TransferContract. *)

LEMMA ContractInit == Init => Contract!Init
BY DEF Init, Contract!Init

\* What the channel, the producer and the receives do is hidden, except that the
\* reader fails.
LEMMA HiddenStep ==
  ASSUME IndInv, Produce \/ \E w \in Workers : Recv(w) \/ RecvNone(w)
  PROVE  [Contract!Next]_Contract!vars
<1>1. UNCHANGED <<saved, failed, result>>
  BY DEF Produce, Check, ReadOk, ReadShort, Send, Recv, RecvNone
<1>2. CASE ReadShort
  <2>1. result = "none"
    BY <1>2 DEF ReadShort, IndInv, Types, Stops, ProducerEnded
  <2> QED BY <1>1, <1>2, <2>1 DEF ReadShort, Contract!Next, Contract!Break
<1>3. CASE ~ReadShort
  <2>1. (producer' = "short") = (producer = "short")
    BY <1>3 DEF Produce, Check, ReadOk, Send, Recv, RecvNone
  <2> QED BY <1>1, <2>1 DEF Contract!vars
<1> QED BY <1>2, <1>3

\* A part that is saved is saved for the first time, and before the answer.
LEMMA SaveStep ==
  ASSUME IndInv, NEW w \in Workers, SaveOk(w) PROVE Contract!Next
<1>1. /\ worker[w] = "rpc" /\ saved' = saved \union {cur[w]}
      /\ UNCHANGED <<producer, failed, result>>
  BY DEF SaveOk
<1>2. result = "none"
  BY <1>1 DEF IndInv, Types, Stops
<1>3. cur[w] \notin saved
  BY <1>1 DEF IndInv, OnePlace, NoPartTwice
<1>4. cur[w] \in PartIds
  BY <1>1, TotalAssumption DEF IndInv, Types, OnlySent, PartIds
<1>5. Contract!Save
  BY <1>1, <1>2, <1>3, <1>4 DEF Contract!Save
<1> QED BY <1>5 DEF Contract!Next

LEMMA SaveErrStep ==
  ASSUME IndInv, NEW w \in Workers, SaveErr(w) PROVE Contract!Next
<1>1. /\ worker[w] = "rpc" /\ failed' = failed + 1 /\ failed \in Nat
      /\ UNCHANGED <<saved, result>>
  BY DEF SaveErr, IndInv, Types
<1>2. result = "none"
  BY <1>1 DEF IndInv, Types, Stops
<1>3. failed' > 0
  BY <1>1
<1>4. Contract!Break
  BY <1>1, <1>2, <1>3 DEF Contract!Break
<1> QED BY <1>4 DEF Contract!Next

\* The answer: success of a complete document, or an error that something earned.
LEMMA JoinStep == ASSUME IndInv, Join PROVE Contract!Next
<1>1. /\ result = "none" /\ ProducerEnded
      /\ \A w \in Workers : worker[w] \in {"ok", "err"}
      /\ result' = IF producer = "done" /\ \A w \in Workers : worker[w] = "ok"
                   THEN "ok" ELSE "err"
      /\ UNCHANGED <<producer, failed, saved>>
  BY DEF Join
<1>2. CASE producer = "done" /\ \A w \in Workers : worker[w] = "ok"
  <2>1. saved = PartIds
    BY <1>2, EndedWellSaved DEF EndedWell
  <2>2. failed = 0
    BY <1>2 DEF IndInv, Types, Stops
  <2>3. Contract!Succeed
    BY <1>1, <1>2, <2>1, <2>2 DEF Contract!Succeed
  <2> QED BY <2>3 DEF Contract!Next
<1>3. CASE ~(producer = "done" /\ \A w \in Workers : worker[w] = "ok")
  <2>1. producer = "short" \/ \E w \in Workers : worker[w] = "err"
    BY <1>1, <1>3 DEF ProducerEnded
  <2>2. failed > 0 \/ producer = "short"
    BY <2>1 DEF IndInv, Types, Stops
  <2>3. Contract!Fail
    BY <1>1, <1>3, <2>2 DEF Contract!Fail
  <2> QED BY <2>3 DEF Contract!Next
<1> QED BY <1>2, <1>3

LEMMA ContractStep == IndInv /\ [Next]_vars => [Contract!Next]_Contract!vars
<1> SUFFICES ASSUME IndInv, [Next]_vars PROVE [Contract!Next]_Contract!vars
  OBVIOUS
<1>1. CASE UNCHANGED vars
  BY <1>1 DEF vars, Contract!vars
<1>2. CASE Next
  BY <1>2, HiddenStep, SaveStep, SaveErrStep, JoinStep DEF Next, Work
<1> QED BY <1>1, <1>2

\* upload_stream keeps its promise: every step of the producer, the workers and the
\* caller is a step of TransferContract or hidden from it.
THEOREM PipelineImplements == Spec => Implements
<1>1. Spec => []IndInv
  BY PipelineInit, PipelineStep, PTL DEF Spec
<1>2. Spec => Contract!Spec
  BY <1>1, ContractInit, ContractStep, PTL DEF Spec, Contract!Spec
<1> QED BY <1>2 DEF Implements

=============================================================================
