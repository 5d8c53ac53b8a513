-------------------------- MODULE ResumeUploadProofs --------------------------
(***************************************************************************)
(* What TLAPS proves of ResumeUpload, for every number of handlers, every  *)
(* declared size, every split setting, and every set of faults.            *)
(***************************************************************************)
EXTENDS ResumeUpload, FiniteSetTheorems, SequenceTheorems, TLAPS

-----------------------------------------------------------------------------
(* The plan of an upload of at least one byte *)

\* The product by a part number, spelled out for the provers.
LEMMA Successor ==
  ASSUME NEW i \in Nat, NEW size \in Nat
  PROVE  i * size \in Nat /\ (i + 1) * size = i * size + size
BY Z3

LEMMA PlanSize ==
  ASSUME NEW declared \in Nat, NEW split \in Nat
  PROVE  PartSize(declared, split) \in 1..DocCap
BY DocCapAssumption DEF PartSize, OverCap

\* div_ceil: the last part is not empty, and holds what the others leave.
LEMMA PlanCount ==
  ASSUME NEW declared \in Nat \ {0}, NEW size \in Nat \ {0}
  PROVE  /\ NParts(declared, size) \in Nat \ {0}
         /\ (NParts(declared, size) - 1) * size < declared
         /\ declared <= (NParts(declared, size) - 1) * size + size
<1> DEFINE n == (declared + size - 1) \div size
<1>1. n \in Nat /\ size * n <= declared + size - 1 /\ declared + size - 1 < size * n + size
  BY Z3
<1> HIDE DEF n
<1>2. n # 0
  BY <1>1, Z3
<1>3. (n - 1) * size = size * n - size
  BY <1>1, Z3
<1>4. size * n \in Nat
  BY <1>1
<1> QED BY <1>1, <1>2, <1>3, <1>4 DEF NParts, n

\* Part i ends where part_end() says, and is not empty.
LEMMA PlanPart ==
  ASSUME NEW declared \in Nat \ {0}, NEW size \in Nat \ {0},
         NEW i \in 0..(NParts(declared, size) - 1)
  PROVE  /\ PartStart(size, i) + Expected(declared, size, i) = PartEnd(declared, size, i)
         /\ Expected(declared, size, i) \in 1..size
<1> DEFINE n == NParts(declared, size)
<1>1. /\ n \in Nat \ {0} /\ (n - 1) * size < declared /\ declared <= (n - 1) * size + size
      /\ i \in Nat /\ i <= n - 1
  BY PlanCount
<1> HIDE DEF n
<1>2. i * size \in Nat /\ (i + 1) * size = i * size + size
  BY <1>1, Successor
<1>3. CASE i = n - 1
  <2>1. size * (n - 1) = i * size
    BY <1>1, <1>3, Z3
  <2> QED BY <1>1, <1>2, <1>3, <2>1 DEF PartStart, Expected, PartEnd, n
<1>4. CASE i < n - 1
  <2>1. (i + 1) * size <= (n - 1) * size
    BY <1>1, <1>4, Z3
  <2>2. (n - 1) * size \in Int
    BY <1>1
  <2> QED BY <1>1, <1>2, <1>4, <2>1, <2>2 DEF PartStart, Expected, PartEnd, n
<1> QED BY <1>1, <1>3, <1>4

-----------------------------------------------------------------------------
(* Types *)

\* The body of a chunk ends inside the declared size: what chunk() checked when
\* it began still holds when it acknowledges.
SpansFit == \A r \in Reqs : span[r].off + span[r].len <= Declared

TypeInv == TypeOK /\ SpansFit

\* A handler that ends leaves locals of the right types behind.
LEMMA ReturnTyped ==
  ASSUME TypeInv, NEW r \in Reqs, Return(r)
  PROVE  /\ pc' \in [Reqs -> PCs]
         /\ span' \in [Reqs -> [off : 0..Declared, len : 0..MaxChunk]]
         /\ gen' \in [Reqs -> 0..MaxGens]
         /\ SpansFit'
<1>1. pc' \in [Reqs -> PCs]
  BY DEF TypeInv, TypeOK, Return, PCs
<1>2. /\ span' \in [Reqs -> [off : 0..Declared, len : 0..MaxChunk]]
      /\ SpansFit'
  BY SizeAssumption DEF TypeInv, TypeOK, SpansFit, Return
<1>3. gen' \in [Reqs -> 0..MaxGens]
  BY BoundsAssumption DEF TypeInv, TypeOK, Return
<1> QED BY <1>1, <1>2, <1>3

\* A new fan-out leaves the task variables well typed.
LEMMA FanOutTyped ==
  ASSUME TypeInv, NEW g \in Gens, NEW s \in Splits, NEW first \in States,
         FanOut(g, PartSize(Declared, s), first)
  PROVE  /\ spawned' \in 0..MaxGens
         /\ plan' \in [Gens -> Nat \ {0}]
         /\ st' \in [Tasks -> States]
         /\ try' \in [Tasks -> 0..PartRetries]
<1>1. PartSize(Declared, s) \in Nat \ {0}
  <2>1. Declared \in Nat /\ s \in Nat
    BY SizeAssumption, SplitsAssumption
  <2>2. PartSize(Declared, s) \in 1..DocCap
    BY <2>1, PlanSize
  <2> QED BY <2>2, DocCapAssumption
<1>2. spawned' \in 0..MaxGens
  BY BoundsAssumption DEF FanOut, Gens
<1>3. plan' \in [Gens -> Nat \ {0}]
  BY <1>1 DEF FanOut, TypeInv, TypeOK
<1>4. st' \in [Tasks -> States]
  BY DEF FanOut, TypeInv, TypeOK
<1>5. try' \in [Tasks -> 0..PartRetries]
  BY DEF FanOut, TypeInv, TypeOK
<1> QED BY <1>2, <1>3, <1>4, <1>5

\* Aborting tasks leaves their states well typed.
LEMMA AbortedTyped ==
  ASSUME st \in [Tasks -> States], NEW T
  PROVE  Aborted(T) \in [Tasks -> States]
BY DEF Aborted, States

\* The bytes of a body that fits are bytes of the client's file.
LEMMA BodyTyped ==
  ASSUME TypeInv, NEW r \in Reqs, NEW n \in 0..span[r].len
  PROVE  Body(r, n) \in Seq(0..Declared)
<1>1. span[r].off \in Nat /\ span[r].len \in Nat
  BY DEF TypeInv, TypeOK
<1>2. \A k \in 1..n : span[r].off + k \in 0..Declared
  BY <1>1, SizeAssumption DEF TypeInv, SpansFit
<1> QED BY <1>1, <1>2 DEF Body

\* set_len leaves bytes of the client's file and zeroes.
LEMMA SetLenTyped ==
  ASSUME NEW f \in Seq(0..Declared), NEW n \in Nat
  PROVE  SetLen(f, n) \in Seq(0..Declared)
<1>1. \A k \in 1..n : (IF k <= Len(f) THEN f[k] ELSE 0) \in 0..Declared
  BY SizeAssumption
<1> QED BY <1>1 DEF SetLen

-----------------------------------------------------------------------------
LEMMA TypeInit == Init => TypeInv
<1> SUFFICES ASSUME Init PROVE TypeInv
  OBVIOUS
<1>0. {stale, inFlight, handles, onDisk, reaper} \subseteq BOOLEAN
  <2>1. stale = FALSE /\ inFlight = FALSE /\ handles = FALSE
    BY DEF Init
  <2>2. onDisk = FALSE /\ reaper = FALSE
    BY DEF Init
  <2> QED BY <2>1, <2>2, Zenon
<1>1. /\ phase \in {"new", "creating", "live", "gone"}
      /\ file \in Seq(0..Declared)
      /\ pc \in [Reqs -> PCs]
  BY DEF Init, PCs
<1>2. /\ received \in 0..Declared
      /\ span \in [Reqs -> [off : 0..Declared, len : 0..MaxChunk]]
      /\ SpansFit
  BY SizeAssumption DEF Init, SpansFit
<1>3. /\ gen \in [Reqs -> 0..MaxGens]
      /\ spawned \in 0..MaxGens
      /\ plan \in [Gens -> Nat \ {0}]
  BY BoundsAssumption DEF Init
<1>4. /\ st \in [Tasks -> States]
      /\ try \in [Tasks -> 0..PartRetries]
  BY BoundsAssumption DEF Init, States
<1> QED BY <1>0, <1>1, <1>2, <1>3, <1>4 DEF TypeInv, TypeOK

\* What init, the passing of time and the background tasks do to the types.
LEMMA TypeWorld ==
  ASSUME TypeInv,
         InitFile \/ InitSession \/ InitFails \/ InitDropped \/ Touch \/ Age
           \/ Sweep \/ Reap \/ Crash
  PROVE  TypeInv'
<1>a. 1 \in Gens /\ "wait" \in States
  BY BoundsAssumption DEF Gens, States
<1>b. \A T : Aborted(T) \in [Tasks -> States]
  BY AbortedTyped DEF TypeInv, TypeOK
<1>1. CASE InitFile
  BY <1>1 DEF InitFile, session, spill, locals, tasks, stored, TypeInv, TypeOK, SpansFit
<1>2. CASE InitSession
  <2>1. PICK s \in Splits : FanOut(1, PartSize(Declared, s), "wait")
    BY <1>2 DEF InitSession
  <2>2. /\ spawned' \in 0..MaxGens
        /\ plan' \in [Gens -> Nat \ {0}]
        /\ st' \in [Tasks -> States]
        /\ try' \in [Tasks -> 0..PartRetries]
    BY <1>a, <2>1, FanOutTyped
  <2> QED BY <1>2, <2>2 DEF InitSession, session, spill, locals, tasks, stored, TypeInv, TypeOK, SpansFit
<1>3. CASE InitFails
  BY <1>3 DEF InitFails, session, spill, locals, tasks, stored, TypeInv, TypeOK, SpansFit
<1>4. CASE InitDropped
  <2>1. PICK s \in Splits : FanOut(1, PartSize(Declared, s), "wait")
    BY <1>4 DEF InitDropped
  <2>2. /\ spawned' \in 0..MaxGens
        /\ plan' \in [Gens -> Nat \ {0}]
        /\ st' \in [Tasks -> States]
        /\ try' \in [Tasks -> 0..PartRetries]
    BY <1>a, <2>1, FanOutTyped
  <2> QED BY <1>4, <2>2 DEF InitDropped, session, spill, locals, tasks, stored, TypeInv, TypeOK, SpansFit
<1>5. CASE Touch
  BY <1>5 DEF Touch, session, spill, locals, tasks, stored, TypeInv, TypeOK, SpansFit
<1>6. CASE Age
  BY <1>6 DEF Age, session, spill, locals, tasks, stored, TypeInv, TypeOK, SpansFit
<1>7. CASE Sweep
  <2>1. st' \in [Tasks -> States]
    BY <1>b, <1>7 DEF Sweep, RemoveSession, tasks, TypeInv, TypeOK
  <2> QED BY <1>7, <2>1 DEF Sweep, RemoveSession, session, spill, locals, tasks, stored, TypeInv, TypeOK, SpansFit
<1>8. CASE Reap
  BY <1>8 DEF Reap, session, spill, locals, tasks, stored, TypeInv, TypeOK, SpansFit
<1>9. CASE Crash
  <2>1. st' \in [Tasks -> States]
    BY <1>b, <1>9 DEF Crash
  <2>2. SpansFit'
    BY <1>9, SizeAssumption DEF Crash, SpansFit
  <2>3. /\ pc' \in [Reqs -> PCs]
        /\ span' \in [Reqs -> [off : 0..Declared, len : 0..MaxChunk]]
        /\ gen' \in [Reqs -> 0..MaxGens]
    BY <1>9, SizeAssumption, BoundsAssumption DEF Crash, PCs
  <2> QED BY <1>9, <2>1, <2>2, <2>3 DEF Crash, stored, TypeInv, TypeOK
<1> QED BY <1>1, <1>2, <1>3, <1>4, <1>5, <1>6, <1>7, <1>8, <1>9

\* What the first steps and the dropping of a handler do to the types.
LEMMA TypeRequest ==
  ASSUME TypeInv, NEW r \in Reqs,
         ChunkBegin(r) \/ AbortBegin(r) \/ Gate(r) \/ Disconnect(r)
  PROVE  TypeInv'
<1>1. CASE ChunkBegin(r)
  <2>1. PICK off \in 0..Declared, len \in 1..MaxChunk :
          /\ off + len <= Declared
          /\ span' = [span EXCEPT ![r] = [off |-> off, len |-> len]]
    BY <1>1 DEF ChunkBegin, ChunkAllowed, TypeInv, TypeOK
  <2>2. /\ span' \in [Reqs -> [off : 0..Declared, len : 0..MaxChunk]]
        /\ SpansFit'
    BY <2>1, SizeAssumption DEF TypeInv, TypeOK, SpansFit
  <2>3. pc' \in [Reqs -> PCs]
    BY <1>1 DEF ChunkBegin, TypeInv, TypeOK, PCs, ChunkPCs
  <2> QED BY <1>1, <2>2, <2>3 DEF ChunkBegin, spill, tasks, stored, TypeInv, TypeOK
<1>2. CASE AbortBegin(r)
  BY <1>2 DEF AbortBegin, PCs, AbortPCs, session, spill, locals, tasks, stored, TypeInv, TypeOK, SpansFit
<1>3. CASE Gate(r)
  <2>1. pc' \in [Reqs -> PCs]
    BY <1>3 DEF Gate, TypeInv, TypeOK, PCs, CompletePCs
  <2>2. gen' \in [Reqs -> 0..MaxGens]
    BY <1>3, BoundsAssumption DEF Gate, TypeInv, TypeOK
  <2> QED BY <1>3, <2>1, <2>2
          DEF Gate, spill, tasks, stored, TypeInv, TypeOK, SpansFit
<1>4. CASE Disconnect(r)
  <2>1. Return(r) /\ inFlight' \in BOOLEAN
    BY <1>4 DEF Disconnect, Leave, TypeInv, TypeOK
  <2> QED BY <1>4, <2>1, ReturnTyped DEF Disconnect, tasks, stored, TypeInv, TypeOK
<1> QED BY <1>1, <1>2, <1>3, <1>4

\* What the steps of chunk() and abort() do to the types.
LEMMA TypeChunk ==
  ASSUME TypeInv, NEW r \in Reqs,
         ChunkAppend(r) \/ ChunkOpenFails(r) \/ ChunkTorn(r) \/ ChunkAck(r)
           \/ AbortRemove(r) \/ AbortUnlink(r)
  PROVE  TypeInv'
<1>a. \A T : Aborted(T) \in [Tasks -> States]
  BY AbortedTyped DEF TypeInv, TypeOK
<1>b. \A n \in 0..span[r].len : file \o Body(r, n) \in Seq(0..Declared)
  BY BodyTyped DEF TypeInv, TypeOK
<1>c. span[r].off \in Nat /\ span[r].len \in Nat /\ span[r].off + span[r].len <= Declared
  BY DEF TypeInv, TypeOK, SpansFit
<1>1. CASE ChunkAppend(r)
  <2>1. file' \in Seq(0..Declared)
    BY <1>b, <1>c, <1>1 DEF ChunkAppend
  <2> QED BY <1>1, <2>1 DEF ChunkAppend, PCs, ChunkPCs, session, spill, locals, tasks, stored, TypeInv, TypeOK, SpansFit
<1>2. CASE ChunkOpenFails(r)
  BY <1>2, ReturnTyped DEF ChunkOpenFails, session, spill, tasks, stored, TypeInv, TypeOK
<1>3. CASE ChunkTorn(r)
  <2>1. PICK n \in 0..(span[r].len - 1), bothFail \in BOOLEAN :
          \/ /\ bothFail
             /\ file' = SetLen(file \o Body(r, n), span[r].off)
             /\ Return(r)
          \/ /\ ~bothFail
             /\ file' = file \o Body(r, n)
             /\ pc' = [pc EXCEPT ![r] = "ack"]
             /\ UNCHANGED locals
    BY <1>3 DEF ChunkTorn
  <2>2. file \o Body(r, n) \in Seq(0..Declared)
    BY <1>b, <1>c
  <2>3. CASE bothFail
    <3>1. file' \in Seq(0..Declared)
      BY <1>c, <2>1, <2>2, <2>3, SetLenTyped
    <3> QED BY <1>3, <2>1, <2>3, <3>1, ReturnTyped
            DEF ChunkTorn, session, tasks, stored, TypeInv, TypeOK
  <2>4. CASE ~bothFail
    BY <1>3, <2>1, <2>2, <2>4 DEF ChunkTorn, PCs, ChunkPCs, session, spill, locals, tasks, stored, TypeInv, TypeOK, SpansFit
  <2> QED BY <2>3, <2>4
<1>4. CASE ChunkAck(r)
  <2>1. received' \in 0..Declared
    BY <1>c, <1>4, SizeAssumption DEF ChunkAck, TypeInv, TypeOK
  <2>2. stale' \in BOOLEAN
    BY <1>4 DEF ChunkAck, TypeInv, TypeOK
  <2> QED BY <1>4, <2>1, <2>2, ReturnTyped DEF ChunkAck, spill, tasks, stored, TypeInv, TypeOK
<1>5. CASE AbortRemove(r)
  <2>1. st' \in [Tasks -> States]
    BY <1>a, <1>5 DEF AbortRemove, RemoveSession, tasks, TypeInv, TypeOK
  <2> QED BY <1>5, <2>1 DEF AbortRemove, RemoveSession, PCs, AbortPCs, session, spill, locals, tasks, stored, TypeInv, TypeOK, SpansFit
<1>6. CASE AbortUnlink(r)
  BY <1>6, ReturnTyped DEF AbortUnlink, session, tasks, stored, TypeInv, TypeOK
<1> QED BY <1>1, <1>2, <1>3, <1>4, <1>5, <1>6

\* What the steps of complete() do to the types.
LEMMA TypeComplete ==
  ASSUME TypeInv, NEW r \in Reqs,
         ReadHead(r) \/ HeadFails(r) \/ Fallback(r) \/ FallbackFails(r)
           \/ JoinOk(r) \/ JoinErr(r) \/ Undo(r) \/ UndoDone(r)
           \/ Insert(r) \/ InsertFails(r) \/ Retire(r)
  PROVE  TypeInv'
<1> USE DEF PCs, CompletePCs
<1>1. CASE ReadHead(r)
  BY <1>1 DEF ReadHead, session, spill, locals, tasks, stored, TypeInv, TypeOK, SpansFit
<1>2. CASE HeadFails(r)
  BY <1>2, ReturnTyped DEF HeadFails, Leave, spill, tasks, stored, TypeInv, TypeOK
<1>3. CASE Fallback(r)
  <2>1. spawned + 1 \in Gens /\ "ready" \in States
    BY <1>3, BoundsAssumption DEF Fallback, Gens, States, TypeInv, TypeOK
  <2>2. PICK s \in Splits : FanOut(spawned + 1, PartSize(Declared, s), "ready")
    BY <1>3 DEF Fallback
  <2>3. /\ spawned' \in 0..MaxGens
        /\ plan' \in [Gens -> Nat \ {0}]
        /\ st' \in [Tasks -> States]
        /\ try' \in [Tasks -> 0..PartRetries]
    BY <2>1, <2>2, FanOutTyped
  <2>4. gen' \in [Reqs -> 0..MaxGens]
    BY <1>3, <2>1, BoundsAssumption DEF Fallback, Gens, TypeInv, TypeOK
  <2> QED BY <1>3, <2>3, <2>4 DEF Fallback, session, spill, stored, TypeInv, TypeOK, SpansFit
<1>4. CASE FallbackFails(r)
  BY <1>4, ReturnTyped
     DEF FallbackFails, Leave, spill, tasks, stored, TypeInv, TypeOK
<1>5. CASE JoinOk(r)
  BY <1>5 DEF JoinOk, session, spill, tasks, stored, TypeInv, TypeOK, SpansFit
<1>6. CASE JoinErr(r)
  <2>1. st' \in [Tasks -> States]
    BY <1>6, AbortedTyped DEF JoinErr, TypeInv, TypeOK
  <2> QED BY <1>6, <2>1 DEF JoinErr, session, spill, stored, TypeInv, TypeOK, SpansFit
<1>7. CASE Undo(r)
  BY <1>7 DEF Undo, session, spill, tasks, TypeInv, TypeOK, SpansFit
<1>8. CASE UndoDone(r)
  BY <1>8, ReturnTyped DEF UndoDone, Leave, spill, tasks, stored, TypeInv, TypeOK
<1>9. CASE Insert(r)
  BY <1>9 DEF Insert, session, spill, locals, tasks, TypeInv, TypeOK, SpansFit
<1>10. CASE InsertFails(r)
  BY <1>10 DEF InsertFails, session, spill, tasks, stored, TypeInv, TypeOK, SpansFit
<1>11. CASE Retire(r)
  BY <1>11, ReturnTyped DEF Retire, Leave, tasks, stored, TypeInv, TypeOK
<1> QED BY <1>1, <1>2, <1>3, <1>4, <1>5, <1>6, <1>7, <1>8, <1>9, <1>10, <1>11

\* What an uploader task does to the types.
LEMMA TypeTask ==
  ASSUME TypeInv, NEW t \in Tasks, TaskStep(t)
  PROVE  TypeInv'
<1>1. OnlyTheTask
  BY DEF TaskStep, Wake, ChannelClosed, ReadPart, ReadFails, Post, Answered,
         UploadFails, UploadHangs
<1>2. st' \in [Tasks -> States]
  <2>1. \E v \in States : st' = [st EXCEPT ![t] = v]
    <3>1. CASE \E v \in {"ready", "sending", "stuck", "sent", "ok", "err"} :
                 st' = [st EXCEPT ![t] = v]
      BY <3>1 DEF States
    <3> QED BY <3>1 DEF TaskStep, Wake, ChannelClosed, ReadPart, ReadFails, Post,
                        Answered, UploadFails, UploadHangs
  <2> QED BY <2>1 DEF TypeInv, TypeOK
<1>3. try' \in [Tasks -> 0..PartRetries]
  <2>1. \/ try' = try
        \/ try[t] < PartRetries /\ try' = [try EXCEPT ![t] = @ + 1]
    BY DEF TaskStep, Wake, ChannelClosed, ReadPart, ReadFails, Post, Answered,
           UploadFails, UploadHangs
  <2>2. try[t] \in 0..PartRetries
    BY DEF TypeInv, TypeOK
  <2>3. try[t] < PartRetries => try[t] + 1 \in 0..PartRetries
    BY <2>2, BoundsAssumption
  <2> QED BY <2>1, <2>3 DEF TypeInv, TypeOK
<1> QED BY <1>1, <1>2, <1>3 DEF OnlyTheTask, session, spill, locals, TypeInv, TypeOK, SpansFit

\* Every step preserves the types.
LEMMA TypeStep == TypeInv /\ [Next]_vars => TypeInv'
<1> SUFFICES ASSUME TypeInv, [Next]_vars PROVE TypeInv'
  OBVIOUS
<1>1. CASE UNCHANGED vars
  BY <1>1 DEF vars, session, spill, locals, tasks, stored, TypeInv, TypeOK, SpansFit
<1>2. CASE Next
  BY <1>2, TypeWorld, TypeRequest, TypeChunk, TypeComplete, TypeTask
     DEF Next, HandlerStep
<1> QED BY <1>1, <1>2

\* The types, and with them every check chunk() makes on offsets and lengths,
\* hold in every reachable state, whatever the faults.
THEOREM TypeCorrect == Spec => []TypeOK
<1>1. TypeInv => TypeOK
  BY DEF TypeInv
<1> QED BY TypeInit, TypeStep, <1>1, PTL DEF Spec

-----------------------------------------------------------------------------
(* The gate of complete() *)

\* The handlers that are in complete() do not change, and neither does the flag.
Quiet == /\ inFlight' = inFlight
         /\ \A r \in Reqs : (Completing(r))' <=> Completing(r)

\* One handler enters complete() while nobody is inside.
Enters(r) == /\ ~inFlight /\ inFlight'
             /\ (Completing(r))'
             /\ \A q \in Reqs \ {r} : (Completing(q))' <=> Completing(q)

\* The one handler inside leaves, and clears the flag.
Leaves(r) == /\ Completing(r)
             /\ ~inFlight'
             /\ ~(Completing(r))'
             /\ \A q \in Reqs \ {r} : (Completing(q))' <=> Completing(q)

LEMMA QuietKeeps == SingleCompletion /\ Quiet => SingleCompletion'
BY DEF SingleCompletion, Quiet

LEMMA EntersKeeps ==
  ASSUME SingleCompletion, NEW r \in Reqs, Enters(r)
  PROVE  SingleCompletion'
BY DEF SingleCompletion, Enters

LEMMA LeavesKeeps ==
  ASSUME SingleCompletion, NEW r \in Reqs, Leaves(r)
  PROVE  SingleCompletion'
BY DEF SingleCompletion, Leaves

\* A handler of chunk() or abort() that returns was never past the gate.
LEMMA ReturnQuiet ==
  ASSUME TypeInv, NEW r \in Reqs, Return(r), inFlight' = inFlight, ~Completing(r)
  PROVE  Quiet
BY DEF Quiet, Return, Completing, CompletePCs, TypeInv, TypeOK

\* A handler of complete() that returns takes the flag with it.
LEMMA LeaveLeaves ==
  ASSUME TypeInv, NEW r \in Reqs, Leave(r), Completing(r)
  PROVE  Leaves(r)
BY DEF Leaves, Leave, Return, Completing, CompletePCs, TypeInv, TypeOK

LEMMA GateInit == Init => SingleCompletion
BY DEF Init, SingleCompletion, Completing, CompletePCs

LEMMA GateWorld ==
  ASSUME TypeInv, SingleCompletion,
         InitFile \/ InitSession \/ InitFails \/ InitDropped \/ Touch \/ Age
           \/ Sweep \/ Reap \/ Crash
  PROVE  SingleCompletion'
<1>1. CASE Crash
  BY <1>1 DEF Crash, SingleCompletion, Completing, CompletePCs
<1>2. CASE ~Crash
  <2>1. pc' = pc /\ inFlight' = inFlight
    BY <1>2 DEF InitFile, InitSession, InitFails, InitDropped, Touch, Age, Sweep,
                RemoveSession, Reap, session
  <2> QED BY <2>1, QuietKeeps DEF Quiet, Completing
<1> QED BY <1>1, <1>2

LEMMA GateRequest ==
  ASSUME TypeInv, SingleCompletion, NEW r \in Reqs,
         ChunkBegin(r) \/ AbortBegin(r) \/ Gate(r) \/ Disconnect(r)
  PROVE  SingleCompletion'
<1> USE DEF PCs, ChunkPCs, AbortPCs, CompletePCs
<1>1. CASE ChunkBegin(r) \/ AbortBegin(r)
  <2>1. Quiet
    BY <1>1 DEF ChunkBegin, AbortBegin, Quiet, Completing, TypeInv, TypeOK
  <2> QED BY <2>1, QuietKeeps
<1>2. CASE Gate(r)
  <2>1. Enters(r)
    BY <1>2 DEF Gate, GateOpen, Enters, Completing, TypeInv, TypeOK
  <2> QED BY <2>1, EntersKeeps
<1>3. CASE Disconnect(r)
  <2>1. CASE Completing(r)
    <3>1. Leave(r)
      BY <1>3, <2>1 DEF Disconnect, Completing
    <3> QED BY <2>1, <3>1, LeaveLeaves, LeavesKeeps
  <2>2. CASE ~Completing(r)
    <3>1. Return(r) /\ inFlight' = inFlight
      BY <1>3, <2>2 DEF Disconnect, Completing
    <3> QED BY <2>2, <3>1, ReturnQuiet, QuietKeeps
  <2> QED BY <2>1, <2>2
<1> QED BY <1>1, <1>2, <1>3

LEMMA GateHandler ==
  ASSUME TypeInv, SingleCompletion, NEW r \in Reqs, HandlerStep(r)
  PROVE  SingleCompletion'
<1> USE DEF PCs, ChunkPCs, AbortPCs, CompletePCs
<1>1. CASE ChunkAppend(r) \/ AbortRemove(r)
  <2>1. Quiet
    BY <1>1 DEF ChunkAppend, AbortRemove, RemoveSession, Quiet, Completing,
                TypeInv, TypeOK
  <2> QED BY <2>1, QuietKeeps
<1>2. CASE ChunkOpenFails(r) \/ ChunkAck(r) \/ AbortUnlink(r)
  <2>1. Return(r) /\ inFlight' = inFlight /\ ~Completing(r)
    BY <1>2 DEF ChunkOpenFails, ChunkAck, AbortUnlink, Completing, session
  <2> QED BY <2>1, ReturnQuiet, QuietKeeps
<1>3. CASE ChunkTorn(r)
  <2>1. inFlight' = inFlight /\ ~Completing(r)
    BY <1>3 DEF ChunkTorn, Completing, session
  <2>2. Return(r) \/ pc' = [pc EXCEPT ![r] = "ack"]
    BY <1>3 DEF ChunkTorn
  <2>3. Quiet
    <3>1. CASE Return(r)
      BY <2>1, <3>1, ReturnQuiet
    <3>2. CASE pc' = [pc EXCEPT ![r] = "ack"]
      BY <2>1, <3>2 DEF Quiet, Completing, TypeInv, TypeOK
    <3> QED BY <2>2, <3>1, <3>2
  <2> QED BY <2>3, QuietKeeps
<1>4. CASE ReadHead(r) \/ Fallback(r) \/ JoinOk(r) \/ JoinErr(r) \/ Undo(r)
             \/ Insert(r) \/ InsertFails(r)
  <2>1. Completing(r) /\ inFlight' = inFlight
    BY <1>4 DEF ReadHead, Fallback, JoinOk, JoinErr, Undo, Insert, InsertFails,
                Completing, session
  <2>2. pc' = pc \/ \E to \in CompletePCs : pc' = [pc EXCEPT ![r] = to]
    BY <1>4 DEF ReadHead, Fallback, JoinOk, JoinErr, Undo, Insert, InsertFails
  <2>3. Quiet
    BY <2>1, <2>2 DEF Quiet, Completing, TypeInv, TypeOK
  <2> QED BY <2>3, QuietKeeps
<1>5. CASE HeadFails(r) \/ FallbackFails(r) \/ UndoDone(r) \/ Retire(r)
  <2>1. Completing(r) /\ Leave(r)
    BY <1>5 DEF HeadFails, FallbackFails, UndoDone, Retire, Completing
  <2> QED BY <2>1, LeaveLeaves, LeavesKeeps
<1> QED BY <1>1, <1>2, <1>3, <1>4, <1>5 DEF HandlerStep

LEMMA GateStep ==
  TypeInv /\ SingleCompletion /\ [Next]_vars => SingleCompletion'
<1> SUFFICES ASSUME TypeInv, SingleCompletion, [Next]_vars PROVE SingleCompletion'
  OBVIOUS
<1>1. CASE UNCHANGED vars
  BY <1>1, QuietKeeps DEF vars, session, Quiet, Completing
<1>2. CASE \E t \in Tasks : TaskStep(t)
  <2>1. OnlyTheTask
    BY <1>2 DEF TaskStep, Wake, ChannelClosed, ReadPart, ReadFails, Post,
                Answered, UploadFails, UploadHangs
  <2> QED BY <2>1, QuietKeeps DEF OnlyTheTask, session, Quiet, Completing
<1>3. CASE Next /\ ~\E t \in Tasks : TaskStep(t)
  BY <1>3, GateWorld, GateRequest, GateHandler DEF Next
<1> QED BY <1>1, <1>2, <1>3

\* "Guards against concurrent complete calls" (Session.complete_in_flight) and
\* "clears the flag when the complete handler exits, on any path": for any number
\* of handlers, at most one is past the gate, and the flag is raised exactly while
\* one is, through disconnects, errors, aborts, sweeps and restarts.
THEOREM CompletionIsExclusive == Spec => []SingleCompletion
BY TypeInit, TypeStep, GateInit, GateStep, PTL DEF Spec

-----------------------------------------------------------------------------
(* Who owns a message                                                      *)
(*                                                                         *)
(* A fan-out is joined by one handler only: the first by whoever took the  *)
(* handles out of the session, a later one by the handler that started it. *)
(* Until that handler rolls back, every message its tasks posted is there. *)
(* Once it has inserted the row nobody is left who could roll it back.     *)

Msgs == [gen : Gens, part : Parts, try : 0..PartRetries, data : Seq(0..Declared)]

Locals ==
  /\ got \in [Reqs -> Seq(Msgs)]
  /\ todo \in [Reqs -> Seq(Msgs)]
  /\ data \in [Tasks -> Seq(0..Declared)]

\* A plan that was fanned out fits the task table, and was not fanned out before.
Plans ==
  /\ \A g \in Gens : g <= spawned => NParts(Declared, plan[g]) \in 1..MaxParts
  /\ \A t \in Tasks : st[t] # "none" =>
       t[1] <= spawned /\ t[2] < NParts(Declared, plan[t[1]])

\* The handles of the first fan-out are in the session, in one handler, or gone.
Handles ==
  /\ handles => phase = "live" /\ spawned = 1
  /\ phase \in {"new", "creating"} =>
       spawned = 0 /\ rows = {} /\ \A r \in Reqs : pc[r] = "idle"
  /\ \A r \in Reqs :
       /\ gen[r] <= spawned
       /\ gen[r] # 0 => Completing(r)
       /\ Completing(r) => ~handles
       /\ pc[r] = "head" => gen[r] \in {0, 1}
       /\ pc[r] = "plan" => gen[r] = 0
       /\ pc[r] \in {"join", "insert"} => gen[r] # 0

\* What a handler has joined are the results of the first tasks, in order.
Joined(r) ==
  /\ Len(got[r]) <= NParts(Declared, plan[gen[r]])
  /\ pc[r] = "join" => Len(got[r]) < NParts(Declared, plan[gen[r]])
  /\ pc[r] = "insert" => Len(got[r]) = NParts(Declared, plan[gen[r]])
  /\ \A i \in 1..Len(got[r]) :
       /\ <<gen[r], i - 1>> \in Tasks
       /\ st[<<gen[r], i - 1>>] = "ok"
       /\ got[r][i] = Message(<<gen[r], i - 1>>)

Joins == \A r \in Reqs : pc[r] \in {"join", "insert"} => Joined(r)

\* What a handler has still to delete belongs to the fan-out it joined.
Undos ==
  \A r \in Reqs :
    /\ pc[r] \notin {"join", "insert", "stored", "undo"} => got[r] = <<>>
    /\ pc[r] # "undo" => todo[r] = <<>>
    /\ \A i \in 1..Len(got[r]) : got[r][i].gen = gen[r]
    /\ \A i \in 1..Len(todo[r]) : todo[r][i].gen = gen[r]

\* The fan-outs whose messages nobody has begun to roll back.
Intact(g) ==
  \/ g = 1 /\ handles
  \/ \E r \in Reqs : gen[r] = g /\ pc[r] \in {"head", "join", "insert"}

Posted ==
  \A t \in Tasks : st[t] \in {"sent", "ok"} /\ Intact(t[1]) => Message(t) \in messages

\* The row of fan-out g is complete, and out of everybody's reach.
RowOf(row, g) ==
  /\ g <= spawned
  /\ Len(row) = NParts(Declared, plan[g])
  /\ \A i \in 1..Len(row) :
       row[i].gen = g /\ row[i].part = i - 1 /\ row[i] \in messages
  /\ g = 1 => ~handles
  /\ \A r \in Reqs : gen[r] = g => pc[r] = "stored"

Rows == \A row \in rows : \E g \in Gens : RowOf(row, g)

Ledger == Locals /\ Plans /\ Handles /\ Joins /\ Undos /\ Posted /\ Rows

\* What every lemma below may assume.
Base == TypeInv /\ SingleCompletion /\ Ledger

LEMMA LedgerInit == Init => Ledger
<1> SUFFICES ASSUME Init PROVE Ledger
  OBVIOUS
<1>1. Locals
  BY DEF Init, Locals
<1>2. Plans
  BY BoundsAssumption DEF Init, Plans, Gens
<1>3. Handles
  BY DEF Init, Handles, Completing, CompletePCs
<1>4. Joins /\ Undos
  BY DEF Init, Joins, Undos
<1>5. Posted /\ Rows
  BY DEF Init, Posted, Rows
<1> QED BY <1>1, <1>2, <1>3, <1>4, <1>5 DEF Ledger

\* The rollback of one fan-out does not touch the row of another, and a row that
\* keeps its place keeps its soundness.
LEMMA LedgerSound == Ledger => RowSound
BY DEF Ledger, Rows, RowOf, RowSound, IsFanOut

\* A step in which no task, message, row or handle moves, and in which the one
\* handler that moves is outside complete() before and after.
OffStage ==
  /\ UNCHANGED <<handles, gen, got, todo, tasks, stored>>
  /\ phase' = phase \/ (phase = "new" /\ phase' = "creating")
       \/ (phase = "creating" /\ phase' = "gone")
  /\ \A r \in Reqs : pc'[r] = pc[r] \/ (phase \notin {"new", "creating"}
                                     /\ ~Completing(r) /\ ~(Completing(r))')

LEMMA OffStageKeeps ==
  ASSUME Ledger, OffStage
  PROVE  Ledger'
<1> USE DEF OffStage, tasks, stored, Completing, CompletePCs
<1>1. Locals'
  BY DEF Ledger, Locals
<1>2. Plans'
  BY DEF Ledger, Plans
<1>3. Handles'
  BY DEF Ledger, Handles
<1>4. Joins'
  BY DEF Ledger, Joins, Joined, Message
<1>5. Undos'
  BY DEF Ledger, Undos
<1>6. Posted'
  BY DEF Ledger, Posted, Intact, Message
<1>7. Rows'
  BY DEF Ledger, Rows, RowOf
<1> QED BY <1>1, <1>2, <1>3, <1>4, <1>5, <1>6, <1>7 DEF Ledger

\* A handler outside complete() that returns resets locals that were already so.
LEMMA ReturnOffStage ==
  ASSUME TypeInv, Ledger, NEW r \in Reqs, Return(r), ~Completing(r)
  PROVE  UNCHANGED <<gen, got, todo>>
<1>1. gen[r] = 0 /\ got[r] = <<>> /\ todo[r] = <<>>
  BY DEF Ledger, Handles, Undos, Completing, CompletePCs
<1> QED BY <1>1 DEF Return, TypeInv, TypeOK, Ledger, Locals

LEMMA LedgerQuiet ==
  ASSUME TypeInv, Ledger,
         \/ InitFile \/ InitFails \/ Touch \/ Age \/ Reap
         \/ \E r \in Reqs : \/ ChunkBegin(r) \/ AbortBegin(r) \/ ChunkAppend(r)
                            \/ ChunkOpenFails(r) \/ ChunkTorn(r) \/ ChunkAck(r)
                            \/ AbortUnlink(r)
  PROVE  Ledger'
<1>1. CASE InitFile \/ InitFails \/ Touch \/ Age \/ Reap
  <2>1. OffStage
    BY <1>1 DEF InitFile, InitFails, Touch, Age, Reap, OffStage, session, locals,
                tasks, stored
  <2> QED BY <2>1, OffStageKeeps
<1>2. CASE \E r \in Reqs : \/ ChunkBegin(r) \/ AbortBegin(r) \/ ChunkAppend(r)
                            \/ ChunkOpenFails(r) \/ ChunkTorn(r) \/ ChunkAck(r)
                            \/ AbortUnlink(r)
  <2>0. PICK r \in Reqs : \/ ChunkBegin(r) \/ AbortBegin(r) \/ ChunkAppend(r)
                            \/ ChunkOpenFails(r) \/ ChunkTorn(r) \/ ChunkAck(r)
                            \/ AbortUnlink(r)
    BY <1>2
  <2>1. ~Completing(r)
    BY <2>0 DEF ChunkBegin, AbortBegin, ChunkAppend, ChunkOpenFails, ChunkTorn,
                ChunkAck, AbortUnlink, Completing, CompletePCs
  <2>2. \/ Return(r)
        \/ UNCHANGED <<gen, got, todo>> /\ \E c \in ChunkPCs \cup AbortPCs : pc' = [pc EXCEPT ![r] = c]
    BY <2>0 DEF ChunkBegin, AbortBegin, ChunkAppend, ChunkOpenFails, ChunkTorn,
                ChunkAck, AbortUnlink, ChunkPCs, AbortPCs, locals
  <2>3. UNCHANGED <<gen, got, todo>>
    BY <2>1, <2>2, ReturnOffStage
  <2>4. UNCHANGED <<phase, handles, tasks, stored>>
    BY <2>0 DEF ChunkBegin, AbortBegin, ChunkAppend, ChunkOpenFails, ChunkTorn,
                ChunkAck, AbortUnlink, session
  <2>5. \E c \in {"idle"} \cup ChunkPCs \cup AbortPCs : pc' = [pc EXCEPT ![r] = c]
    BY <2>2 DEF Return
  <2>6. phase \notin {"new", "creating"}
    <3>1. CASE ChunkBegin(r) \/ AbortBegin(r)
      BY <3>1 DEF ChunkBegin, AbortBegin
    <3>2. CASE pc[r] # "idle"
      BY <3>2 DEF Ledger, Handles
    <3> QED BY <2>0, <3>1, <3>2 DEF ChunkAppend, ChunkOpenFails, ChunkTorn,
                ChunkAck, AbortUnlink
  <2>7. OffStage
    BY <2>1, <2>3, <2>4, <2>5, <2>6
       DEF OffStage, TypeInv, TypeOK, Completing, CompletePCs, ChunkPCs, AbortPCs
  <2> QED BY <2>7, OffStageKeeps
<1> QED BY <1>1, <1>2

\* The session ends; tasks may be stopped, and finished ones keep their result.
Removal ==
  /\ phase = "live" /\ phase' = "gone" /\ handles' = FALSE
  /\ \E T : st' = Aborted(T)
  /\ UNCHANGED <<gen, got, todo, spawned, plan, try, data, stored>>
  /\ \A r \in Reqs : pc'[r] = pc[r] \/ (~Completing(r) /\ ~(Completing(r))')

LEMMA RemovalKeeps ==
  ASSUME TypeInv, Ledger, Removal
  PROVE  Ledger'
<1> USE DEF Removal, stored, Completing, CompletePCs
<1>0. \A t \in Tasks : /\ st'[t] = st[t] \/ (st'[t] = "aborted" /\ Running(t))
                       /\ Message(t)' = Message(t)
  <2>1. PICK T : st' = Aborted(T)
    OBVIOUS
  <2>2. \A t \in Tasks : st'[t] = st[t] \/ (st'[t] = "aborted" /\ Running(t))
    BY <2>1 DEF Aborted
  <2> QED BY <2>2 DEF Message
<1>1. Locals'
  BY DEF Ledger, Locals
<1>2. Plans'
  BY <1>0 DEF Ledger, Plans, Running
<1>3. Handles'
  BY DEF Ledger, Handles
<1>4. Joins'
  BY <1>0 DEF Ledger, Joins, Joined, Message, Running
<1>5. Undos'
  BY DEF Ledger, Undos
<1>6. Posted'
  BY <1>0 DEF Ledger, Posted, Intact, Message
<1>7. Rows'
  BY DEF Ledger, Rows, RowOf
<1> QED BY <1>1, <1>2, <1>3, <1>4, <1>5, <1>6, <1>7 DEF Ledger

LEMMA LedgerRemoval ==
  ASSUME TypeInv, Ledger, Sweep \/ \E r \in Reqs : AbortRemove(r)
  PROVE  Ledger'
<1>0. st = Aborted({})
  BY DEF Aborted, TypeInv, TypeOK
<1>1. RemoveSession => \E T : st' = Aborted(T)
  BY <1>0 DEF RemoveSession
<1>2. CASE Sweep
  <2>1. CASE phase = "live"
    <3>1. Removal
      BY <1>1, <1>2, <2>1 DEF Sweep, RemoveSession, Removal, locals, stored
    <3> QED BY <3>1, RemovalKeeps
  <2>2. CASE phase # "live"
    <3>1. OffStage
      BY <1>2, <2>2 DEF Sweep, OffStage, locals, stored, tasks
    <3> QED BY <3>1, OffStageKeeps
  <2> QED BY <2>1, <2>2
<1>3. ASSUME NEW r \in Reqs, AbortRemove(r)
      PROVE  Ledger'
  <2>0. \A q \in Reqs : pc'[q] = pc[q] \/ (~Completing(q) /\ ~(Completing(q))')
    BY <1>3 DEF AbortRemove, TypeInv, TypeOK, Completing, CompletePCs
  <2>1. CASE phase = "live"
    <3>1. Removal
      BY <1>1, <1>3, <2>0, <2>1 DEF AbortRemove, RemoveSession, Removal, locals, stored
    <3> QED BY <3>1, RemovalKeeps
  <2>2. CASE phase # "live"
    <3>1. phase \notin {"new", "creating"}
      BY <1>3 DEF AbortRemove, Ledger, Handles
    <3>2. OffStage
      BY <1>3, <2>0, <2>2, <3>1 DEF AbortRemove, OffStage, locals, stored, tasks
    <3> QED BY <3>2, OffStageKeeps
  <2> QED BY <2>1, <2>2
<1> QED BY <1>2, <1>3

\* A handler of complete() ends: nobody has its fan-out in hand any more.
LEMMA LedgerLeaves ==
  ASSUME TypeInv, Ledger, NEW r \in Reqs,
         \/ HeadFails(r) \/ FallbackFails(r) \/ UndoDone(r) \/ Retire(r)
         \/ Disconnect(r)
  PROVE  Ledger'
<1>0. /\ Return(r)
      /\ UNCHANGED <<tasks, stored>>
      /\ handles' => handles /\ phase' = phase
      /\ phase' \in {phase, "gone"}
      /\ pc[r] # "idle"
  <2>1. CASE Disconnect(r)
    BY <2>1 DEF Disconnect, Leave
  <2>2. CASE Retire(r)
    BY <2>2 DEF Retire, Leave
  <2>3. CASE HeadFails(r) \/ FallbackFails(r) \/ UndoDone(r)
    BY <2>3 DEF HeadFails, FallbackFails, UndoDone, Leave
  <2> QED BY <2>1, <2>2, <2>3
<1>a. phase \notin {"new", "creating"}
  BY <1>0 DEF Ledger, Handles
<1> USE <1>0, <1>a DEF Return, tasks, stored, Completing, CompletePCs, TypeInv, TypeOK
<1>1. Locals'
  BY DEF Ledger, Locals
<1>2. Plans'
  BY DEF Ledger, Plans
<1>3. Handles'
  BY DEF Ledger, Handles
<1>4. Joins'
  BY DEF Ledger, Joins, Joined, Message
<1>5. Undos'
  BY DEF Ledger, Undos, Locals
<1>6. Posted'
  BY DEF Ledger, Posted, Intact, Message
<1>7. Rows'
  <2> SUFFICES ASSUME NEW row \in rows
               PROVE  \E g \in Gens : RowOf(row, g)'
    BY DEF Rows
  <2>1. PICK g \in Gens : RowOf(row, g)
    BY DEF Ledger, Rows
  <2>2. \A q \in Reqs : (gen'[q] = gen[q] /\ pc'[q] = pc[q]) \/ gen'[q] = 0
    OBVIOUS
  <2>3. RowOf(row, g)'
    BY <2>1, <2>2 DEF RowOf, Gens
  <2> QED BY <2>3
<1> QED BY <1>1, <1>2, <1>3, <1>4, <1>5, <1>6, <1>7 DEF Ledger

\* What an uploader task does: it moves one task that is not finished, and a message
\* it posts is there when it says so.
LEMMA TaskMoves ==
  ASSUME TypeInv, Ledger, NEW t \in Tasks, TaskStep(t)
  PROVE  /\ OnlyTheTask
         /\ Running(t)
         /\ \E v \in {"ready", "sending", "stuck", "sent", "ok", "err"} : st' = [st EXCEPT ![t] = v]
         /\ \A u \in Tasks \ {t} : try'[u] = try[u] /\ data'[u] = data[u]
         /\ messages \subseteq messages'
         /\ st'[t] = "sent" => Message(t)' \in messages'
         /\ st'[t] = "ok" => st[t] = "sent" /\ try' = try /\ data' = data
<1> USE DEF TypeInv, TypeOK, Ledger, Locals, Running, OnlyTheTask
<1>1. CASE Wake(t)
  BY <1>1 DEF Wake
<1>2. CASE ChannelClosed(t)
  BY <1>2 DEF ChannelClosed
<1>3. CASE ReadPart(t)
  BY <1>3 DEF ReadPart
<1>4. CASE ReadFails(t)
  BY <1>4 DEF ReadFails
<1>5. CASE Post(t)
  BY <1>5 DEF Post, Message
<1>6. CASE Answered(t)
  BY <1>6 DEF Answered
<1>7. CASE UploadFails(t)
  BY <1>7 DEF UploadFails
<1>8. CASE UploadHangs(t)
  BY <1>8 DEF UploadHangs
<1> QED BY <1>1, <1>2, <1>3, <1>4, <1>5, <1>6, <1>7, <1>8 DEF TaskStep

\* What is read from the spill file is bytes of the client's file, or zeroes.
LEMMA PartOnDiskTyped ==
  ASSUME TypeInv, NEW t \in Tasks
  PROVE  PartOnDisk(t) \in Seq(0..Declared)
<1> DEFINE start == PartStart(plan[t[1]], t[2])
           end   == start + Expected(Declared, plan[t[1]], t[2])
           last  == IF end < Len(file) THEN end ELSE Len(file)
<1>1. start \in Nat
  BY Successor, MaxPartsAssumption DEF PartStart, TypeInv, TypeOK, Tasks, Parts
<1>2. end \in Int
  <2>1. plan[t[1]] \in Nat \ {0}
    BY DEF TypeInv, TypeOK, Tasks
  <2>2. NParts(Declared, plan[t[1]]) \in Nat
    BY <2>1, PlanCount, SizeAssumption
  <2>3. plan[t[1]] * (NParts(Declared, plan[t[1]]) - 1) \in Int
    BY <2>1, <2>2
  <2>4. Expected(Declared, plan[t[1]], t[2]) \in Int
    BY <2>1, <2>2, <2>3, SizeAssumption DEF Expected
  <2> QED BY <1>1, <2>4
<1>3. file \in Seq(0..Declared)
  BY DEF TypeInv, TypeOK
<1>4. PartOnDisk(t) = SubSeq(file, start + 1, last)
  BY DEF PartOnDisk
<1> HIDE DEF start, end
<1>5. last \in Int /\ last <= Len(file)
  BY <1>2, <1>3
<1> HIDE DEF last
<1>6. \A k \in (start + 1)..last : file[k] \in 0..Declared
  <2>1. Len(file) \in Nat /\ \A k \in 1..Len(file) : file[k] \in 0..Declared
    BY <1>3, SizeAssumption, ElementOfSeq, LenProperties
  <2>2. \A k \in (start + 1)..last : k \in 1..Len(file)
    BY <1>1, <1>5, <2>1
  <2> QED BY <2>1, <2>2
<1>7. SubSeq(file, start + 1, last) \in Seq(0..Declared)
  <2>1. start + 1 \in Int /\ last \in Int
    BY <1>1, <1>5
  <2> QED BY <2>1, <1>6, SubSeqProperties, Zenon
<1> QED BY <1>4, <1>7

LEMMA LedgerTask ==
  ASSUME TypeInv, Ledger, NEW t \in Tasks, TaskStep(t)
  PROVE  Ledger'
<1> USE DEF OnlyTheTask, session, locals
<1>0. /\ OnlyTheTask
      /\ Running(t)
      /\ \E v \in {"ready", "sending", "stuck", "sent", "ok", "err"} : st' = [st EXCEPT ![t] = v]
      /\ \A u \in Tasks \ {t} : try'[u] = try[u] /\ data'[u] = data[u]
      /\ messages \subseteq messages'
      /\ st'[t] = "sent" => Message(t)' \in messages'
      /\ st'[t] = "ok" => st[t] = "sent" /\ try' = try /\ data' = data
  BY TaskMoves
<1>a. st' \in [Tasks -> States] /\ st \in [Tasks -> States]
  BY TypeTask DEF TypeInv, TypeOK
<1>b. \A u \in Tasks \ {t} : st'[u] = st[u] /\ Message(u)' = Message(u)
  BY <1>0, <1>a DEF Message
<1>1. Locals'
  <2>1. data' \in [Tasks -> Seq(0..Declared)]
    <3>1. PartOnDisk(t) \in Seq(0..Declared) /\ <<>> \in Seq(0..Declared)
      BY PartOnDiskTyped
    <3>2. data' = data \/ data' = [data EXCEPT ![t] = PartOnDisk(t)] \/ data' = [data EXCEPT ![t] = <<>>]
      BY DEF TaskStep, Wake, ChannelClosed, ReadPart, ReadFails, Post, Answered,
             UploadFails, UploadHangs
    <3> QED BY <3>1, <3>2 DEF Ledger, Locals
  <2> QED BY <1>0, <2>1 DEF Ledger, Locals
<1>2. Plans'
  BY <1>0, <1>a, <1>b DEF Ledger, Plans, Running
<1>3. Handles'
  BY <1>0 DEF Ledger, Handles, Completing
<1>4. Joins'
  <2> SUFFICES ASSUME NEW r \in Reqs, pc[r] \in {"join", "insert"}
               PROVE  Joined(r)'
    BY <1>0 DEF Joins
  <2>1. Joined(r)
    BY DEF Ledger, Joins
  <2>2. \A i \in 1..Len(got[r]) : <<gen[r], i - 1>> # t
    BY <1>0, <2>1 DEF Joined, Running
  <2> QED BY <1>0, <1>b, <2>1, <2>2 DEF Joined
<1>5. Undos'
  BY <1>0 DEF Ledger, Undos
<1>6. Posted'
  <2>1. \A g : Intact(g)' <=> Intact(g)
    BY <1>0 DEF Intact
  <2>2. \A u \in Tasks \ {t} : st'[u] \in {"sent", "ok"} /\ Intact(u[1]) => Message(u)' \in messages'
    BY <1>0, <1>b DEF Ledger, Posted
  <2>3. st'[t] = "ok" => Message(t)' = Message(t)
    BY <1>0 DEF Message
  <2>4. st'[t] \in {"sent", "ok"} /\ Intact(t[1]) => Message(t)' \in messages'
    BY <1>0, <2>3 DEF Ledger, Posted
  <2> QED BY <2>1, <2>2, <2>4 DEF Posted
<1>7. Rows'
  BY <1>0 DEF Ledger, Rows, RowOf
<1> QED BY <1>1, <1>2, <1>3, <1>4, <1>5, <1>6, <1>7 DEF Ledger

\* A fan-out under a number not used before disturbs nothing that is there.
LEMMA LedgerFanOut ==
  ASSUME TypeInv, Ledger, NEW g \in Gens, NEW s \in Splits, NEW first \in {"wait", "ready"},
         g = spawned + 1,
         Fits(Declared, PartSize(Declared, s)),
         FanOut(g, PartSize(Declared, s), first)
  PROVE  /\ Plans'
         /\ spawned' = g
         /\ \A u \in Tasks : u[1] # g => st'[u] = st[u]
         /\ \A u \in Tasks : st'[u] \in {"sent", "ok"} => st[u] = st'[u] /\ u[1] # g
         /\ \A h \in Gens : h # g => plan'[h] = plan[h]
<1> DEFINE size == PartSize(Declared, s)
<1>1. size \in Nat \ {0}
  <2>1. Declared \in Nat /\ s \in Nat
    BY SizeAssumption, SplitsAssumption
  <2>2. size \in 1..DocCap
    BY <2>1, PlanSize
  <2> QED BY <2>2, DocCapAssumption
<1>3. FanOut(g, size, first) /\ Fits(Declared, size)
  OBVIOUS
<1> HIDE DEF size
<1>2. NParts(Declared, size) \in 1..MaxParts
  <2>1. NParts(Declared, size) \in Nat \ {0}
    BY <1>1, PlanCount, SizeAssumption
  <2> QED BY <1>3, <2>1, MaxPartsAssumption DEF Fits
<1>4. spawned' = g /\ plan'[g] = size /\ \A h \in Gens : h # g => plan'[h] = plan[h]
  BY <1>3 DEF FanOut, TypeInv, TypeOK
<1>5. \A u \in Tasks : st'[u] = IF u[1] = g /\ u[2] < NParts(Declared, size) THEN first ELSE st[u]
  BY <1>3 DEF FanOut
<1>6. \A u \in Tasks : st[u] # "none" => u[1] < g
  BY DEF Ledger, Plans, Gens, Tasks, TypeInv, TypeOK
<1>7. Plans'
  <2>1. \A h \in Gens : h <= g => NParts(Declared, plan'[h]) \in 1..MaxParts
    <3> SUFFICES ASSUME NEW h \in Gens, h <= g
                 PROVE  NParts(Declared, plan'[h]) \in 1..MaxParts
      OBVIOUS
    <3>1. CASE h = g
      BY <1>2, <1>4, <3>1
    <3>2. CASE h # g
      <4>1. h <= spawned
        BY <3>2 DEF Gens, TypeInv, TypeOK
      <4> QED BY <1>4, <3>2, <4>1 DEF Ledger, Plans
    <3> QED BY <3>1, <3>2
  <2>2. \A u \in Tasks : st'[u] # "none" => u[1] <= g /\ u[2] < NParts(Declared, plan'[u[1]])
    <3> SUFFICES ASSUME NEW u \in Tasks, st'[u] # "none"
                 PROVE  u[1] <= g /\ u[2] < NParts(Declared, plan'[u[1]])
      OBVIOUS
    <3>0. u[1] \in Gens /\ g \in Int
      BY DEF Tasks, Gens
    <3>1. CASE u[1] = g
      BY <1>4, <1>5, <1>6, <3>0, <3>1 DEF Gens
    <3>2. CASE u[1] # g
      BY <1>4, <1>5, <1>6, <3>0, <3>2 DEF Ledger, Plans, Gens
    <3> QED BY <3>1, <3>2
  <2> QED BY <1>4, <2>1, <2>2 DEF Plans
<1>8. \A u \in Tasks : st'[u] \in {"sent", "ok"} => st[u] = st'[u] /\ u[1] # g
  BY <1>5, <1>6 DEF Gens
<1> QED BY <1>4, <1>5, <1>7, <1>8

\* init() starts the first fan-out, for a session or for nobody.
LEMMA LedgerInitSession ==
  ASSUME TypeInv, Ledger, InitSession \/ InitDropped
  PROVE  Ledger'
<1> USE DEF InitSession, InitDropped, locals, stored
<1>0. PICK s \in Splits : /\ Fits(Declared, PartSize(Declared, s))
                          /\ FanOut(1, PartSize(Declared, s), "wait")
  OBVIOUS
<1>a. /\ spawned = 0 /\ rows = {} /\ \A r \in Reqs : pc[r] = "idle"
      /\ phase = "creating" /\ phase' \in {"live", "gone"}
      /\ 1 \in Gens /\ 1 = spawned + 1
      /\ handles' => phase' = "live"
  BY BoundsAssumption DEF Ledger, Handles, Gens
<1>b. /\ Plans'
      /\ spawned' = 1
      /\ \A u \in Tasks : st'[u] \in {"sent", "ok"} => st[u] = st'[u] /\ u[1] # 1
  BY <1>0, <1>a, LedgerFanOut
<1>c. UNCHANGED <<try, data>>
  BY <1>0 DEF FanOut
<1>1. Locals'
  BY <1>c DEF Ledger, Locals
<1>3. Handles'
  <2>1. \A r \in Reqs : gen[r] = 0
    BY <1>a DEF Ledger, Handles, Completing, CompletePCs
  <2> QED BY <1>a, <1>b, <2>1 DEF Handles, Completing, CompletePCs
<1>4. Joins'
  BY <1>a DEF Joins
<1>5. Undos'
  BY <1>a DEF Ledger, Undos
<1>6. Posted'
  BY <1>a, <1>b DEF Posted, Intact
<1>7. Rows'
  BY <1>a DEF Rows
<1> QED BY <1>1, <1>b, <1>3, <1>4, <1>5, <1>6, <1>7 DEF Ledger

\* A retried complete() starts a fan-out of its own.
LEMMA LedgerFallback ==
  ASSUME TypeInv, Ledger, NEW r \in Reqs, Fallback(r)
  PROVE  Ledger'
<1> USE DEF Fallback, session, stored
<1>0. PICK s \in Splits : /\ Fits(Declared, PartSize(Declared, s))
                          /\ FanOut(spawned + 1, PartSize(Declared, s), "ready")
  OBVIOUS
<1>a. /\ spawned \in Nat
      /\ spawned + 1 \in Gens
      /\ gen[r] = 0 /\ got[r] = <<>> /\ todo[r] = <<>>
      /\ pc' = [pc EXCEPT ![r] = "join"] /\ gen' = [gen EXCEPT ![r] = spawned + 1]
      /\ UNCHANGED <<got, todo>>
  BY BoundsAssumption DEF Ledger, Handles, Undos, Gens, TypeInv, TypeOK
<1>b. /\ Plans'
      /\ spawned' = spawned + 1
      /\ \A u \in Tasks : u[1] # spawned + 1 => st'[u] = st[u]
      /\ \A u \in Tasks : st'[u] \in {"sent", "ok"} => st[u] = st'[u] /\ u[1] # spawned + 1
      /\ \A h \in Gens : h # spawned + 1 => plan'[h] = plan[h]
  BY <1>0, <1>a, LedgerFanOut
<1>c. UNCHANGED <<try, data>>
  BY <1>0 DEF FanOut
<1>d. \A q \in Reqs : gen[q] \in Nat /\ gen[q] <= spawned
  BY DEF Ledger, Handles, TypeInv, TypeOK
<1>e. \A q \in Reqs \ {r} : gen'[q] = gen[q] /\ pc'[q] = pc[q] /\ gen[q] # spawned + 1
  BY <1>a, <1>d DEF TypeInv, TypeOK
<1>f. gen'[r] = spawned + 1 /\ pc'[r] = "join"
  BY <1>a DEF TypeInv, TypeOK
<1>1. Locals'
  BY <1>a, <1>c DEF Ledger, Locals
<1>2. ~handles /\ phase \notin {"new", "creating"}
  <2>1. phase \notin {"new", "creating"}
    BY DEF Ledger, Handles
  <2>2. Completing(r) /\ pc[r] = "plan"
    BY DEF Completing, CompletePCs
  <2> QED BY <1>a, <2>1, <2>2 DEF Ledger, Handles
<1>3. Handles'
  <2>1. \A q \in Reqs :
          /\ gen'[q] <= spawned'
          /\ gen'[q] # 0 => (Completing(q))'
          /\ pc'[q] = "head" => gen'[q] \in {0, 1}
          /\ pc'[q] = "plan" => gen'[q] = 0
          /\ pc'[q] \in {"join", "insert"} => gen'[q] # 0
    BY <1>a, <1>b, <1>d, <1>e, <1>f DEF Ledger, Handles, Completing, CompletePCs
  <2> QED BY <1>2, <2>1 DEF Handles
<1>4. Joins'
  <2> SUFFICES ASSUME NEW q \in Reqs, pc'[q] \in {"join", "insert"}
               PROVE  Joined(q)'
    BY DEF Joins
  <2>1. CASE q = r
    <3>1. Len(got'[q]) = 0
      BY <1>a, <2>1
    <3>2. NParts(Declared, plan'[gen'[q]]) \in 1..MaxParts
      <4>1. spawned' <= spawned'
        BY <1>a, <1>b
      <4> QED BY <1>a, <1>b, <1>f, <2>1, <4>1 DEF Plans
    <3> QED BY <1>f, <2>1, <3>1, <3>2, MaxPartsAssumption DEF Joined
  <2>2. CASE q # r
    <3>1. Joined(q) /\ gen[q] \in Gens
      BY <1>d, <1>e, <2>2, <1>a DEF Ledger, Joins, Handles, Gens, TypeInv, TypeOK
    <3>2. plan'[gen'[q]] = plan[gen[q]] /\ got'[q] = got[q]
      BY <1>a, <1>b, <1>e, <2>2, <3>1
    <3>3. \A i \in 1..Len(got[q]) : Message(<<gen[q], i - 1>>)' = Message(<<gen[q], i - 1>>)
      BY <1>c, <1>e, <2>2 DEF Message
    <3>4. \A i \in 1..Len(got[q]) : st'[<<gen[q], i - 1>>] = st[<<gen[q], i - 1>>]
      BY <1>b, <1>e, <2>2, <3>1 DEF Joined
    <3> QED BY <1>e, <2>2, <3>1, <3>2, <3>3, <3>4 DEF Joined, Message, Running
  <2> QED BY <2>1, <2>2
<1>5. Undos'
  BY <1>a, <1>e, <1>f DEF Ledger, Undos
<1>6. Posted'
  <2>1. \A u \in Tasks : u[1] # spawned + 1 /\ Intact(u[1])' => Intact(u[1])
    BY <1>e, <1>f DEF Intact
  <2> QED BY <1>b, <1>c, <2>1 DEF Ledger, Posted, Message
<1>7. Rows'
  <2> SUFFICES ASSUME NEW row \in rows
               PROVE  \E g \in Gens : RowOf(row, g)'
    BY DEF Rows
  <2>1. PICK g \in Gens : RowOf(row, g)
    BY DEF Ledger, Rows
  <2>2. g # spawned + 1 /\ g <= spawned + 1
    BY <1>a, <2>1 DEF RowOf, Gens
  <2>3. RowOf(row, g)'
    BY <1>b, <1>e, <1>f, <2>1, <2>2 DEF RowOf
  <2> QED BY <2>3
<1> QED BY <1>1, <1>b, <1>3, <1>4, <1>5, <1>6, <1>7 DEF Ledger

\* The critical section of complete(): the handles change hands.
LEMMA LedgerGate ==
  ASSUME TypeInv, Ledger, NEW r \in Reqs, Gate(r)
  PROVE  Ledger'
<1> USE DEF Gate, tasks, stored, Completing, CompletePCs, TypeInv, TypeOK
<1>0. gen[r] = 0 /\ got[r] = <<>> /\ todo[r] = <<>>
  BY DEF Ledger, Handles, Undos
<1>1. Locals'
  BY DEF Ledger, Locals
<1>2. Plans'
  BY DEF Ledger, Plans
<1>3. Handles'
  BY DEF Ledger, Handles
<1>4. Joins'
  BY DEF Ledger, Joins, Joined, Message
<1>5. Undos'
  <2> SUFFICES ASSUME NEW q \in Reqs
               PROVE  /\ pc'[q] \notin {"join", "insert", "stored", "undo"} => got'[q] = <<>>
                      /\ pc'[q] # "undo" => todo'[q] = <<>>
                      /\ \A i \in 1..Len(got'[q]) : got'[q][i].gen = gen'[q]
                      /\ \A i \in 1..Len(todo'[q]) : todo'[q][i].gen = gen'[q]
    BY DEF Undos
  <2>1. CASE q = r
    BY <1>0, <2>1
  <2>2. CASE q # r
    BY <2>2 DEF Ledger, Undos
  <2> QED BY <2>1, <2>2
<1>6. Posted'
  <2>1. \A t \in Tasks : Intact(t[1])' => Intact(t[1])
    BY DEF Intact, Tasks, Gens
  <2> QED BY <2>1 DEF Ledger, Posted, Message
<1>7. Rows'
  <2> SUFFICES ASSUME NEW row \in rows
               PROVE  \E g \in Gens : RowOf(row, g)'
    BY DEF Rows
  <2>1. PICK g \in Gens : RowOf(row, g)
    BY DEF Ledger, Rows
  <2>2. g # 0 /\ (g = 1 => ~handles)
    BY <2>1 DEF RowOf, Gens
  <2>3. RowOf(row, g)'
    BY <2>1, <2>2 DEF RowOf
  <2> QED BY <2>3
<1> QED BY <1>1, <1>2, <1>3, <1>4, <1>5, <1>6, <1>7 DEF Ledger

LEMMA LedgerHead ==
  ASSUME TypeInv, Ledger, NEW r \in Reqs, ReadHead(r)
  PROVE  Ledger'
<1> USE DEF ReadHead, session, locals, tasks, stored, Completing, CompletePCs, TypeInv, TypeOK
<1>0. /\ pc'[r] = "join" => gen[r] \in Gens /\ gen[r] <= spawned
      /\ got[r] = <<>> /\ todo[r] = <<>>
  BY BoundsAssumption DEF Ledger, Handles, Undos, Gens
<1>1. Locals'
  BY DEF Ledger, Locals
<1>2. Plans'
  BY DEF Ledger, Plans
<1>3. Handles'
  BY DEF Ledger, Handles
<1>4. Joins'
  <2> SUFFICES ASSUME NEW q \in Reqs, pc'[q] \in {"join", "insert"}
               PROVE  Joined(q)'
    BY DEF Joins
  <2>1. CASE q = r
    <3>1. Len(got'[q]) = 0 /\ pc'[q] = "join"
      BY <1>0, <2>1
    <3>2. NParts(Declared, plan[gen[q]]) \in 1..MaxParts
      BY <1>0, <2>1 DEF Ledger, Plans, Handles
    <3> QED BY <3>1, <3>2, MaxPartsAssumption DEF Joined
  <2>2. CASE q # r
    <3>1. Joined(q)
      BY <2>2 DEF Ledger, Joins
    <3> QED BY <2>2, <3>1 DEF Joined, Message
  <2> QED BY <2>1, <2>2
<1>5. Undos'
  BY DEF Ledger, Undos
<1>6. Posted'
  BY DEF Ledger, Posted, Intact, Message
<1>7. Rows'
  <2> SUFFICES ASSUME NEW row \in rows
               PROVE  \E g \in Gens : RowOf(row, g)'
    BY DEF Rows
  <2>1. PICK g \in Gens : RowOf(row, g)
    BY DEF Ledger, Rows
  <2>2. RowOf(row, g)'
    BY <2>1 DEF RowOf
  <2> QED BY <2>2
<1> QED BY <1>1, <1>2, <1>3, <1>4, <1>5, <1>6, <1>7 DEF Ledger

\* The task a handler waits for, when it is in the middle of its joins.
LEMMA AwaitedTask ==
  ASSUME TypeInv, Ledger, NEW r \in Reqs, pc[r] = "join"
  PROVE  /\ gen[r] \in Gens /\ gen[r] <= spawned
         /\ Len(got[r]) \in Parts
         /\ Awaited(r) \in Tasks
         /\ Awaited(r)[1] = gen[r] /\ Awaited(r)[2] = Len(got[r])
         /\ Joined(r)
<1>1. gen[r] \in Gens /\ gen[r] <= spawned
  BY DEF Ledger, Handles, Gens, TypeInv, TypeOK
<1>2. Joined(r)
  BY DEF Ledger, Joins
<1>3. NParts(Declared, plan[gen[r]]) \in 1..MaxParts
  BY <1>1 DEF Ledger, Plans
<1>4. Len(got[r]) \in Nat
  BY DEF Ledger, Locals
<1>5. Len(got[r]) \in Parts
  BY <1>2, <1>3, <1>4, MaxPartsAssumption DEF Joined, Parts
<1> QED BY <1>1, <1>2, <1>5 DEF Awaited, Tasks

\* One more result: the message of the task is there, and is the next in order.
LEMMA LedgerJoinOk ==
  ASSUME TypeInv, SingleCompletion, Ledger, NEW r \in Reqs, JoinOk(r)
  PROVE  Ledger'
<1> USE DEF JoinOk, session, tasks, stored
<1> DEFINE t == Awaited(r)
<1>0. /\ gen[r] \in Gens /\ gen[r] <= spawned
      /\ Len(got[r]) \in Parts
      /\ t \in Tasks /\ t = <<gen[r], Len(got[r])>>
      /\ Joined(r)
  BY AwaitedTask DEF Awaited
<1>1. /\ st[t] = "ok"
      /\ got' = [got EXCEPT ![r] = Append(got[r], Message(t))]
      /\ pc' = [pc EXCEPT ![r] =
              IF Len(got[r]) + 1 = NParts(Declared, plan[gen[r]])
              THEN "insert" ELSE "join"]
      /\ pc[r] = "join"
  OBVIOUS
<1>2. Message(t) \in Msgs /\ Message(t).gen = gen[r]
  BY <1>0 DEF Message, Msgs, Tasks, Ledger, Locals, TypeInv, TypeOK
<1>3. got[r] \in Seq(Msgs)
  BY DEF Ledger, Locals
<1> DEFINE new == Append(got[r], Message(t))
<1>4. /\ new \in Seq(Msgs)
      /\ Len(new) = Len(got[r]) + 1
      /\ \A i \in 1..Len(got[r]) : new[i] = got[r][i]
      /\ new[Len(got[r]) + 1] = Message(t)
  BY <1>2, <1>3
<1>5. got'[r] = new /\ \A q \in Reqs \ {r} : got'[q] = got[q] /\ pc'[q] = pc[q]
  BY <1>1 DEF Ledger, Locals, TypeInv, TypeOK
<1>6. /\ pc'[r] \in {"join", "insert"}
      /\ pc'[r] = "insert" => Len(new) = NParts(Declared, plan[gen[r]])
      /\ pc'[r] = "join" => Len(new) # NParts(Declared, plan[gen[r]])
  BY <1>1, <1>4 DEF TypeInv, TypeOK
<1>a. Locals'
  <2>1. new \in Seq(Msgs)
    BY <1>4
  <2>2. got' = [got EXCEPT ![r] = new]
    BY <1>1
  <2> HIDE DEF new
  <2> QED BY <2>1, <2>2 DEF Ledger, Locals
<1>b. Plans'
  BY DEF Ledger, Plans
<1>c. Handles'
  BY <1>0, <1>1, <1>5, <1>6 DEF Ledger, Handles, Completing, CompletePCs, Gens
<1>d. Joins'
  <2> SUFFICES ASSUME NEW q \in Reqs, pc'[q] \in {"join", "insert"}
               PROVE  Joined(q)'
    BY DEF Joins
  <2>1. CASE q # r
    <3>1. Joined(q) /\ got'[q] = got[q] /\ pc'[q] = pc[q]
      BY <1>5, <2>1 DEF Ledger, Joins
    <3> QED BY <3>1 DEF Joined, Message
  <2>2. CASE q = r
    <3>0. NParts(Declared, plan[gen[r]]) \in Nat /\ Len(got[r]) \in Nat
      BY <1>0 DEF Ledger, Plans, Parts
    <3>1. Len(got[r]) < NParts(Declared, plan[gen[r]])
      BY <1>0, <1>1 DEF Joined
    <3>2. /\ Len(new) <= NParts(Declared, plan[gen[r]])
          /\ pc'[r] = "join" => Len(new) < NParts(Declared, plan[gen[r]])
          /\ pc'[r] = "insert" => Len(new) = NParts(Declared, plan[gen[r]])
      BY <1>4, <1>6, <3>0, <3>1
    <3>3. \A i \in 1..Len(new) :
            /\ <<gen[r], i - 1>> \in Tasks
            /\ st[<<gen[r], i - 1>>] = "ok"
            /\ new[i] = Message(<<gen[r], i - 1>>)
      <4> SUFFICES ASSUME NEW i \in 1..Len(new)
                   PROVE  /\ <<gen[r], i - 1>> \in Tasks
                          /\ st[<<gen[r], i - 1>>] = "ok"
                          /\ new[i] = Message(<<gen[r], i - 1>>)
        OBVIOUS
      <4>1. CASE i = Len(got[r]) + 1
        <5>1. <<gen[r], i - 1>> = t
          BY <1>0, <3>0, <4>1
        <5> QED BY <1>0, <1>1, <1>4, <4>1, <5>1
      <4>2. CASE i # Len(got[r]) + 1
        <5>1. i \in 1..Len(got[r])
          BY <1>4, <3>0, <4>2
        <5> QED BY <1>0, <1>4, <5>1 DEF Joined
      <4> QED BY <4>1, <4>2
    <3>4. got'[r] = new /\ gen'[r] = gen[r]
      BY <1>5
    <3> HIDE DEF new
    <3> QED BY <2>2, <3>2, <3>3, <3>4 DEF Joined, Message
  <2> QED BY <2>1, <2>2
<1>e. Undos'
  <2> SUFFICES ASSUME NEW q \in Reqs
               PROVE  /\ pc'[q] \notin {"join", "insert", "stored", "undo"} => got'[q] = <<>>
                      /\ pc'[q] # "undo" => todo'[q] = <<>>
                      /\ \A i \in 1..Len(got'[q]) : got'[q][i].gen = gen'[q]
                      /\ \A i \in 1..Len(todo'[q]) : todo'[q][i].gen = gen'[q]
    BY DEF Undos
  <2>1. CASE q # r
    BY <1>5, <2>1 DEF Ledger, Undos
  <2>2. CASE q = r
    <3>0. Len(got[r]) \in Nat
      BY <1>3
    <3>1. \A i \in 1..Len(new) : new[i].gen = gen[r]
      <4> SUFFICES ASSUME NEW i \in 1..Len(new)
                   PROVE  new[i].gen = gen[r]
        OBVIOUS
      <4>1. CASE i = Len(got[r]) + 1
        BY <1>2, <1>4, <4>1
      <4>2. CASE i # Len(got[r]) + 1
        BY <1>4, <3>0, <4>2 DEF Ledger, Undos
      <4> QED BY <4>1, <4>2
    <3> HIDE DEF new
    <3> QED BY <1>1, <1>5, <1>6, <2>2, <3>1 DEF Ledger, Undos
  <2> QED BY <2>1, <2>2
<1>f. Posted'
  <2>1. \A g \in Gens : Intact(g)' => Intact(g)
    BY <1>1, <1>5 DEF Intact
  <2> QED BY <2>1 DEF Ledger, Posted, Message, Tasks
<1>g. Rows'
  <2> SUFFICES ASSUME NEW row \in rows
               PROVE  \E g \in Gens : RowOf(row, g)'
    BY DEF Rows
  <2>1. PICK g \in Gens : RowOf(row, g)
    BY DEF Ledger, Rows
  <2>2. RowOf(row, g)'
    BY <1>1, <1>5, <2>1 DEF RowOf
  <2> QED BY <2>2
<1> QED BY <1>a, <1>b, <1>c, <1>d, <1>e, <1>f, <1>g DEF Ledger

\* A join that fails: the rest is stopped, and what was joined is to be deleted.
LEMMA LedgerJoinErr ==
  ASSUME TypeInv, Ledger, NEW r \in Reqs, JoinErr(r)
  PROVE  Ledger'
<1> USE DEF JoinErr, session, stored
<1>0. \A t \in Tasks : /\ st'[t] = st[t] \/ (st'[t] = "aborted" /\ Running(t))
                       /\ Message(t)' = Message(t)
  BY DEF Aborted, Message
<1>1. /\ todo' = [todo EXCEPT ![r] = got[r]]
      /\ pc' = [pc EXCEPT ![r] = "undo"]
      /\ pc[r] = "join"
  OBVIOUS
<1>2. /\ \A q \in Reqs \ {r} : todo'[q] = todo[q] /\ pc'[q] = pc[q]
      /\ todo'[r] = got[r] /\ pc'[r] = "undo"
  BY <1>1 DEF Ledger, Locals, TypeInv, TypeOK
<1>a. Locals'
  BY <1>1 DEF Ledger, Locals
<1>b. Plans'
  BY <1>0 DEF Ledger, Plans, Running
<1>c. Handles'
  BY <1>1, <1>2 DEF Ledger, Handles, Completing, CompletePCs
<1>d. Joins'
  <2> SUFFICES ASSUME NEW q \in Reqs, pc'[q] \in {"join", "insert"}
               PROVE  Joined(q)'
    BY DEF Joins
  <2>1. Joined(q) /\ pc'[q] = pc[q]
    BY <1>2 DEF Ledger, Joins
  <2> QED BY <1>0, <2>1 DEF Joined, Message, Running
<1>e. Undos'
  BY <1>2 DEF Ledger, Undos
<1>f. Posted'
  <2>1. \A g \in Gens : Intact(g)' => Intact(g)
    BY <1>2 DEF Intact
  <2> QED BY <1>0, <2>1 DEF Ledger, Posted, Message, Tasks
<1>g. Rows'
  <2> SUFFICES ASSUME NEW row \in rows
               PROVE  \E g \in Gens : RowOf(row, g)'
    BY DEF Rows
  <2>1. PICK g \in Gens : RowOf(row, g)
    BY DEF Ledger, Rows
  <2>2. RowOf(row, g)'
    BY <1>1, <1>2, <2>1 DEF RowOf
  <2> QED BY <2>2
<1> QED BY <1>a, <1>b, <1>c, <1>d, <1>e, <1>f, <1>g DEF Ledger

\* One delete of a rollback: it cannot reach a fan-out somebody else counts on.
LEMMA LedgerUndo ==
  ASSUME TypeInv, SingleCompletion, Ledger, NEW r \in Reqs, Undo(r)
  PROVE  Ledger'
<1> USE DEF Undo, session, spill, tasks
<1>1. /\ todo[r] \in Seq(Msgs) /\ todo[r] # <<>>
      /\ todo' = [todo EXCEPT ![r] = Tail(todo[r])]
      /\ pc[r] = "undo"
  BY DEF Ledger, Locals
<1>2. /\ Tail(todo[r]) \in Seq(Msgs)
      /\ Len(Tail(todo[r])) = Len(todo[r]) - 1
      /\ \A i \in 1..Len(Tail(todo[r])) : Tail(todo[r])[i] = todo[r][i + 1]
      /\ Head(todo[r]) = todo[r][1]
      /\ Len(todo[r]) \in Nat \ {0}
  <2>1. Head(todo[r]) = todo[r][1] /\ Len(todo[r]) \in Nat \ {0}
    BY <1>1
  <2> QED BY <1>1, <2>1, HeadTailProperties
<1>3. Head(todo[r]).gen = gen[r]
  BY <1>2 DEF Ledger, Undos
<1>4. /\ \A q \in Reqs \ {r} : todo'[q] = todo[q]
      /\ todo'[r] = Tail(todo[r])
  BY <1>1 DEF Ledger, Locals
<1>5. \A m : m \in messages /\ m.gen # gen[r] => m \in messages'
  BY <1>3
<1>a. Locals'
  BY <1>1, <1>2 DEF Ledger, Locals
<1>b. Plans'
  BY DEF Ledger, Plans
<1>c. Handles'
  BY DEF Ledger, Handles, Completing
<1>d. Joins'
  BY DEF Ledger, Joins, Joined, Message
<1>e. Undos'
  <2>1. \A i \in 1..Len(Tail(todo[r])) : Tail(todo[r])[i].gen = gen[r]
    <3>1. \A i \in 1..Len(Tail(todo[r])) : i + 1 \in 1..Len(todo[r])
      BY <1>2
    <3> QED BY <1>2, <3>1 DEF Ledger, Undos
  <2> QED BY <1>1, <1>4, <2>1 DEF Ledger, Undos
<1>f. Posted'
  <2> SUFFICES ASSUME NEW t \in Tasks, st[t] \in {"sent", "ok"}, Intact(t[1])
               PROVE  Message(t) \in messages'
    BY DEF Posted, Intact, Message
  <2>1. t[1] # gen[r]
    <3>1. Completing(r) /\ ~handles
      BY <1>1 DEF Ledger, Handles, Completing, CompletePCs
    <3>2. PICK q \in Reqs : gen[q] = t[1] /\ pc[q] \in {"head", "join", "insert"}
      BY <3>1 DEF Intact
    <3>3. Completing(q)
      BY <3>2 DEF Completing, CompletePCs
    <3>4. q = r
      BY <3>1, <3>3 DEF SingleCompletion
    <3> QED BY <1>1, <3>2, <3>4
  <2>2. Message(t).gen = t[1]
    BY DEF Message
  <2> QED BY <1>5, <2>1, <2>2 DEF Ledger, Posted
<1>g. Rows'
  <2> SUFFICES ASSUME NEW row \in rows
               PROVE  \E g \in Gens : RowOf(row, g)'
    BY DEF Rows
  <2>1. PICK g \in Gens : RowOf(row, g)
    BY DEF Ledger, Rows
  <2>2. g # gen[r]
    BY <1>1, <2>1 DEF RowOf
  <2>3. RowOf(row, g)'
    BY <1>5, <2>1, <2>2 DEF RowOf
  <2> QED BY <2>3
<1> QED BY <1>a, <1>b, <1>c, <1>d, <1>e, <1>f, <1>g DEF Ledger

\* The row is inserted: all its messages are there, and its handler is done with them.
LEMMA LedgerInsert ==
  ASSUME TypeInv, SingleCompletion, Ledger, NEW r \in Reqs, Insert(r)
  PROVE  Ledger'
<1> USE DEF Insert, session, locals, tasks
<1>1. /\ rows' = rows \cup {got[r]}
      /\ pc' = [pc EXCEPT ![r] = "stored"]
      /\ pc[r] = "insert"
  OBVIOUS
<1>2. (\A q \in Reqs \ {r} : pc'[q] = pc[q]) /\ pc'[r] = "stored"
  BY <1>1 DEF TypeInv, TypeOK
<1>3. Completing(r) /\ ~handles /\ gen[r] \in Gens /\ gen[r] <= spawned /\ Joined(r)
  BY <1>1 DEF Ledger, Handles, Joins, Completing, CompletePCs, Gens, TypeInv, TypeOK
<1>a. Locals'
  BY DEF Ledger, Locals
<1>b. Plans'
  BY DEF Ledger, Plans
<1>c. Handles'
  BY <1>2 DEF Ledger, Handles, Completing, CompletePCs
<1>d. Joins'
  BY <1>2 DEF Ledger, Joins, Joined, Message
<1>e. Undos'
  BY <1>2 DEF Ledger, Undos
<1>f. Posted'
  <2>1. \A g \in Gens : Intact(g)' => Intact(g)
    BY <1>2 DEF Intact
  <2> QED BY <2>1 DEF Ledger, Posted, Message, Tasks
<1>g. Rows'
  <2> SUFFICES ASSUME NEW row \in rows'
               PROVE  \E g \in Gens : RowOf(row, g)'
    BY DEF Rows
  <2>1. CASE row \in rows
    <3>1. PICK g \in Gens : RowOf(row, g)
      BY <2>1 DEF Ledger, Rows
    <3>2. RowOf(row, g)'
      BY <1>2, <3>1 DEF RowOf
    <3> QED BY <3>2
  <2>2. CASE row = got[r]
    <3>1. Intact(gen[r])
      BY <1>1 DEF Intact
    <3>2. \A i \in 1..Len(row) :
            row[i].gen = gen[r] /\ row[i].part = i - 1 /\ row[i] \in messages
      <4> SUFFICES ASSUME NEW i \in 1..Len(got[r])
                   PROVE  /\ got[r][i].gen = gen[r] /\ got[r][i].part = i - 1
                          /\ got[r][i] \in messages
        BY <2>2
      <4> DEFINE t == <<gen[r], i - 1>>
      <4>1. t \in Tasks /\ st[t] = "ok" /\ got[r][i] = Message(t)
        BY <1>3 DEF Joined
      <4>2. t[1] = gen[r] /\ t[2] = i - 1
        OBVIOUS
      <4> HIDE DEF t
      <4>3. Message(t) \in messages
        BY <3>1, <4>1, <4>2 DEF Ledger, Posted
      <4> QED BY <4>1, <4>2, <4>3 DEF Message
    <3>3. \A q \in Reqs : gen[q] = gen[r] => q = r
      BY <1>3 DEF Ledger, Handles, SingleCompletion, Gens
    <3>4. RowOf(row, gen[r])'
      BY <1>1, <1>2, <1>3, <2>2, <3>2, <3>3 DEF RowOf, Joined
    <3> QED BY <1>3, <3>4
  <2> QED BY <1>1, <2>1, <2>2
<1> QED BY <1>a, <1>b, <1>c, <1>d, <1>e, <1>f, <1>g DEF Ledger

\* The insert fails: one rollback, or two of the same messages.
LEMMA LedgerInsertFails ==
  ASSUME TypeInv, Ledger, NEW r \in Reqs, InsertFails(r)
  PROVE  Ledger'
<1> USE DEF InsertFails, session, tasks, stored
<1> DEFINE all == IF gen[r] = 1 THEN got[r] \o got[r] ELSE got[r]
<1>1. /\ todo' = [todo EXCEPT ![r] = all]
      /\ pc' = [pc EXCEPT ![r] = "undo"]
      /\ pc[r] = "insert"
  OBVIOUS
<1>2. all \in Seq(Msgs) /\ \A i \in 1..Len(all) : all[i].gen = gen[r]
  <2>1. got[r] \in Seq(Msgs) /\ \A i \in 1..Len(got[r]) : got[r][i].gen = gen[r]
    BY DEF Ledger, Locals, Undos
  <2>2. CASE gen[r] = 1
    <3>1. all = got[r] \o got[r]
      BY <2>2
    <3>2. /\ Len(got[r]) \in Nat
          /\ got[r] \o got[r] \in Seq(Msgs)
          /\ Len(got[r] \o got[r]) = Len(got[r]) + Len(got[r])
          /\ \A i \in 1..(Len(got[r]) + Len(got[r])) :
               (got[r] \o got[r])[i] = IF i <= Len(got[r]) THEN got[r][i] ELSE got[r][i - Len(got[r])]
      BY <2>1
    <3>3. \A i \in 1..(Len(got[r]) + Len(got[r])) :
             i \in 1..Len(got[r]) \/ (~(i <= Len(got[r])) /\ i - Len(got[r]) \in 1..Len(got[r]))
      BY <3>2
    <3> QED BY <2>1, <3>1, <3>2, <3>3
  <2>3. CASE gen[r] # 1
    BY <2>1, <2>3
  <2> QED BY <2>2, <2>3
<1>3. /\ \A q \in Reqs \ {r} : todo'[q] = todo[q] /\ pc'[q] = pc[q]
      /\ todo'[r] = all /\ pc'[r] = "undo"
  BY <1>1 DEF Ledger, Locals, TypeInv, TypeOK
<1> HIDE DEF all
<1>a. Locals'
  BY <1>1, <1>2 DEF Ledger, Locals
<1>b. Plans'
  BY DEF Ledger, Plans
<1>c. Handles'
  BY <1>1, <1>3 DEF Ledger, Handles, Completing, CompletePCs
<1>d. Joins'
  <2> SUFFICES ASSUME NEW q \in Reqs, pc'[q] \in {"join", "insert"}
               PROVE  Joined(q)'
    BY DEF Joins
  <2>1. Joined(q) /\ pc'[q] = pc[q]
    BY <1>3 DEF Ledger, Joins
  <2> QED BY <2>1 DEF Joined, Message
<1>e. Undos'
  <2>1. gen' = gen /\ got' = got
    OBVIOUS
  <2> HIDE DEF InsertFails, session, tasks, stored
  <2> QED BY <1>2, <1>3, <2>1 DEF Ledger, Undos
<1>f. Posted'
  <2>1. \A g \in Gens : Intact(g)' => Intact(g)
    BY <1>3 DEF Intact
  <2> QED BY <2>1 DEF Ledger, Posted, Message, Tasks
<1>g. Rows'
  <2> SUFFICES ASSUME NEW row \in rows
               PROVE  \E g \in Gens : RowOf(row, g)'
    BY DEF Rows
  <2>1. PICK g \in Gens : RowOf(row, g)
    BY DEF Ledger, Rows
  <2>2. RowOf(row, g)'
    BY <1>1, <1>3, <2>1 DEF RowOf
  <2> QED BY <2>2
<1> QED BY <1>a, <1>b, <1>c, <1>d, <1>e, <1>f, <1>g DEF Ledger

\* The process stops: nobody is left who could roll anything back.
LEMMA LedgerCrash ==
  ASSUME TypeInv, Ledger, Crash
  PROVE  Ledger'
<1> USE DEF Crash, stored
<1>0. \A t \in Tasks : st'[t] = st[t] \/ (st'[t] = "aborted" /\ Running(t))
  BY DEF Aborted
<1>a. Locals'
  BY DEF Ledger, Locals
<1>b. Plans'
  BY <1>0 DEF Ledger, Plans, Running
<1>c. Handles'
  BY DEF Ledger, Handles, Completing, CompletePCs, TypeInv, TypeOK
<1>d. Joins'
  BY DEF Joins
<1>e. Undos'
  BY DEF Undos
<1>f. Posted'
  BY DEF Posted, Intact
<1>g. Rows'
  <2> SUFFICES ASSUME NEW row \in rows
               PROVE  \E g \in Gens : RowOf(row, g)'
    BY DEF Rows
  <2>1. PICK g \in Gens : RowOf(row, g)
    BY DEF Ledger, Rows
  <2>2. RowOf(row, g)'
    BY <2>1 DEF RowOf, Gens
  <2> QED BY <2>2
<1> QED BY <1>a, <1>b, <1>c, <1>d, <1>e, <1>f, <1>g DEF Ledger

LEMMA LedgerStep ==
  TypeInv /\ SingleCompletion /\ Ledger /\ [Next]_vars => Ledger'
<1> SUFFICES ASSUME TypeInv, SingleCompletion, Ledger, [Next]_vars PROVE Ledger'
  OBVIOUS
<1>1. CASE UNCHANGED vars
  <2>1. OffStage
    BY <1>1 DEF vars, session, spill, locals, tasks, stored, OffStage
  <2> QED BY <2>1, OffStageKeeps
<1>2. CASE InitFile \/ InitSession \/ InitFails \/ InitDropped
             \/ Touch \/ Age \/ Sweep \/ Reap \/ Crash
  BY <1>2, LedgerQuiet, LedgerInitSession, LedgerRemoval, LedgerCrash
<1>3. ASSUME NEW r \in Reqs,
             ChunkBegin(r) \/ AbortBegin(r) \/ Gate(r) \/ HandlerStep(r) \/ Disconnect(r)
      PROVE  Ledger'
  BY <1>3, LedgerQuiet, LedgerRemoval, LedgerLeaves, LedgerGate, LedgerHead,
     LedgerFallback, LedgerJoinOk, LedgerJoinErr, LedgerUndo, LedgerInsert,
     LedgerInsertFails DEF HandlerStep
<1>4. ASSUME NEW t \in Tasks, TaskStep(t)
      PROVE  Ledger'
  BY <1>4, LedgerTask
<1> QED BY <1>1, <1>2, <1>3, <1>4 DEF Next

\* The rollbacks of collect_uploaders, persist_row and complete(), and the messages a
\* row names: for any number of handlers, fan-outs and parts, whatever fails, is
\* retried, dropped or restarted, a row names all the parts of one fan-out in order
\* and every message it names exists.
THEOREM RowsAreSound == Spec => []RowSound
BY TypeInit, TypeStep, GateInit, GateStep, LedgerInit, LedgerStep, LedgerSound, PTL DEF Spec

-----------------------------------------------------------------------------
(* One row, unless the client can go away between the insert and the end   *)

OneRow ==
  /\ \A p, q \in rows : p = q
  /\ rows # {} =>
       /\ phase = "gone" \/ \E r \in Reqs : pc[r] = "stored"
       /\ \A r \in Reqs : Completing(r) => pc[r] = "stored"

\* A step that inserts nothing, lets nobody into complete(), and ends the session
\* when it takes a handler away from its row.
RowSteady ==
  /\ rows' = rows
  /\ phase = "gone" => phase' = "gone"
  /\ \A r \in Reqs :
       /\ (Completing(r))' => Completing(r)
       /\ pc[r] = "stored" => \/ pc'[r] = "stored"
                              \/ phase' = "gone" /\ ~(Completing(r))'

LEMMA RowSteadyKeeps == OneRow /\ RowSteady => OneRow'
<1> SUFFICES ASSUME OneRow, RowSteady PROVE OneRow'
  OBVIOUS
<1>1. \A p, q \in rows' : p = q
  BY DEF OneRow, RowSteady
<1>2. ASSUME rows' # {}
      PROVE  \A r \in Reqs : (Completing(r))' => pc'[r] = "stored"
  BY <1>2 DEF OneRow, RowSteady
<1>3. ASSUME rows' # {}
      PROVE  phase' = "gone" \/ \E r \in Reqs : pc'[r] = "stored"
  BY <1>3 DEF OneRow, RowSteady
<1> QED BY <1>1, <1>2, <1>3 DEF OneRow

LEMMA RowSteadyWorld ==
  ASSUME TypeInv, Ledger,
         InitFile \/ InitSession \/ InitFails \/ InitDropped \/ Touch \/ Age
           \/ Sweep \/ Reap \/ Crash \/ UNCHANGED vars
           \/ \E t \in Tasks : TaskStep(t)
  PROVE  RowSteady
<1> USE DEF RowSteady, Completing, CompletePCs, session, locals, stored
<1>1. CASE InitFile \/ InitSession \/ InitFails \/ InitDropped \/ Touch \/ Age \/ Reap
  BY <1>1 DEF InitFile, InitSession, InitFails, InitDropped, Touch, Age, Reap
<1>2. CASE Sweep
  BY <1>2 DEF Sweep, RemoveSession
<1>3. CASE Crash
  BY <1>3 DEF Crash
<1>4. CASE UNCHANGED vars
  BY <1>4 DEF vars
<1>5. CASE \E t \in Tasks : TaskStep(t)
  BY <1>5, TaskMoves DEF OnlyTheTask
<1> QED BY <1>1, <1>2, <1>3, <1>4, <1>5

LEMMA RowSteadyHandler ==
  ASSUME TypeInv, Ledger, NEW r \in Reqs,
         \/ ChunkBegin(r) \/ AbortBegin(r)
         \/ (HandlerStep(r) /\ ~Insert(r))
  PROVE  RowSteady
<1> USE DEF RowSteady, Completing, CompletePCs, TypeInv, TypeOK, stored
<1>1. CASE ChunkBegin(r) \/ AbortBegin(r)
  BY <1>1 DEF ChunkBegin, AbortBegin
<1>2. CASE ChunkAppend(r) \/ ChunkOpenFails(r) \/ ChunkAck(r) \/ AbortUnlink(r)
  BY <1>2 DEF ChunkAppend, ChunkOpenFails, ChunkAck, AbortUnlink, Return, session
<1>3. CASE ChunkTorn(r)
  <2>1. Return(r) \/ pc' = [pc EXCEPT ![r] = "ack"]
    BY <1>3 DEF ChunkTorn
  <2>2. UNCHANGED <<session, stored>> /\ pc[r] = "append"
    BY <1>3 DEF ChunkTorn
  <2> QED BY <2>1, <2>2 DEF Return, session
<1>4. CASE AbortRemove(r)
  BY <1>4 DEF AbortRemove, RemoveSession
<1>5. CASE HeadFails(r) \/ FallbackFails(r) \/ UndoDone(r) \/ Retire(r)
  BY <1>5 DEF HeadFails, FallbackFails, UndoDone, Retire, Leave, Return
<1>6. CASE ReadHead(r) \/ Fallback(r) \/ JoinErr(r) \/ Undo(r) \/ InsertFails(r)
  BY <1>6 DEF ReadHead, Fallback, JoinErr, Undo, InsertFails, session
<1>7. CASE JoinOk(r)
  BY <1>7 DEF JoinOk, session
<1> QED BY <1>1, <1>2, <1>3, <1>4, <1>5, <1>6, <1>7 DEF HandlerStep

LEMMA OneRowStep ==
  ASSUME "disconnect" \notin Faults
  PROVE  TypeInv /\ SingleCompletion /\ Ledger /\ OneRow /\ [Next]_vars => OneRow'
<1> SUFFICES ASSUME TypeInv, SingleCompletion, Ledger, OneRow, [Next]_vars
             PROVE  OneRow'
  OBVIOUS
<1>1. CASE RowSteady
  BY <1>1, RowSteadyKeeps
<1>2. ASSUME NEW r \in Reqs, Gate(r)
      PROVE  OneRow'
  <2>1. rows = {}
    <3> SUFFICES ASSUME rows # {} PROVE FALSE
      OBVIOUS
    <3>1. phase = "live" /\ ~inFlight
      BY <1>2 DEF Gate, GateOpen
    <3>2. PICK q \in Reqs : pc[q] = "stored"
      BY <3>1 DEF OneRow
    <3> QED BY <3>1, <3>2 DEF SingleCompletion, Completing, CompletePCs
  <2> QED BY <1>2, <2>1 DEF Gate, stored, OneRow
<1>3. ASSUME NEW r \in Reqs, Insert(r)
      PROVE  OneRow'
  <2>1. pc[r] = "insert" /\ Completing(r)
    BY <1>3 DEF Insert, Completing, CompletePCs
  <2>2. rows' = {got[r]}
    <3>1. rows = {}
      BY <2>1 DEF OneRow
    <3> QED BY <1>3, <3>1 DEF Insert
  <2>3. pc'[r] = "stored" /\ \A q \in Reqs \ {r} : pc'[q] = pc[q]
    BY <1>3 DEF Insert, TypeInv, TypeOK
  <2>4. \A q \in Reqs \ {r} : ~(Completing(q))'
    BY <2>1, <2>3 DEF SingleCompletion, Completing
  <2> QED BY <2>2, <2>3, <2>4 DEF OneRow
<1>4. \A r \in Reqs : ~Disconnect(r)
  BY DEF Disconnect
<1> QED BY <1>1, <1>2, <1>3, <1>4, RowSteadyWorld, RowSteadyHandler DEF Next

\* persist_row and the end of complete(): one upload is recorded once, however often
\* complete() is retried and whatever else fails, as long as no request is dropped
\* between the commit of the row and the removal of the session.
THEOREM RecordedOnce ==
  ASSUME "disconnect" \notin Faults
  PROVE  Spec => []AtMostOneRow
<1>1. Init => OneRow
  BY DEF Init, OneRow
<1>2. OneRow => AtMostOneRow
  <2> SUFFICES ASSUME OneRow PROVE Cardinality(rows) <= 1
    BY DEF AtMostOneRow
  <2>1. CASE rows = {}
    BY <2>1, FS_EmptySet
  <2>2. CASE rows # {}
    <3>1. PICK x \in rows : rows = {x}
      BY <2>2 DEF OneRow
    <3>2. Cardinality({x}) = 1
      BY FS_Singleton
    <3> QED BY <3>1, <3>2
  <2> QED BY <2>1, <2>2
<1>3. TypeInv /\ SingleCompletion /\ Ledger /\ OneRow /\ [Next]_vars => OneRow'
  BY OneRowStep
<1> QED BY TypeInit, TypeStep, GateInit, GateStep, LedgerInit, LedgerStep,
           <1>1, <1>2, <1>3, PTL DEF Spec

-----------------------------------------------------------------------------
(* One fan-out at a time                                                   *)

\* While the session lives, nothing is about to take its spill file away.
FileKept ==
  /\ phase \in {"new", "creating", "live"} => ~reaper
  /\ phase \in {"creating", "live"} => onDisk
  /\ \A r \in Reqs : pc[r] = "unlink" => phase = "gone"

\* Only the latest fan-out runs, and it is over before a new one can begin: when no
\* handler has it in hand, and the session has not its handles, its tasks have ended.
Settled == \A t \in Tasks : ~Running(t)

Latest ==
  /\ \A t \in Tasks : Running(t) => t[1] = spawned
  /\ \A r \in Reqs :
       /\ gen[r] \in {0, spawned}
       /\ pc[r] \in {"plan", "insert", "undo", "stored"} => Settled
       /\ pc[r] = "head" /\ gen[r] = 0 => Settled
  /\ phase = "live" =>
       \/ handles
       \/ Settled
       \/ \E r \in Reqs : gen[r] # 0 /\ pc[r] \in {"head", "join"}

LEMMA FileKeptStep ==
  ASSUME "disconnect" \notin Faults
  PROVE  TypeInv /\ Ledger /\ FileKept /\ [Next]_vars => FileKept'
<1> SUFFICES ASSUME TypeInv, Ledger, FileKept, [Next]_vars
             PROVE  FileKept'
  OBVIOUS
<1> USE DEF FileKept, TypeInv, TypeOK
<1>1. CASE InitFile \/ InitSession \/ InitFails \/ InitDropped \/ UNCHANGED vars
  BY <1>1 DEF InitFile, InitSession, InitFails, InitDropped, spill, session, vars,
              Ledger, Handles
<1>2. CASE Touch \/ Age \/ Sweep \/ Reap \/ Crash
  BY <1>2 DEF Touch, Age, Sweep, RemoveSession, Reap, Crash, spill, session
<1>3. ASSUME NEW r \in Reqs, ChunkBegin(r) \/ AbortBegin(r) \/ Gate(r)
      PROVE  FileKept'
  BY <1>3 DEF ChunkBegin, AbortBegin, Gate, spill
<1>4. ASSUME NEW r \in Reqs, ChunkAppend(r) \/ ChunkOpenFails(r) \/ ChunkAck(r)
      PROVE  FileKept'
  BY <1>4 DEF ChunkAppend, ChunkOpenFails, ChunkAck, Return, spill, session
<1>5. ASSUME NEW r \in Reqs, ChunkTorn(r)
      PROVE  FileKept'
  <2>1. Return(r) \/ pc' = [pc EXCEPT ![r] = "ack"]
    BY <1>5 DEF ChunkTorn
  <2>2. UNCHANGED <<session, onDisk, reaper>>
    BY <1>5 DEF ChunkTorn
  <2> QED BY <2>1, <2>2 DEF Return, session
<1>6. ASSUME NEW r \in Reqs, AbortRemove(r) \/ AbortUnlink(r)
      PROVE  FileKept'
  <2>1. CASE AbortRemove(r)
    <3>1. phase \notin {"new", "creating"}
      BY <2>1 DEF AbortRemove, Ledger, Handles
    <3>2. phase' = "gone"
      BY <2>1, <3>1 DEF AbortRemove, RemoveSession
    <3> QED BY <3>2
  <2>2. CASE AbortUnlink(r)
    BY <2>2 DEF AbortUnlink, Return, session
  <2> QED BY <1>6, <2>1, <2>2
<1>7. ASSUME NEW r \in Reqs,
             ReadHead(r) \/ Fallback(r) \/ JoinErr(r) \/ Undo(r) \/ Insert(r) \/ InsertFails(r)
      PROVE  FileKept'
  BY <1>7 DEF ReadHead, Fallback, JoinErr, Undo, Insert, InsertFails, spill, session
<1>8. ASSUME NEW r \in Reqs, JoinOk(r)
      PROVE  FileKept'
  BY <1>8 DEF JoinOk, spill, session
<1>9. ASSUME NEW r \in Reqs,
             HeadFails(r) \/ FallbackFails(r) \/ UndoDone(r) \/ Retire(r)
      PROVE  FileKept'
  BY <1>9 DEF HeadFails, FallbackFails, UndoDone, Retire, Leave, Return, spill
<1>10. ASSUME NEW t \in Tasks, TaskStep(t)
       PROVE  FileKept'
  BY <1>10, TaskMoves DEF OnlyTheTask, spill, session
<1>11. \A r \in Reqs : ~Disconnect(r)
  BY DEF Disconnect
<1> QED BY <1>1, <1>2, <1>3, <1>4, <1>5, <1>6, <1>7, <1>8, <1>9, <1>10, <1>11
        DEF Next, HandlerStep

\* When every part of a fan-out was joined, or the rest was stopped, nothing runs.
LEMMA JoinedSettles ==
  ASSUME TypeInv, Ledger, Latest, NEW r \in Reqs, pc[r] = "join",
         st[Awaited(r)] \in {"ok", "err", "aborted"}
  PROVE  /\ Len(got[r]) + 1 = NParts(Declared, plan[gen[r]]) => Settled
         /\ \A t \in Tasks : Running(t) => t \in NotYetJoined(r)
<1>1. /\ gen[r] \in Gens /\ gen[r] <= spawned
      /\ Len(got[r]) \in Parts
      /\ Awaited(r) = <<gen[r], Len(got[r])>>
      /\ Joined(r)
  BY AwaitedTask DEF Awaited
<1>2. gen[r] = spawned
  BY <1>1 DEF Latest, Gens
<1>3. Len(got[r]) \in Nat /\ NParts(Declared, plan[gen[r]]) \in Nat
  BY <1>1 DEF Parts, Ledger, Plans
<1>4. ASSUME NEW t \in Tasks, Running(t)
      PROVE  t[1] = gen[r] /\ t[2] > Len(got[r]) /\ t[2] < NParts(Declared, plan[gen[r]])
  <2>1. t[1] = gen[r]
    BY <1>2, <1>4 DEF Latest
  <2>2. t[2] < NParts(Declared, plan[gen[r]])
    BY <1>4, <2>1 DEF Ledger, Plans, Running
  <2>3. t[2] \in Nat /\ t = <<gen[r], t[2]>>
    BY <2>1 DEF Tasks, Parts
  <2>4. t[2] # Len(got[r])
    BY <1>1, <1>4, <2>3 DEF Running
  <2>5. ~(t[2] < Len(got[r]))
    <3> SUFFICES ASSUME t[2] < Len(got[r]) PROVE FALSE
      OBVIOUS
    <3>1. t[2] + 1 \in 1..Len(got[r]) /\ (t[2] + 1) - 1 = t[2]
      BY <1>3, <2>3
    <3>2. st[<<gen[r], (t[2] + 1) - 1>>] = "ok"
      BY <1>1, <3>1 DEF Joined
    <3> QED BY <1>4, <2>3, <3>1, <3>2 DEF Running
  <2> QED BY <1>3, <2>1, <2>2, <2>3, <2>4, <2>5
<1>5. Len(got[r]) + 1 = NParts(Declared, plan[gen[r]]) => Settled
  <2> SUFFICES ASSUME Len(got[r]) + 1 = NParts(Declared, plan[gen[r]]), NEW t \in Tasks, Running(t)
               PROVE  FALSE
    BY DEF Settled
  <2>1. t[2] \in Nat
    BY DEF Tasks, Parts
  <2> QED BY <1>3, <1>4, <2>1
<1> QED BY <1>4, <1>5 DEF NotYetJoined

\* A step that starts no task, and after which whoever was to wait for the tasks
\* still is.
LatestSteady ==
  /\ spawned' = spawned
  /\ \A t \in Tasks : Running(t)' => Running(t)
  /\ phase' = "live" => phase = "live" /\ (handles => handles')
  /\ \A r \in Reqs :
       /\ gen'[r] \in {gen[r], 0}
       /\ \/ pc'[r] = pc[r] /\ gen'[r] = gen[r]
          \/ ~(Completing(r))' /\ (phase' = "live" => gen[r] = 0 \/ pc[r] \notin {"head", "join"})

LEMMA LatestSteadyKeeps == Latest /\ LatestSteady => Latest'
<1> SUFFICES ASSUME Latest, LatestSteady PROVE Latest'
  OBVIOUS
<1>1. Settled => Settled'
  BY DEF Settled, LatestSteady
<1>2. \A t \in Tasks : Running(t)' => t[1] = spawned'
  BY DEF Latest, LatestSteady
<1>3. \A r \in Reqs : gen'[r] \in {0, spawned'}
  BY DEF Latest, LatestSteady
<1>4. \A r \in Reqs : /\ pc'[r] \in {"plan", "insert", "undo", "stored"} => Settled'
                      /\ pc'[r] = "head" /\ gen'[r] = 0 => Settled'
  BY <1>1 DEF Latest, LatestSteady, Completing, CompletePCs
<1>5. ASSUME phase' = "live"
      PROVE  \/ handles' \/ Settled'
             \/ \E r \in Reqs : gen'[r] # 0 /\ pc'[r] \in {"head", "join"}
  <2>1. handles \/ Settled \/ \E r \in Reqs : gen[r] # 0 /\ pc[r] \in {"head", "join"}
    BY <1>5 DEF Latest, LatestSteady
  <2>2. CASE handles
    BY <1>5, <2>2 DEF LatestSteady
  <2>3. CASE Settled
    BY <1>1, <2>3
  <2>4. ASSUME NEW r \in Reqs, gen[r] # 0, pc[r] \in {"head", "join"}
        PROVE  gen'[r] # 0 /\ pc'[r] \in {"head", "join"}
    BY <1>5, <2>4 DEF LatestSteady
  <2> QED BY <2>1, <2>2, <2>3, <2>4
<1> QED BY <1>2, <1>3, <1>4, <1>5 DEF Latest

LEMMA LatestWorld ==
  ASSUME TypeInv, Ledger,
         InitFile \/ InitFails \/ Touch \/ Age \/ Sweep \/ Reap \/ Crash \/ UNCHANGED vars
           \/ \E t \in Tasks : TaskStep(t)
  PROVE  LatestSteady
<1> USE DEF LatestSteady, Running, Completing, CompletePCs, session, locals, tasks
<1>1. CASE InitFile \/ InitFails \/ Touch \/ Age \/ Reap \/ UNCHANGED vars
  BY <1>1 DEF InitFile, InitFails, Touch, Age, Reap, vars
<1>2. CASE Sweep
  BY <1>2 DEF Sweep, RemoveSession, Aborted
<1>3. CASE Crash
  BY <1>3 DEF Crash, Aborted
<1>4. CASE \E t \in Tasks : TaskStep(t)
  <2>1. PICK t \in Tasks : TaskStep(t)
    BY <1>4
  <2>2. /\ OnlyTheTask
        /\ Running(t)
        /\ \E v \in {"ready", "sending", "stuck", "sent", "ok", "err"} : st' = [st EXCEPT ![t] = v]
    BY <2>1, TaskMoves
  <2>3. \A u \in Tasks : Running(u)' => Running(u)
    BY <2>2 DEF TypeInv, TypeOK
  <2>4. UNCHANGED <<phase, handles, pc, gen, spawned>>
    BY <2>2 DEF OnlyTheTask
  <2> QED BY <2>3, <2>4
<1> QED BY <1>1, <1>2, <1>3, <1>4

LEMMA LatestHandler ==
  ASSUME "disk" \notin Faults, TypeInv, Ledger, FileKept, NEW r \in Reqs,
         \/ ChunkBegin(r) \/ AbortBegin(r) \/ ChunkAppend(r) \/ ChunkOpenFails(r)
         \/ ChunkTorn(r) \/ ChunkAck(r) \/ AbortRemove(r) \/ AbortUnlink(r)
         \/ HeadFails(r) \/ FallbackFails(r) \/ UndoDone(r) \/ Retire(r)
  PROVE  LatestSteady
<1>0. ~Completing(r) => gen[r] = 0
  BY DEF Ledger, Handles
<1> USE <1>0 DEF LatestSteady, Completing, CompletePCs, TypeInv, TypeOK, tasks, Running
<1>1. CASE ChunkBegin(r) \/ AbortBegin(r)
  BY <1>1 DEF ChunkBegin, AbortBegin, locals
<1>2. CASE ChunkAppend(r) \/ ChunkOpenFails(r) \/ ChunkAck(r) \/ AbortUnlink(r)
  BY <1>2 DEF ChunkAppend, ChunkOpenFails, ChunkAck, AbortUnlink, Return, session, locals
<1>3. CASE ChunkTorn(r)
  BY <1>3 DEF ChunkTorn
<1>4. CASE AbortRemove(r)
  BY <1>4 DEF AbortRemove, RemoveSession, Aborted, locals
<1>5. CASE FallbackFails(r) \/ UndoDone(r) \/ Retire(r)
  BY <1>5 DEF FallbackFails, UndoDone, Retire, Leave, Return
<1>6. CASE HeadFails(r)
  <2>1. phase' = phase /\ phase # "live"
    BY <1>6 DEF HeadFails, FileKept
  <2> QED BY <1>6, <2>1 DEF HeadFails, Leave, Return
<1> QED BY <1>1, <1>2, <1>3, <1>4, <1>5, <1>6

\* A handler of complete() that goes on when all tasks have ended.
LEMMA LatestSettled ==
  ASSUME TypeInv, SingleCompletion, Ledger, Latest, NEW r \in Reqs, Completing(r),
         Settled', spawned' = spawned, gen' = gen
  PROVE  Latest'
<1>1. \A t \in Tasks : ~Running(t)'
  BY DEF Settled
<1>2. \A q \in Reqs : gen'[q] \in {0, spawned'}
  BY DEF Latest
<1> QED BY <1>1, <1>2 DEF Latest

LEMMA LatestComplete ==
  ASSUME TypeInv, SingleCompletion, Ledger, Latest, NEW r \in Reqs,
         ReadHead(r) \/ JoinOk(r) \/ JoinErr(r) \/ Undo(r) \/ Insert(r) \/ InsertFails(r)
  PROVE  Latest'
<1>0. /\ Completing(r) /\ ~handles
      /\ spawned' = spawned /\ gen' = gen /\ phase' = phase /\ handles' = handles
      /\ \A q \in Reqs \ {r} : pc'[q] = pc[q]
  BY DEF ReadHead, JoinOk, JoinErr, Undo, Insert, InsertFails, Completing, CompletePCs,
         Ledger, Handles, session, locals, tasks, TypeInv, TypeOK
<1>1. CASE Settled'
  BY <1>0, <1>1, LatestSettled
<1>2. CASE Undo(r) \/ Insert(r) \/ InsertFails(r)
  <2>1. Settled /\ st' = st
    BY <1>2 DEF Undo, Insert, InsertFails, Latest, tasks
  <2> QED BY <1>1, <2>1 DEF Settled, Running
<1>3. CASE JoinErr(r)
  <2>1. \A t \in Tasks : Running(t) => t \in NotYetJoined(r)
    BY <1>3, JoinedSettles DEF JoinErr
  <2>2. Settled'
    BY <1>3, <2>1 DEF JoinErr, Aborted, Settled, Running
  <2> QED BY <1>1, <2>2
<1>4. CASE (ReadHead(r) \/ JoinOk(r)) /\ pc'[r] # "join"
  <2>1. Settled
    <3>1. CASE ReadHead(r)
      <4>1. pc[r] = "head" /\ gen[r] = 0
        BY <1>4, <3>1 DEF ReadHead, Ledger, Handles, TypeInv, TypeOK
      <4> QED BY <4>1 DEF Latest
    <3>2. CASE JoinOk(r)
      <4>1. pc[r] = "join" /\ st[Awaited(r)] = "ok" /\ Len(got[r]) + 1 = NParts(Declared, plan[gen[r]])
        BY <1>4, <3>2 DEF JoinOk, TypeInv, TypeOK
      <4> QED BY <4>1, JoinedSettles
    <3> QED BY <1>4, <3>1, <3>2
  <2>2. st' = st
    BY <1>4 DEF ReadHead, JoinOk, tasks
  <2> QED BY <1>1, <2>1, <2>2 DEF Settled, Running
<1>5. CASE (ReadHead(r) \/ JoinOk(r)) /\ pc'[r] = "join"
  <2>1. gen[r] # 0 /\ pc[r] \in {"head", "join"} /\ st' = st
    BY <1>5 DEF ReadHead, JoinOk, Ledger, Handles, tasks, TypeInv, TypeOK
  <2>2. \A q \in Reqs \ {r} : ~Completing(q)
    BY <1>0 DEF SingleCompletion
  <2>3. \A q \in Reqs : pc'[q] \notin {"plan", "insert", "undo", "stored", "head"}
    BY <1>0, <1>5, <2>2 DEF Completing, CompletePCs
  <2> QED BY <1>0, <1>5, <2>1, <2>3 DEF Latest, Running
<1> QED BY <1>2, <1>3, <1>4, <1>5

LEMMA LatestStarts ==
  ASSUME TypeInv, SingleCompletion, Ledger, Latest,
         InitSession \/ InitDropped \/ \E r \in Reqs : Gate(r) \/ Fallback(r)
  PROVE  Latest'
<1>1. CASE InitSession \/ InitDropped
  <2>1. /\ phase = "creating" /\ spawned = 0 /\ \A r \in Reqs : pc[r] = "idle"
        /\ pc' = pc /\ gen' = gen /\ (phase' = "live" => handles') /\ spawned' = 1
    BY <1>1 DEF InitSession, InitDropped, Ledger, Handles, locals, FanOut
  <2>2. \A r \in Reqs : gen[r] = 0
    BY <2>1 DEF Ledger, Handles, Completing, CompletePCs
  <2>3. \A t \in Tasks : st[t] = "none"
    BY <2>1 DEF Ledger, Plans, Tasks, Gens
  <2>4. \A t \in Tasks : Running(t)' => t[1] = 1
    <3>1. PICK s \in Splits : FanOut(1, PartSize(Declared, s), "wait")
      BY <1>1 DEF InitSession, InitDropped
    <3> QED BY <2>3, <3>1 DEF FanOut, Running
  <2> QED BY <2>1, <2>2, <2>4 DEF Latest
<1>2. ASSUME NEW r \in Reqs, Gate(r)
      PROVE  Latest'
  <2>1. /\ phase = "live" /\ ~inFlight /\ phase' = phase /\ ~handles'
        /\ gen'[r] = (IF handles THEN 1 ELSE 0) /\ pc'[r] = "head"
        /\ \A q \in Reqs \ {r} : gen'[q] = gen[q] /\ pc'[q] = pc[q]
        /\ spawned' = spawned /\ st' = st
    BY <1>2 DEF Gate, GateOpen, tasks, TypeInv, TypeOK
  <2>2. \A q \in Reqs : ~Completing(q)
    BY <2>1 DEF SingleCompletion
  <2>3. Settled' <=> Settled
    BY <2>1 DEF Settled, Running
  <2>4. \A q \in Reqs \ {r} : pc'[q] \notin CompletePCs /\ gen'[q] = 0
    BY <2>1, <2>2 DEF Completing, Ledger, Handles
  <2>5. handles \/ Settled
    BY <2>1, <2>2 DEF Latest, Completing, CompletePCs
  <2>6. handles => spawned = 1
    BY DEF Ledger, Handles
  <2>7. \A t \in Tasks : Running(t)' => t[1] = spawned'
    BY <2>1 DEF Latest, Running
  <2> QED BY <2>1, <2>3, <2>4, <2>5, <2>6, <2>7 DEF Latest, CompletePCs
<1>3. ASSUME NEW r \in Reqs, Fallback(r)
      PROVE  Latest'
  <2>1. /\ Settled /\ Completing(r)
        /\ spawned' = spawned + 1 /\ gen'[r] = spawned + 1 /\ pc'[r] = "join"
        /\ \A q \in Reqs \ {r} : gen'[q] = gen[q] /\ pc'[q] = pc[q]
        /\ spawned + 1 # 0
    BY <1>3 DEF Fallback, FanOut, Latest, Completing, CompletePCs, TypeInv, TypeOK
  <2>2. \A q \in Reqs \ {r} : pc'[q] \notin CompletePCs /\ gen'[q] = 0
    BY <2>1 DEF SingleCompletion, Completing, Ledger, Handles
  <2>3. \A t \in Tasks : Running(t)' => t[1] = spawned + 1
    <3>1. PICK s \in Splits : FanOut(spawned + 1, PartSize(Declared, s), "ready")
      BY <1>3 DEF Fallback
    <3> QED BY <2>1, <3>1 DEF FanOut, Running, Settled
  <2> QED BY <2>1, <2>2, <2>3 DEF Latest, CompletePCs
<1> QED BY <1>1, <1>2, <1>3

LEMMA LatestStep ==
  ASSUME "disconnect" \notin Faults, "disk" \notin Faults
  PROVE  TypeInv /\ SingleCompletion /\ Ledger /\ FileKept /\ Latest /\ [Next]_vars
           => Latest'
<1> SUFFICES ASSUME TypeInv, SingleCompletion, Ledger, FileKept, Latest, [Next]_vars
             PROVE  Latest'
  OBVIOUS
<1>1. CASE LatestSteady
  BY <1>1, LatestSteadyKeeps
<1>2. \A r \in Reqs : ~Disconnect(r)
  BY DEF Disconnect
<1> QED BY <1>1, <1>2, LatestWorld, LatestHandler, LatestComplete, LatestStarts
        DEF Next, HandlerStep

\* complete() and the tasks it starts: a retried complete() that fans the parts out
\* again has stopped, or waited for, everything the one before it left running, as
\* long as no handler is dropped and the spill file can be opened. Either fault
\* detaches running tasks from a session that lives on.
THEOREM NoTwoFanOuts ==
  ASSUME "disconnect" \notin Faults, "disk" \notin Faults
  PROVE  Spec => []OneFanOutRunning
<1>1. Init => FileKept /\ Latest
  BY DEF Init, FileKept, Latest, Settled, Running
<1>2. Latest => OneFanOutRunning
  BY DEF Latest, OneFanOutRunning
<1>3. TypeInv /\ Ledger /\ FileKept /\ [Next]_vars => FileKept'
  BY FileKeptStep
<1>4. TypeInv /\ SingleCompletion /\ Ledger /\ FileKept /\ Latest /\ [Next]_vars
        => Latest'
  BY LatestStep
<1> QED BY TypeInit, TypeStep, GateInit, GateStep, LedgerInit, LedgerStep,
           <1>1, <1>2, <1>3, <1>4, PTL DEF Spec

-----------------------------------------------------------------------------
(* The spill file and the parts that are read from it                      *)

ChunkRunning(r) == pc[r] \in ChunkPCs

\* The spill file is a beginning of the client's file; it ends at received, or at
\* the end of the one chunk that is being written.
Prefix ==
  /\ \A k \in 1..Len(file) : file[k] = k
  /\ received <= Len(file) /\ Len(file) <= Declared
  /\ \A q, r \in Reqs : ChunkRunning(q) /\ ChunkRunning(r) => q = r
  /\ \A r \in Reqs :
       /\ ChunkRunning(r) => span[r].off = received
       /\ pc[r] = "append" => Len(file) = received
       /\ pc[r] = "ack" => Len(file) = received + span[r].len
       /\ Completing(r) => received = Declared
  /\ phase # "gone" /\ (\A r \in Reqs : ~ChunkRunning(r)) => Len(file) = received
  /\ phase \in {"new", "creating"} => received = 0

\* A part is read after all of it was received, and what was read is the part.
Reads ==
  /\ \A t \in Tasks : st[t] \in {"ready", "sending", "sent", "ok"} =>
       received >= PartEnd(Declared, plan[t[1]], t[2])
  /\ \A t \in Tasks : st[t] \in {"sending", "sent", "ok"} =>
       data[t] = Slice(plan[t[1]], t[2])

\* The environment of the theorems below: calls to Telegram may fail and the process
\* may stop, but requests are neither dropped nor doubled and the disk works.
NoTornChunks == Faults \subseteq {"rpc", "crash"}

\* A step that leaves the spill file alone and moves no chunk handler.
FileQuiet ==
  /\ UNCHANGED <<received, file>>
  /\ phase' = phase \/ phase' = "gone" \/ (phase = "new" /\ phase' = "creating")
       \/ (phase = "creating" /\ phase' = "live")
  /\ \A r \in Reqs :
       /\ (ChunkRunning(r))' => pc'[r] = pc[r] /\ span'[r] = span[r]
       /\ ChunkRunning(r) /\ phase' # "gone" => pc'[r] = pc[r]
       /\ (Completing(r))' => Completing(r) \/ received = Declared

LEMMA FileQuietKeeps == TypeInv /\ Prefix /\ FileQuiet => Prefix'
<1> SUFFICES ASSUME TypeInv, Prefix, FileQuiet PROVE Prefix'
  OBVIOUS
<1> USE DEF FileQuiet, ChunkRunning, ChunkPCs
<1>1. /\ \A k \in 1..Len(file') : file'[k] = k
      /\ received' <= Len(file') /\ Len(file') <= Declared
      /\ \A q, r \in Reqs : (ChunkRunning(q))' /\ (ChunkRunning(r))' => q = r
  BY DEF Prefix
<1>2. \A r \in Reqs :
       /\ (ChunkRunning(r))' => span'[r].off = received'
       /\ pc'[r] = "append" => Len(file') = received'
       /\ pc'[r] = "ack" => Len(file') = received' + span'[r].len
       /\ (Completing(r))' => received' = Declared
  BY DEF Prefix
<1>3. phase' # "gone" /\ (\A r \in Reqs : ~(ChunkRunning(r))') => Len(file') = received'
  <2> SUFFICES ASSUME phase' # "gone", \A r \in Reqs : ~(ChunkRunning(r))'
               PROVE  Len(file) = received
    OBVIOUS
  <2>1. \A r \in Reqs : ~ChunkRunning(r)
    OBVIOUS
  <2>2. phase # "gone"
    BY DEF TypeInv, TypeOK
  <2> QED BY <2>1, <2>2 DEF Prefix
<1>4. phase' \in {"new", "creating"} => received' = 0
  BY DEF Prefix
<1> QED BY <1>1, <1>2, <1>3, <1>4 DEF Prefix

LEMMA FileQuietWorld ==
  ASSUME TypeInv, Ledger,
         InitFile \/ InitSession \/ InitFails \/ InitDropped \/ Touch \/ Age
           \/ Sweep \/ Reap \/ Crash \/ UNCHANGED vars
           \/ \E t \in Tasks : TaskStep(t)
  PROVE  FileQuiet
<1> USE DEF FileQuiet, ChunkRunning, ChunkPCs, Completing, CompletePCs, session, spill, locals
<1>1. CASE InitFile \/ InitSession \/ InitFails \/ InitDropped \/ Touch \/ Age \/ Reap
             \/ UNCHANGED vars
  BY <1>1 DEF InitFile, InitSession, InitFails, InitDropped, Touch, Age, Reap, vars
<1>2. CASE Sweep
  BY <1>2 DEF Sweep, RemoveSession
<1>3. CASE Crash
  BY <1>3 DEF Crash
<1>4. CASE \E t \in Tasks : TaskStep(t)
  BY <1>4, TaskMoves DEF OnlyTheTask
<1> QED BY <1>1, <1>2, <1>3, <1>4

LEMMA FileQuietHandler ==
  ASSUME TypeInv, Ledger, NEW r \in Reqs,
         \/ AbortBegin(r) \/ Gate(r) \/ AbortRemove(r) \/ AbortUnlink(r)
         \/ ReadHead(r) \/ HeadFails(r) \/ Fallback(r) \/ FallbackFails(r)
         \/ JoinOk(r) \/ JoinErr(r) \/ Undo(r) \/ UndoDone(r)
         \/ Insert(r) \/ InsertFails(r) \/ Retire(r)
  PROVE  FileQuiet
<1> USE DEF FileQuiet, ChunkRunning, ChunkPCs, Completing, CompletePCs, session, spill,
            locals, TypeInv, TypeOK
<1>1. CASE AbortBegin(r) \/ Gate(r)
  BY <1>1 DEF AbortBegin, Gate
<1>2. CASE AbortRemove(r) \/ AbortUnlink(r)
  BY <1>2 DEF AbortRemove, RemoveSession, AbortUnlink, Return
<1>3. CASE ReadHead(r) \/ Fallback(r) \/ JoinErr(r) \/ Undo(r) \/ Insert(r) \/ InsertFails(r)
  BY <1>3 DEF ReadHead, Fallback, JoinErr, Undo, Insert, InsertFails
<1>4. CASE JoinOk(r)
  BY <1>4 DEF JoinOk
<1>5. CASE HeadFails(r) \/ FallbackFails(r) \/ UndoDone(r) \/ Retire(r)
  BY <1>5 DEF HeadFails, FallbackFails, UndoDone, Retire, Leave, Return
<1> QED BY <1>1, <1>2, <1>3, <1>4, <1>5

\* A chunk is admitted at the end of the file, and alone: another one in flight would
\* be at the same offset, which a well-behaved client does not send.
LEMMA PrefixBegin ==
  ASSUME NoTornChunks, TypeInv, Prefix, NEW r \in Reqs, ChunkBegin(r)
  PROVE  Prefix'
<1>1. PICK len \in 1..MaxChunk :
        /\ span' = [span EXCEPT ![r] = [off |-> received, len |-> len]]
        /\ received + len <= Declared
        /\ ClientMayPut(received)
  BY DEF ChunkBegin, ChunkAllowed
<1>2. \A q \in Reqs : ~ChunkRunning(q)
  BY <1>1 DEF ClientMayPut, NoTornChunks, ChunkRunning, Prefix
<1>3. /\ phase = "live" /\ phase' = phase /\ received' = received /\ file' = file
      /\ pc[r] = "idle" /\ pc'[r] = "append" /\ span'[r].off = received
      /\ \A q \in Reqs \ {r} : pc'[q] = pc[q] /\ span'[q] = span[q]
  BY <1>1 DEF ChunkBegin, spill, TypeInv, TypeOK
<1>4. Len(file) = received
  BY <1>2, <1>3 DEF Prefix
<1>5. \A q \in Reqs \ {r} : ~(ChunkRunning(q))' /\ ((Completing(q))' <=> Completing(q))
  BY <1>2, <1>3 DEF ChunkRunning, Completing
<1>6. (ChunkRunning(r))' /\ ~(Completing(r))'
  BY <1>3 DEF ChunkRunning, ChunkPCs, Completing, CompletePCs
<1> QED BY <1>3, <1>4, <1>5, <1>6 DEF Prefix, ChunkRunning, ChunkPCs

LEMMA PrefixAppend ==
  ASSUME TypeInv, Prefix, NEW r \in Reqs, ChunkAppend(r)
  PROVE  Prefix'
<1>1. /\ pc[r] = "append" /\ ChunkRunning(r)
      /\ file' = file \o Body(r, span[r].len)
      /\ pc' = [pc EXCEPT ![r] = "ack"]
      /\ UNCHANGED <<phase, received, span>>
  BY DEF ChunkAppend, ChunkRunning, ChunkPCs, locals
<1>2. /\ span[r].off = received /\ Len(file) = received
      /\ span[r].len \in Nat /\ received \in Nat /\ received + span[r].len <= Declared
  BY <1>1 DEF Prefix, TypeInv, TypeOK, SpansFit
<1>3. /\ Len(file') = received + span[r].len
      /\ \A k \in 1..Len(file') : file'[k] = k
  <2>1. file \in Seq(0..Declared)
    BY DEF TypeInv, TypeOK
  <2>2. Body(r, span[r].len) \in Seq(0..Declared)
    <3>1. span[r].len \in 0..span[r].len
      BY <1>2
    <3> QED BY <3>1, BodyTyped
  <2>3. /\ Len(Body(r, span[r].len)) = span[r].len
        /\ \A k \in 1..span[r].len : Body(r, span[r].len)[k] = received + k
    BY <1>2 DEF Body
  <2>a. Len(file \o Body(r, span[r].len)) = Len(file) + Len(Body(r, span[r].len))
    BY <2>1, <2>2, ConcatProperties
  <2>4. Len(file') = received + span[r].len
    BY <1>1, <1>2, <2>a, <2>3
  <2>5. \A k \in 1..(received + span[r].len) :
          file'[k] = IF k <= received THEN file[k] ELSE Body(r, span[r].len)[k - received]
    BY <1>1, <1>2, <2>1, <2>2, <2>3
  <2>6. ASSUME NEW k \in 1..(received + span[r].len)
        PROVE  file'[k] = k
    <3>1. CASE k <= received
      <4>1. k \in 1..Len(file)
        BY <1>2, <3>1
      <4> QED BY <2>5, <3>1, <4>1 DEF Prefix
    <3>2. CASE ~(k <= received)
      <4>1. k - received \in 1..span[r].len /\ received + (k - received) = k
        BY <1>2, <3>2
      <4>2. Body(r, span[r].len)[k - received] = received + (k - received)
        BY <2>3, <4>1
      <4> QED BY <2>5, <3>2, <4>1, <4>2
    <3> QED BY <3>1, <3>2
  <2> QED BY <2>4, <2>6
<1>4. \A q \in Reqs : /\ (ChunkRunning(q))' <=> ChunkRunning(q)
                      /\ (Completing(q))' <=> Completing(q)
                      /\ q # r => pc'[q] = pc[q]
  BY <1>1 DEF ChunkRunning, ChunkPCs, Completing, CompletePCs, TypeInv, TypeOK
<1>5. \A q \in Reqs : q # r => ~ChunkRunning(q)
  BY <1>1 DEF Prefix
<1>6. pc'[r] = "ack"
  BY <1>1 DEF TypeInv, TypeOK
<1>7. phase \notin {"new", "creating"} \/ received = 0
  BY DEF Prefix
<1>8. \A q \in Reqs : pc'[q] # "append"
  BY <1>4, <1>5, <1>6 DEF ChunkRunning, ChunkPCs
<1>9. \A q \in Reqs : pc'[q] = "ack" => q = r
  BY <1>4, <1>5 DEF ChunkRunning, ChunkPCs
<1> QED BY <1>1, <1>2, <1>3, <1>4, <1>5, <1>6, <1>7, <1>8, <1>9 DEF Prefix

\* The append is acknowledged, or the buffer is gone with its session.
LEMMA PrefixEnds ==
  ASSUME NoTornChunks, TypeInv, Ledger, FileKept, Prefix, NEW r \in Reqs,
         ChunkAck(r) \/ ChunkOpenFails(r)
  PROVE  Prefix'
<1>1. /\ ChunkRunning(r) /\ Return(r) /\ UNCHANGED <<phase, file>>
      /\ phase \notin {"new", "creating"}
  BY DEF ChunkAck, ChunkOpenFails, ChunkRunning, ChunkPCs, session, spill, Ledger, Handles
<1>2. /\ pc'[r] = "idle" /\ \A q \in Reqs \ {r} : pc'[q] = pc[q] /\ span'[q] = span[q]
  BY <1>1 DEF Return, TypeInv, TypeOK
<1>3. \A q \in Reqs : ~(ChunkRunning(q))'
  BY <1>1, <1>2 DEF Prefix, ChunkRunning, ChunkPCs
<1>4. \A q \in Reqs : (Completing(q))' => Completing(q)
  BY <1>2 DEF Completing, CompletePCs
<1>5. /\ received \in Nat /\ received' \in Nat /\ received' <= Declared
      /\ Len(file) \in Nat /\ received <= Len(file) /\ Len(file) <= Declared
  BY <1>1, TypeChunk, SizeAssumption DEF TypeInv, TypeOK, Prefix
<1>6. /\ received <= received' /\ received' <= Len(file)
      /\ phase = "live" => received' = Len(file)
  <2>1. CASE ChunkAck(r)
    <3>1. Len(file) = received + span[r].len /\ span[r].off = received /\ span[r].len \in Nat
      BY <2>1, <1>1 DEF ChunkAck, Prefix, TypeInv, TypeOK
    <3>2. received' = IF phase = "live" THEN received + span[r].len ELSE received
      BY <2>1, <3>1 DEF ChunkAck
    <3> QED BY <1>5, <3>1, <3>2
  <2>2. CASE ChunkOpenFails(r)
    <3>1. ~onDisk /\ received' = received
      BY <2>2 DEF ChunkOpenFails, NoTornChunks, session
    <3>2. phase # "live"
      BY <3>1 DEF FileKept
    <3> QED BY <1>5, <3>1, <3>2
  <2> QED BY <2>1, <2>2
<1>7. \A q \in Reqs : (Completing(q))' => received' = Declared
  BY <1>4, <1>5, <1>6, SizeAssumption DEF Prefix
<1>8. phase \in {"live", "gone"}
  BY <1>1 DEF TypeInv, TypeOK
<1>9. \A k \in 1..Len(file') : file'[k] = k
  BY <1>1 DEF Prefix
<1>10. \A q \in Reqs : pc'[q] \notin {"append", "ack"}
  BY <1>3 DEF ChunkRunning, ChunkPCs
<1> QED BY <1>1, <1>3, <1>5, <1>6, <1>7, <1>8, <1>9, <1>10 DEF Prefix

LEMMA PrefixStep ==
  ASSUME NoTornChunks
  PROVE  TypeInv /\ Ledger /\ FileKept /\ Prefix /\ [Next]_vars => Prefix'
<1> SUFFICES ASSUME TypeInv, Ledger, FileKept, Prefix, [Next]_vars
             PROVE  Prefix'
  OBVIOUS
<1>1. CASE FileQuiet
  BY <1>1, FileQuietKeeps
<1>2. \A r \in Reqs : ~Disconnect(r) /\ ~ChunkTorn(r)
  BY DEF Disconnect, ChunkTorn, NoTornChunks
<1> QED BY <1>1, <1>2, FileQuietWorld, FileQuietHandler, PrefixBegin, PrefixAppend,
           PrefixEnds DEF Next, HandlerStep

\* What the end of a chunk() promises: between chunks of a live session the spill
\* file is byte for byte what was acknowledged. It needs a client that does not
\* double its PUTs, requests that are not dropped, and a disk that works, and it
\* survives failing calls to Telegram and a restart.
THEOREM SpillIsAcknowledged ==
  ASSUME NoTornChunks
  PROVE  Spec => []SpillMatches
<1>0. "disconnect" \notin Faults
  BY DEF NoTornChunks
<1>1. Init => FileKept /\ Prefix
  BY SizeAssumption DEF Init, FileKept, Prefix, ChunkRunning, ChunkPCs, Completing,
     CompletePCs
<1>2. TypeInv /\ FileKept /\ Prefix => SpillMatches
  <2> SUFFICES ASSUME TypeInv, FileKept, Prefix, phase = "live",
                      \A r \in Reqs : pc[r] \notin ChunkPCs
               PROVE  file = SubSeq(Original, 1, received)
    BY DEF SpillMatches, FileKept
  <2>1. Len(file) = received /\ received \in 0..Declared /\ file \in Seq(0..Declared)
    BY DEF Prefix, ChunkRunning, TypeInv, TypeOK
  <2>2. /\ SubSeq(Original, 1, received) \in Seq(0..Declared)
        /\ Len(SubSeq(Original, 1, received)) = received
        /\ \A k \in 1..received : SubSeq(Original, 1, received)[k] = k
    <3>1. \A k \in 1..received : Original[k] \in 0..Declared /\ Original[k] = k
      BY <2>1, SizeAssumption DEF Original
    <3>2. received \in Int /\ 1 \in Int
      BY <2>1
    <3>3. /\ SubSeq(Original, 1, received) \in Seq(0..Declared)
          /\ Len(SubSeq(Original, 1, received)) = IF 1 <= received THEN received - 1 + 1 ELSE 0
          /\ \A i \in 1..(received - 1 + 1) : SubSeq(Original, 1, received)[i] = Original[1 + i - 1]
      BY <3>1, <3>2, SubSeqProperties
    <3> QED BY <2>1, <3>1, <3>3
  <2>3. \A k \in 1..received : file[k] = k
    BY <2>1 DEF Prefix
  <2>4. \A k \in 1..Len(file) : file[k] = SubSeq(Original, 1, received)[k]
    BY <2>1, <2>2, <2>3
  <2> QED BY <2>1, <2>2, <2>4, SeqEqual
<1>3. TypeInv /\ Ledger /\ FileKept /\ [Next]_vars => FileKept'
  BY <1>0, FileKeptStep
<1>4. TypeInv /\ Ledger /\ FileKept /\ Prefix /\ [Next]_vars => Prefix'
  BY PrefixStep
<1> QED BY TypeInit, TypeStep, GateInit, GateStep, LedgerInit, LedgerStep,
           <1>1, <1>2, <1>3, <1>4, PTL DEF Spec

\* What a task reads when the file reaches the end of its part is the part.
LEMMA PartIsSlice ==
  ASSUME TypeInv, Ledger, Prefix, NEW t \in Tasks, st[t] # "none",
         received >= PartEnd(Declared, plan[t[1]], t[2])
  PROVE  PartOnDisk(t) = Slice(plan[t[1]], t[2])
<1> DEFINE size  == plan[t[1]]
           start == PartStart(size, t[2])
           len   == Expected(Declared, size, t[2])
           end   == start + len
           last  == IF end < Len(file) THEN end ELSE Len(file)
<1>1. size \in Nat \ {0} /\ t[2] \in 0..(NParts(Declared, size) - 1)
  <2>1. t[1] \in Gens /\ t[2] \in Nat /\ size \in Nat \ {0}
    BY DEF Tasks, Parts, TypeInv, TypeOK
  <2>2. t[1] <= spawned /\ t[2] < NParts(Declared, size)
    BY DEF Ledger, Plans
  <2>3. NParts(Declared, size) \in Nat
    BY <2>1, PlanCount, SizeAssumption
  <2> QED BY <2>1, <2>2, <2>3
<1>2. /\ end = PartEnd(Declared, size, t[2])
      /\ len \in 1..size
  BY <1>1, PlanPart, SizeAssumption
<1>3. start \in Nat
  BY <1>1, Successor DEF PartStart
<1>4. received \in Nat /\ received <= Len(file) /\ Len(file) \in Nat /\ Len(file) <= Declared
  BY DEF Prefix, TypeInv, TypeOK
<1>5. PartOnDisk(t) = SubSeq(file, start + 1, last)
  BY DEF PartOnDisk
<1>6. Slice(plan[t[1]], t[2]) = [k \in 1..len |-> start + k]
  BY DEF Slice
<1>7. received >= end
  BY <1>2
<1> HIDE DEF size, start, len
<1>8. last = end
  BY <1>1, <1>2, <1>3, <1>4, <1>7
<1> HIDE DEF last
<1>9. end \in Nat /\ end <= Len(file) /\ end - (start + 1) + 1 = len /\ start + 1 <= end /\ len \in Nat
  BY <1>1, <1>2, <1>3, <1>4, <1>7
<1> DEFINE m == start + 1
<1>10. m \in Int /\ end \in Int /\ \A k \in m..end : file[k] = k /\ file[k] \in 0..Declared
  <2>1. \A k \in m..end : k \in 1..Len(file) /\ k \in 0..Declared
    BY <1>3, <1>4, <1>9, SizeAssumption
  <2> QED BY <1>3, <1>9, <2>1 DEF Prefix
<1>11. m <= end /\ end - m + 1 = len
  BY <1>9
<1>12. \A k \in 1..len : m + k - 1 = start + k /\ m + k - 1 \in m..end
  BY <1>3, <1>9
<1> HIDE DEF end, m
<1>13. /\ SubSeq(file, m, end) \in Seq(0..Declared)
       /\ Len(SubSeq(file, m, end)) = IF m <= end THEN end - m + 1 ELSE 0
       /\ \A i \in 1..(end - m + 1) : SubSeq(file, m, end)[i] = file[m + i - 1]
  BY <1>10, SubSeqProperties
<1>14. Len(SubSeq(file, m, end)) = len
  BY <1>11, <1>13
<1>15. \A k \in 1..len : SubSeq(file, m, end)[k] = start + k
  BY <1>10, <1>11, <1>12, <1>13
<1>16. SubSeq(file, m, end) = [k \in 1..Len(SubSeq(file, m, end)) |-> SubSeq(file, m, end)[k]]
  <2>1. SubSeq(file, m, end) \in [1..Len(SubSeq(file, m, end)) -> 0..Declared]
    BY <1>13, LenProperties
  <2> QED BY <2>1, Zenon
<1>17. SubSeq(file, m, end) = [k \in 1..len |-> start + k]
  BY <1>14, <1>15, <1>16
<1>18. PartOnDisk(t) = SubSeq(file, m, end)
  BY <1>5, <1>8 DEF m
<1> QED BY <1>6, <1>17, <1>18

\* The number of acknowledged bytes never falls.
LEMMA Growing ==
  ASSUME NoTornChunks, TypeInv, Prefix, Next
  PROVE  received' \in Nat /\ received <= received'
<1>1. received \in Nat
  BY DEF TypeInv, TypeOK
<1>2. \A r \in Reqs : ~Disconnect(r) /\ ~ChunkTorn(r)
  BY DEF Disconnect, ChunkTorn, NoTornChunks
<1>3. ASSUME NEW r \in Reqs, ChunkAck(r)
      PROVE  received' \in Nat /\ received <= received'
  <2>1. span[r].off = received /\ span[r].len \in Nat
    BY <1>3 DEF ChunkAck, Prefix, ChunkRunning, ChunkPCs, TypeInv, TypeOK
  <2> QED BY <1>1, <1>3, <2>1 DEF ChunkAck
<1>4. CASE InitFile \/ InitSession \/ InitFails \/ InitDropped
             \/ Touch \/ Age \/ Sweep \/ Reap \/ Crash
  <2>1. received' = received
    BY <1>4 DEF InitFile, InitSession, InitFails, InitDropped, Touch, Age, Sweep,
            RemoveSession, Reap, Crash, session
  <2> QED BY <1>1, <2>1
<1>5. ASSUME NEW r \in Reqs,
             \/ ChunkBegin(r) \/ AbortBegin(r) \/ Gate(r) \/ ChunkAppend(r)
             \/ ChunkOpenFails(r) \/ AbortRemove(r) \/ AbortUnlink(r)
      PROVE  received' \in Nat /\ received <= received'
  <2>1. received' = received
    BY <1>5 DEF ChunkBegin, AbortBegin, Gate, ChunkAppend, ChunkOpenFails, AbortRemove,
            RemoveSession, AbortUnlink, session
  <2> QED BY <1>1, <2>1
<1>6. ASSUME NEW r \in Reqs,
             \/ ReadHead(r) \/ HeadFails(r) \/ Fallback(r) \/ FallbackFails(r)
             \/ JoinOk(r) \/ JoinErr(r) \/ Undo(r) \/ UndoDone(r)
             \/ Insert(r) \/ InsertFails(r) \/ Retire(r)
      PROVE  received' \in Nat /\ received <= received'
  <2>1. received' = received
    BY <1>6 DEF ReadHead, HeadFails, Fallback, FallbackFails, JoinOk, JoinErr, Undo,
            UndoDone, Insert, InsertFails, Retire, session
  <2> QED BY <1>1, <2>1
<1>7. ASSUME NEW t \in Tasks, TaskStep(t)
      PROVE  received' \in Nat /\ received <= received'
  <2>1. received' = received
    BY <1>7 DEF TaskStep, Wake, ChannelClosed, ReadPart, ReadFails, Post, Answered,
            UploadFails, UploadHangs, OnlyTheTask, session
  <2> QED BY <1>1, <2>1
<1> QED BY <1>2, <1>3, <1>4, <1>5, <1>6, <1>7 DEF Next, HandlerStep

\* A plan that tasks were started from is never changed again.
LEMMA PlansStay ==
  ASSUME TypeInv, Ledger, Next
  PROVE  \A g \in Gens : g <= spawned => plan'[g] = plan[g]
<1>1. CASE InitSession \/ InitDropped \/ \E r \in Reqs : Fallback(r)
  <2>1. PICK g \in {1, spawned + 1}, s \in Splits, first \in {"wait", "ready"} :
          FanOut(g, PartSize(Declared, s), first) /\ g = spawned + 1
    BY <1>1 DEF InitSession, InitDropped, Fallback, Ledger, Handles
  <2> QED BY <2>1 DEF FanOut, Gens, TypeInv, TypeOK
<1>2. CASE InitFile \/ InitFails \/ Touch \/ Age \/ Sweep \/ Reap \/ Crash
  BY <1>2 DEF InitFile, InitFails, Touch, Age, Sweep, RemoveSession, Reap, Crash, tasks
<1>3. ASSUME NEW r \in Reqs,
             \/ ChunkBegin(r) \/ AbortBegin(r) \/ Gate(r) \/ ChunkAppend(r)
             \/ ChunkOpenFails(r) \/ ChunkTorn(r) \/ ChunkAck(r) \/ AbortRemove(r)
             \/ AbortUnlink(r) \/ Disconnect(r)
      PROVE  plan' = plan
  BY <1>3 DEF ChunkBegin, AbortBegin, Gate, ChunkAppend, ChunkOpenFails, ChunkTorn,
          ChunkAck, AbortRemove, RemoveSession, AbortUnlink, Disconnect, tasks
<1>4. ASSUME NEW r \in Reqs,
             \/ ReadHead(r) \/ HeadFails(r) \/ FallbackFails(r)
             \/ JoinOk(r) \/ JoinErr(r) \/ Undo(r) \/ UndoDone(r)
             \/ Insert(r) \/ InsertFails(r) \/ Retire(r)
      PROVE  plan' = plan
  BY <1>4 DEF ReadHead, HeadFails, FallbackFails, JoinOk, JoinErr, Undo,
          UndoDone, Insert, InsertFails, Retire, tasks
<1>5. ASSUME NEW t \in Tasks, TaskStep(t)
      PROVE  plan' = plan
  BY <1>5 DEF TaskStep, Wake, ChannelClosed, ReadPart, ReadFails, Post, Answered,
          UploadFails, UploadHangs, OnlyTheTask
<1> QED BY <1>1, <1>2, <1>3, <1>4, <1>5 DEF Next, HandlerStep

\* A task that a step leaves where it was keeps what it read.
ReadsQuiet ==
  \A t \in Tasks :
    st'[t] \in {"ready", "sending", "sent", "ok"} => st'[t] = st[t] /\ data'[t] = data[t]

LEMMA ReadsQuietKeeps ==
  ASSUME NoTornChunks, TypeInv, Ledger, Prefix, Reads, Next, ReadsQuiet
  PROVE  Reads'
<1> SUFFICES ASSUME NEW t \in Tasks, st'[t] \in {"ready", "sending", "sent", "ok"}
             PROVE  /\ received' >= PartEnd(Declared, plan'[t[1]], t[2])
                    /\ st'[t] \in {"sending", "sent", "ok"} => data'[t] = Slice(plan'[t[1]], t[2])
  BY DEF Reads
<1>1. st'[t] = st[t] /\ data'[t] = data[t]
  BY DEF ReadsQuiet
<1>2. t[1] \in Gens /\ t[1] <= spawned /\ t[2] \in Nat
  BY <1>1 DEF Ledger, Plans, Tasks, Parts
<1>3. plan'[t[1]] = plan[t[1]] /\ plan[t[1]] \in Nat
  BY <1>2, PlansStay DEF TypeInv, TypeOK
<1>4. received' \in Nat /\ received <= received' /\ received \in Nat
  BY Growing DEF TypeInv, TypeOK
<1>5. PartEnd(Declared, plan[t[1]], t[2]) \in Nat
  <2>1. (t[2] + 1) * plan[t[1]] \in Nat
    BY <1>2, <1>3, Successor
  <2> QED BY <2>1, SizeAssumption DEF PartEnd
<1>6. received >= PartEnd(Declared, plan[t[1]], t[2])
  BY <1>1 DEF Reads
<1>7. received' >= PartEnd(Declared, plan[t[1]], t[2])
  BY <1>4, <1>5, <1>6
<1> QED BY <1>1, <1>3, <1>7 DEF Reads

LEMMA ReadsTask ==
  ASSUME TypeInv, Ledger, Prefix, Reads, NEW t \in Tasks, TaskStep(t)
  PROVE  Reads'
<1>1. /\ OnlyTheTask
      /\ \E v \in {"ready", "sending", "stuck", "sent", "ok", "err"} : st' = [st EXCEPT ![t] = v]
      /\ \A u \in Tasks \ {t} : try'[u] = try[u] /\ data'[u] = data[u]
      /\ Running(t)
  BY TaskMoves
<1>2. \A u \in Tasks \ {t} : st'[u] = st[u] /\ data'[u] = data[u]
  BY <1>1 DEF TypeInv, TypeOK
<1>3. received' = received /\ plan' = plan
  BY <1>1 DEF OnlyTheTask, session
<1>4. st[t] # "none"
  BY <1>1 DEF Running
<1>5. /\ st'[t] \in {"ready", "sending", "sent", "ok"} => received >= PartEnd(Declared, plan[t[1]], t[2])
      /\ st'[t] \in {"sending", "sent", "ok"} => data'[t] = Slice(plan[t[1]], t[2])
  <2> USE DEF TypeInv, TypeOK
  <2>1. CASE Wake(t)
    BY <2>1 DEF Wake, PartArrived
  <2>2. CASE ChannelClosed(t) \/ ReadFails(t)
    BY <2>2 DEF ChannelClosed, ReadFails
  <2>3. CASE ReadPart(t)
    <3>1. received >= PartEnd(Declared, plan[t[1]], t[2])
      BY <2>3 DEF ReadPart, Reads
    <3>2. data'[t] = PartOnDisk(t)
      BY <2>3 DEF ReadPart, Ledger, Locals
    <3> QED BY <1>4, <3>1, <3>2, PartIsSlice
  <2>4. CASE Post(t) \/ Answered(t)
    BY <2>4 DEF Post, Answered, Reads
  <2>5. CASE UploadFails(t) \/ UploadHangs(t)
    BY <2>5 DEF UploadFails, UploadHangs, Reads
  <2> QED BY <2>1, <2>2, <2>3, <2>4, <2>5 DEF TaskStep
<1> QED BY <1>2, <1>3, <1>5 DEF Reads

\* A retried complete() starts tasks that need not wait: everything has arrived.
LEMMA ReadsFallback ==
  ASSUME TypeInv, Ledger, Prefix, Reads, NEW r \in Reqs, Fallback(r)
  PROVE  Reads'
<1>1. PICK s \in Splits : /\ Fits(Declared, PartSize(Declared, s))
                          /\ FanOut(spawned + 1, PartSize(Declared, s), "ready")
  BY DEF Fallback
<1>2. spawned + 1 \in Gens
  BY BoundsAssumption DEF Fallback, Gens, TypeInv, TypeOK
<1>3. /\ \A u \in Tasks : u[1] # spawned + 1 => st'[u] = st[u]
      /\ \A u \in Tasks : st'[u] \in {"sent", "ok"} => st[u] = st'[u] /\ u[1] # spawned + 1
      /\ \A h \in Gens : h # spawned + 1 => plan'[h] = plan[h]
  BY <1>1, <1>2, LedgerFanOut
<1>4. data' = data /\ received' = received
  BY <1>1 DEF Fallback, FanOut, session
<1>5. received = Declared
  BY DEF Fallback, Prefix, Completing, CompletePCs
<1>6. \A u \in Tasks : u[1] = spawned + 1 => st'[u] \in {"ready", st[u]} /\ st[u] = "none"
  <2>1. \A u \in Tasks : u[1] = spawned + 1 => st[u] = "none"
    BY DEF Ledger, Plans, TypeInv, TypeOK
  <2> QED BY <1>1, <2>1 DEF FanOut
<1>7. plan' \in [Gens -> Nat \ {0}]
  BY TypeComplete DEF TypeInv, TypeOK
<1>8. \A u \in Tasks : received' >= PartEnd(Declared, plan'[u[1]], u[2])
  <2> SUFFICES ASSUME NEW u \in Tasks
               PROVE  Declared >= PartEnd(Declared, plan'[u[1]], u[2])
    BY <1>4, <1>5
  <2>1. (u[2] + 1) * plan'[u[1]] \in Nat
    BY <1>7, Successor DEF Tasks, Parts
  <2> QED BY <2>1, SizeAssumption DEF PartEnd
<1>9. ASSUME NEW u \in Tasks, st'[u] \in {"sending", "sent", "ok"}
      PROVE  data'[u] = Slice(plan'[u[1]], u[2])
  <2>1. u[1] # spawned + 1 /\ st'[u] = st[u] /\ u[1] \in Gens
    BY <1>3, <1>6, <1>9 DEF Tasks
  <2> QED BY <1>3, <1>4, <1>9, <2>1 DEF Reads
<1> QED BY <1>8, <1>9 DEF Reads

LEMMA ReadsStep ==
  ASSUME NoTornChunks
  PROVE  TypeInv /\ Ledger /\ Prefix /\ Reads /\ [Next]_vars => Reads'
<1> SUFFICES ASSUME TypeInv, Ledger, Prefix, Reads, [Next]_vars
             PROVE  Reads'
  OBVIOUS
<1>1. CASE UNCHANGED vars
  BY <1>1 DEF vars, session, tasks, Reads
<1>2. CASE Next /\ ReadsQuiet
  BY <1>2, ReadsQuietKeeps
<1>3. CASE InitSession \/ InitDropped
  <2>1. PICK s \in Splits : FanOut(1, PartSize(Declared, s), "wait")
    BY <1>3 DEF InitSession, InitDropped
  <2>2. ReadsQuiet
    BY <2>1 DEF FanOut, ReadsQuiet
  <2> QED BY <1>2, <1>3, <2>2 DEF Next
<1>4. CASE InitFile \/ InitFails \/ Touch \/ Age \/ Sweep \/ Reap \/ Crash
  <2>1. ReadsQuiet
    BY <1>4 DEF ReadsQuiet, InitFile, InitFails, Touch, Age, Sweep, RemoveSession, Reap,
            Crash, Aborted, tasks
  <2> QED BY <1>2, <1>4, <2>1 DEF Next
<1>5. ASSUME NEW r \in Reqs,
             ChunkBegin(r) \/ AbortBegin(r) \/ Gate(r) \/ Disconnect(r)
               \/ (HandlerStep(r) /\ ~Fallback(r))
      PROVE  Reads'
  <2>1. ReadsQuiet
    <3>1. CASE AbortRemove(r)
      BY <3>1 DEF AbortRemove, RemoveSession, Aborted, ReadsQuiet, tasks
    <3>2. CASE JoinErr(r)
      BY <3>2 DEF JoinErr, Aborted, ReadsQuiet
    <3>3. CASE st' = st /\ data' = data
      BY <3>3 DEF ReadsQuiet
    <3>4. CASE ChunkBegin(r) \/ AbortBegin(r) \/ Gate(r) \/ Disconnect(r)
                 \/ ChunkAppend(r) \/ ChunkOpenFails(r) \/ ChunkTorn(r) \/ ChunkAck(r)
                 \/ AbortUnlink(r)
      BY <3>3, <3>4 DEF ChunkBegin, AbortBegin, Gate, Disconnect, ChunkAppend,
         ChunkOpenFails, ChunkTorn, ChunkAck, AbortUnlink, tasks
    <3>5. CASE ReadHead(r) \/ HeadFails(r) \/ FallbackFails(r) \/ JoinOk(r) \/ Undo(r)
                 \/ UndoDone(r) \/ Insert(r) \/ InsertFails(r) \/ Retire(r)
      BY <3>3, <3>5 DEF ReadHead, HeadFails, FallbackFails, JoinOk, Undo, UndoDone,
         Insert, InsertFails, Retire, tasks
    <3> QED BY <1>5, <3>1, <3>2, <3>4, <3>5 DEF HandlerStep
  <2>2. Next
    BY <1>5 DEF Next
  <2> QED BY <1>2, <2>1, <2>2
<1> QED BY <1>1, <1>3, <1>4, <1>5, ReadsTask, ReadsFallback DEF Next, HandlerStep

LEMMA FaithStep ==
  TypeInv /\ Ledger /\ Reads /\ RowFaithful /\ [Next]_vars => RowFaithful'
<1> SUFFICES ASSUME TypeInv, Ledger, Reads, RowFaithful, [Next]_vars
             PROVE  RowFaithful'
  OBVIOUS
<1>1. CASE UNCHANGED vars
  BY <1>1 DEF vars, tasks, stored, RowFaithful
<1>2. CASE Next /\ rows' = rows
  <2> SUFFICES ASSUME NEW row \in rows, NEW i \in 1..Len(row)
               PROVE  row[i].data = Slice(plan'[row[i].gen], row[i].part)
    BY <1>2 DEF RowFaithful, Slice
  <2>1. PICK g \in Gens : RowOf(row, g)
    BY DEF Ledger, Rows
  <2>2. row[i].gen = g /\ g <= spawned
    BY <2>1 DEF RowOf
  <2>3. plan'[row[i].gen] = plan[row[i].gen]
    BY <1>2, <2>2, PlansStay
  <2> QED BY <2>3 DEF RowFaithful
<1>3. ASSUME NEW r \in Reqs, Insert(r)
      PROVE  RowFaithful'
  <2>1. /\ rows' = rows \cup {got[r]} /\ plan' = plan /\ Joined(r)
    BY <1>3 DEF Insert, tasks, Ledger, Joins
  <2>2. ASSUME NEW i \in 1..Len(got[r])
        PROVE  got[r][i].data = Slice(plan[got[r][i].gen], got[r][i].part)
    <3> DEFINE t == <<gen[r], i - 1>>
    <3>1. t \in Tasks /\ st[t] = "ok" /\ got[r][i] = Message(t)
      BY <2>1 DEF Joined
    <3> HIDE DEF t
    <3>2. data[t] = Slice(plan[t[1]], t[2])
      BY <3>1 DEF Reads
    <3> QED BY <3>1, <3>2 DEF Message
  <2> QED BY <2>1, <2>2 DEF RowFaithful, Slice
<1>4. CASE InitFile \/ InitSession \/ InitFails \/ InitDropped
             \/ Touch \/ Age \/ Sweep \/ Reap \/ Crash
  <2>1. rows' = rows
    BY <1>4, RowSteadyWorld DEF RowSteady
  <2> QED BY <1>2, <1>4, <2>1 DEF Next
<1>5. ASSUME NEW r \in Reqs,
             ChunkBegin(r) \/ AbortBegin(r) \/ Gate(r) \/ Disconnect(r)
               \/ (HandlerStep(r) /\ ~Insert(r))
      PROVE  RowFaithful'
  <2>1. rows' = rows
    <3>1. CASE Gate(r) \/ Disconnect(r)
      BY <3>1 DEF Gate, Disconnect, stored
    <3> QED BY <1>5, <3>1, RowSteadyHandler DEF RowSteady
  <2>2. Next
    BY <1>5 DEF Next
  <2> QED BY <1>2, <2>1, <2>2
<1>6. ASSUME NEW t \in Tasks, TaskStep(t)
      PROVE  RowFaithful'
  <2>1. rows' = rows
    BY <1>6, TaskMoves DEF OnlyTheTask
  <2>2. Next
    BY <1>6 DEF Next
  <2> QED BY <1>2, <2>1, <2>2
<1> QED BY <1>1, <1>3, <1>4, <1>5, <1>6 DEF Next, HandlerStep

\* What a resumable upload is for: the parts a row names hold, put together, the
\* client's file, however the chunks were cut, the parts were split, and the calls to
\* Telegram failed and were retried. A dropped or doubled PUT breaks it.
THEOREM RowsHoldTheFile ==
  ASSUME NoTornChunks
  PROVE  Spec => []RowFaithful
<1>0. "disconnect" \notin Faults
  BY DEF NoTornChunks
<1>1. Init => FileKept /\ Prefix /\ Reads /\ RowFaithful
  BY SizeAssumption DEF Init, FileKept, Prefix, ChunkRunning, ChunkPCs, Completing,
     CompletePCs, Reads, RowFaithful
<1>2. TypeInv /\ Ledger /\ FileKept /\ [Next]_vars => FileKept'
  BY <1>0, FileKeptStep
<1>3. TypeInv /\ Ledger /\ FileKept /\ Prefix /\ [Next]_vars => Prefix'
  BY PrefixStep
<1>4. TypeInv /\ Ledger /\ Prefix /\ Reads /\ [Next]_vars => Reads'
  BY ReadsStep
<1>5. TypeInv /\ Ledger /\ Reads /\ RowFaithful /\ [Next]_vars => RowFaithful'
  BY FaithStep
<1> QED BY TypeInit, TypeStep, GateInit, GateStep, LedgerInit, LedgerStep,
           <1>1, <1>2, <1>3, <1>4, <1>5, PTL DEF Spec

-----------------------------------------------------------------------------
(* UploadContract                                                          *)

\* The pieces into which a plan cuts the file follow each other.
LEMMA PlanTiles ==
  ASSUME NEW declared \in Nat \ {0}, NEW size \in Nat \ {0},
         NEW i \in 0..(NParts(declared, size) - 1)
  PROVE  /\ PartStart(size, i) \in 0..declared
         /\ i + 1 < NParts(declared, size) => PartStart(size, i + 1) = PartEnd(declared, size, i)
         /\ i + 1 = NParts(declared, size) => PartEnd(declared, size, i) = declared
<1> DEFINE n == NParts(declared, size)
<1>1. /\ n \in Nat \ {0} /\ (n - 1) * size < declared /\ declared <= (n - 1) * size + size
      /\ i \in Nat /\ i <= n - 1
  BY PlanCount
<1> HIDE DEF n
<1>2. i * size \in Nat /\ (i + 1) * size = i * size + size /\ (n - 1) * size \in Nat
  BY <1>1, Successor
<1>3. i * size <= (n - 1) * size
  BY <1>1, Z3
<1>4. i + 1 < n => (i + 1) * size <= (n - 1) * size
  BY <1>1, Z3
<1>5. i + 1 = n => i * size = (n - 1) * size
  BY <1>1
<1> QED BY <1>1, <1>2, <1>3, <1>4, <1>5 DEF PartStart, PartEnd, n

\* The parts of a fan-out, with the bytes they should hold, are the file.
LEMMA FanOutIsTheFile ==
  ASSUME NEW row, NEW size \in Nat \ {0}, Len(row) = NParts(Declared, size),
         \A i \in 1..Len(row) : row[i].data = Slice(size, i - 1)
  PROVE  Contract!IsTheFile(row)
<1> DEFINE n == NParts(Declared, size)
           cut == [i \in 0..n |-> IF i = n THEN Declared ELSE PartStart(size, i)]
<1>1. n \in Nat \ {0} /\ Declared \in Nat \ {0}
  BY PlanCount, SizeAssumption
<1>2. ASSUME NEW i \in 0..(n - 1)
      PROVE  /\ PartStart(size, i) \in 0..Declared
             /\ Expected(Declared, size, i) \in Nat \ {0}
             /\ cut[i] = PartStart(size, i)
             /\ cut[i + 1] = PartStart(size, i) + Expected(Declared, size, i)
  <2>1. /\ PartStart(size, i) \in 0..Declared
        /\ i + 1 < n => PartStart(size, i + 1) = PartEnd(Declared, size, i)
        /\ i + 1 = n => PartEnd(Declared, size, i) = Declared
    BY <1>1, PlanTiles
  <2>2. /\ PartStart(size, i) + Expected(Declared, size, i) = PartEnd(Declared, size, i)
        /\ Expected(Declared, size, i) \in 1..size
    BY <1>1, PlanPart
  <2>3. i + 1 \in 0..n /\ i \in 0..n /\ i # n
    BY <1>1
  <2>4. i + 1 # n => i + 1 < n
    BY <1>1, <2>3
  <2>5. cut[i] = PartStart(size, i)
    BY <2>3
  <2>6. cut[i + 1] = IF i + 1 = n THEN Declared ELSE PartStart(size, i + 1)
    BY <2>3
  <2> HIDE DEF cut, n
  <2>7. cut[i + 1] = PartEnd(Declared, size, i)
    BY <2>1, <2>4, <2>6
  <2>8. Expected(Declared, size, i) \in Nat \ {0}
    BY <2>2
  <2> QED BY <2>1, <2>2, <2>5, <2>7, <2>8
<1>3. cut \in [0..n -> 0..Declared] /\ cut[0] = 0 /\ cut[n] = Declared
  <2>1. \A i \in 0..n : cut[i] \in 0..Declared
    <3> SUFFICES ASSUME NEW i \in 0..n PROVE cut[i] \in 0..Declared
      OBVIOUS
    <3>1. CASE i = n
      BY <1>1, <3>1
    <3>2. CASE i # n
      <4>1. i \in 0..(n - 1)
        <5> HIDE DEF cut, n
        <5> QED BY <1>1, <3>2
      <4>2. cut[i] = PartStart(size, i) /\ PartStart(size, i) \in 0..Declared
        BY <1>2, <4>1
      <4> QED BY <4>2
    <3> QED BY <3>1, <3>2
  <2>2. PartStart(size, 0) = 0
    BY DEF PartStart
  <2> QED BY <1>1, <2>1, <2>2
<1>4. ASSUME NEW i \in 1..n
      PROVE  /\ cut[i - 1] < cut[i]
             /\ row[i].data = [k \in 1..(cut[i] - cut[i - 1]) |-> cut[i - 1] + k]
  <2> HIDE DEF cut, n
  <2>1. PICK j \in 0..(n - 1) : j = i - 1 /\ j + 1 = i
    BY <1>1
  <2> DEFINE w == Expected(Declared, size, j)
             s == PartStart(size, j)
  <2>2. w \in Nat \ {0} /\ s \in Nat /\ cut[j] = s /\ cut[i] = s + w
    <3>1. cut[j + 1] = s + w /\ cut[j] = s /\ w \in Nat \ {0} /\ s \in 0..Declared
      BY <1>2
    <3> QED BY <1>1, <2>1, <3>1
  <2>3. row[i].data = [k \in 1..w |-> s + k]
    BY <2>1 DEF Slice, n
  <2> HIDE DEF w, s
  <2>4. cut[i] - cut[j] = w /\ cut[j] < cut[i]
    BY <2>2
  <2> QED BY <2>1, <2>2, <2>3, <2>4
<1> HIDE DEF cut
<1>5. \E c \in [0..n -> 0..Declared] :
        /\ c[0] = 0 /\ c[n] = Declared
        /\ \A i \in 1..n :
             /\ c[i - 1] < c[i]
             /\ row[i].data = [k \in 1..(c[i] - c[i - 1]) |-> c[i - 1] + k]
  BY <1>3, <1>4
<1> QED BY <1>5 DEF Contract!IsTheFile

\* What a row names is there, and is the file.
Entire ==
  \A row \in rows :
    Contract!Kept(row, messages) /\ row # <<>> /\ Contract!IsTheFile(row)

LEMMA RowsAreEntire == TypeInv /\ Ledger /\ RowFaithful => Entire
<1> SUFFICES ASSUME TypeInv, Ledger, RowFaithful, NEW row \in rows
             PROVE  Contract!Kept(row, messages) /\ row # <<>> /\ Contract!IsTheFile(row)
  BY DEF Entire
<1>1. PICK g \in Gens : RowOf(row, g)
  BY DEF Ledger, Rows
<1>2. /\ Len(row) = NParts(Declared, plan[g]) /\ plan[g] \in Nat \ {0}
      /\ \A i \in 1..Len(row) : row[i] \in messages
  BY <1>1 DEF RowOf, TypeInv, TypeOK
<1>3. \A i \in 1..Len(row) : row[i].data = Slice(plan[g], i - 1)
  BY <1>1 DEF RowOf, RowFaithful
<1>4. Contract!IsTheFile(row)
  BY <1>2, <1>3, FanOutIsTheFile
<1>5. row # <<>>
  <2>1. Len(row) \in Nat \ {0}
    BY <1>2, PlanCount, SizeAssumption
  <2> QED BY <2>1
<1> QED BY <1>2, <1>4, <1>5 DEF Contract!Kept

LEMMA ContractInit == Init => Contract!Init
BY SizeAssumption DEF Init, Contract!Init

\* Rows change in persist_row only, and there is none before it.
LEMMA OnlyInsertRecords ==
  ASSUME "disconnect" \notin Faults, TypeInv, Ledger, OneRow, [Next]_vars, rows' # rows
  PROVE  rows = {} /\ (\E row : rows' = {row}) /\ messages' = messages
<1>1. PICK r \in Reqs : Insert(r)
  <2>1. ~RowSteady
    BY DEF RowSteady
  <2>2. \A r \in Reqs : ~Disconnect(r) /\ ~Gate(r)
    BY DEF Disconnect, Gate, stored
  <2> QED BY <2>1, <2>2, RowSteadyWorld, RowSteadyHandler DEF Next, HandlerStep
<1>2. Completing(r) /\ pc[r] # "stored"
  BY <1>1 DEF Insert, Completing, CompletePCs
<1> QED BY <1>1, <1>2 DEF OneRow, Insert

LEMMA ContractStep ==
  ASSUME "disconnect" \notin Faults
  PROVE  TypeInv /\ Ledger /\ OneRow /\ Entire' /\ [Next]_vars
           => [Contract!Next]_Contract!vars
<1> SUFFICES ASSUME TypeInv, Ledger, OneRow, Entire', [Next]_vars PROVE Contract!Next
  BY DEF Contract!vars
<1>1. CASE rows' = rows
  <2>1. Contract!PostOrDelete
    BY <1>1 DEF Entire, Contract!PostOrDelete, Contract!Kept
  <2> QED BY <2>1 DEF Contract!Next
<1>2. CASE rows' # rows
  <2>1. rows = {} /\ (\E row : rows' = {row}) /\ messages' = messages
    BY <1>2, OnlyInsertRecords
  <2>2. PICK row \in rows' : rows' = {row}
    BY <2>1
  <2>3. Contract!Kept(row, messages) /\ row # <<>> /\ Contract!IsTheFile(row)
    BY <2>1, <2>2 DEF Entire, Contract!Kept, Contract!IsTheFile
  <2>4. Contract!Record
    BY <2>1, <2>2, <2>3 DEF Contract!Record
  <2> QED BY <2>4 DEF Contract!Next
<1> QED BY <1>1, <1>2

\* A resumable upload keeps the promise of UploadContract, under the assumptions of the
\* theorem above: its retries, rollbacks, aborts and sweeps, and any crash, post and delete
\* documents; one step records the file; nothing touches what was recorded.
THEOREM ResumeImplements ==
  ASSUME NoTornChunks
  PROVE  Spec => Implements
<1>0. "disconnect" \notin Faults
  BY DEF NoTornChunks
<1>1. Spec => []RowFaithful
  BY RowsHoldTheFile
<1>2. Spec => [](TypeInv /\ SingleCompletion /\ Ledger)
  BY TypeInit, TypeStep, GateInit, GateStep, LedgerInit, LedgerStep, PTL DEF Spec
<1>3. Spec => []OneRow
  <2>1. Init => OneRow
    BY DEF Init, OneRow
  <2>2. TypeInv /\ SingleCompletion /\ Ledger /\ OneRow /\ [Next]_vars => OneRow'
    BY <1>0, OneRowStep
  <2> QED BY <1>2, <2>1, <2>2, PTL DEF Spec
<1>4. TypeInv /\ Ledger /\ OneRow /\ Entire' /\ [Next]_vars => [Contract!Next]_Contract!vars
  BY <1>0, ContractStep
<1>5. Spec => Contract!Spec
  BY <1>1, <1>2, <1>3, <1>4, RowsAreEntire, ContractInit, PTL DEF Spec, Contract!Spec
<1> QED BY <1>5 DEF Implements

=============================================================================
