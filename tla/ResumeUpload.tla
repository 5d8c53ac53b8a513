----------------------------- MODULE ResumeUpload -----------------------------
(***************************************************************************)
(* One resumable upload (routes/files/resume.rs, the helpers it calls in   *)
(* routes/files/upload.rs, and the message posting of tg/transfer.rs).     *)
(*                                                                         *)
(* The state is the session entry behind the SESSIONS lock, the spill file,*)
(* the uploader tasks, the request handlers in flight, the messages that   *)
(* exist in Telegram and the file rows.  A step is what happens between    *)
(* two awaits of a handler or a task; a critical section of the SESSIONS   *)
(* lock is one step.  Other uploads reach this one only through sweep(),   *)
(* which every init() runs, so one upload is modelled.                     *)
(*                                                                         *)
(* The bytes of the client's file are numbered 1..Declared, so a piece of  *)
(* content is the sequence of the numbers of its bytes.                    *)
(***************************************************************************)
EXTENDS PartPlan, Sequences, FiniteSets

CONSTANTS
  Reqs,         \* request handlers that may be in flight at once
  Declared,     \* the size the client declared at init
  MaxChunk,     \* bound: largest chunk body
  Splits,       \* values of the user's split setting
  PartRetries,  \* PART_RETRIES
  MaxSpill,     \* bound: no chunk begins when the spill file is longer
  MaxGens,      \* bound: times the parts are fanned out (init, then fallbacks)
  Faults        \* what the environment may do, see FaultKinds

(***************************************************************************)
(*   disconnect  the client goes away, its handler future is dropped       *)
(*   resend      the client has two PUTs at one offset in flight           *)
(*   disk        a write to, or an open of, the spill file fails           *)
(*   rpc         Telegram does something and its answer is lost, or a      *)
(*               rollback delete fails                                     *)
(*   crash       the process stops                                         *)
(***************************************************************************)
FaultKinds == {"disconnect", "resend", "disk", "rpc", "crash"}

ASSUME ReqsAssumption == IsFiniteSet(Reqs)
ASSUME SizeAssumption == Declared \in Nat \ {0} /\ MaxChunk \in Nat \ {0}
ASSUME SplitsAssumption == Splits \subseteq Nat
ASSUME BoundsAssumption ==
  PartRetries \in Nat /\ MaxGens \in Nat \ {0} /\ MaxSpill \in Nat
ASSUME FaultsAssumption == Faults \subseteq FaultKinds

VARIABLES
  phase,     \* the id: "new", "creating" (inside init), "live" (in SESSIONS), "gone"
  received,  \* Session.received, which is also the value of the progress watch
  stale,     \* last_touch (or, with no session, the file's mtime) is past the TTL
  inFlight,  \* complete_in_flight
  handles,   \* Session.uploaders still holds the handles of the first fan-out
  onDisk,    \* the spill file exists
  file,      \* its content
  reaper,    \* a detached remove_spill task is pending
  pc,        \* where each handler is
  span,      \* chunk handler: offset and length of its body
  gen,       \* complete handler: the fan-out it joins, 0 for "none yet"
  got,       \* complete handler: the messages joined so far
  todo,      \* complete handler: messages it still has to delete
  spawned,   \* number of fan-outs started
  plan,      \* part size of each fan-out
  st,        \* state of each uploader task <<fan-out, part>>
  try,       \* attempts each task has used up
  data,      \* what each task read from the spill file
  messages,  \* part messages that exist in Telegram
  rows       \* file rows inserted for this upload, as sequences of messages

session == <<phase, received, stale, inFlight, handles>>
spill   == <<onDisk, file, reaper>>
locals  == <<span, gen, got, todo>>
tasks   == <<spawned, plan, st, try, data>>
stored  == <<messages, rows>>
vars    == <<session, spill, pc, locals, tasks, stored>>

-----------------------------------------------------------------------------
(* Tasks and parts *)

Gens  == 1..MaxGens
Parts == 0..(MaxParts - 1)
Tasks == Gens \X Parts

Original == [k \in 1..Declared |-> k]
Slice(size, i) ==
  [k \in 1..Expected(Declared, size, i) |-> PartStart(size, i) + k]

\* The parts that one fan-out has.
PartsOf(g) == {i \in Parts : i < NParts(Declared, plan[g])}
TasksOf(g) == {g} \X PartsOf(g)

Running(t) == st[t] \in {"wait", "ready", "sending", "stuck", "sent"}

\* JoinHandle::abort on every task of T; a finished task keeps its result.
Aborted(T) ==
  [t \in Tasks |-> IF t \in T /\ Running(t) THEN "aborted" ELSE st[t]]

Message(t) == [gen |-> t[1], part |-> t[2], try |-> try[t], data |-> data[t]]

ChunkPCs    == {"append", "ack"}
AbortPCs    == {"abort", "unlink"}
CompletePCs == {"head", "plan", "join", "insert", "stored", "undo"}

TxNeverCloses == TRUE                   \* variant: a sender clone is leaked

\* Every handler past owned_session(), and complete(), holds a clone of
\* progress_tx, so the watch closes only when they are all gone too.
TxAlive == phase = "live" \/ \E r \in Reqs : pc[r] # "idle"

\* A handler answers, or its future is dropped: its locals are gone.
Return(r) ==
  /\ pc' = [pc EXCEPT ![r] = "idle"]
  /\ span' = [span EXCEPT ![r] = [off |-> 0, len |-> 0]]
  /\ gen' = [gen EXCEPT ![r] = 0]
  /\ got' = [got EXCEPT ![r] = <<>>]
  /\ todo' = [todo EXCEPT ![r] = <<>>]

-----------------------------------------------------------------------------
(* init *)

\* Spawns one uploader per part of a new plan.
FanOut(g, size, first) ==
  /\ spawned' = g
  /\ plan' = [plan EXCEPT ![g] = size]
  /\ st' = [t \in Tasks |->
              IF t[1] = g /\ t[2] < NParts(Declared, size) THEN first ELSE st[t]]
  /\ UNCHANGED <<try, data>>

InitFile ==
  /\ phase = "new"
  /\ phase' = "creating"
  /\ onDisk' = TRUE
  /\ UNCHANGED <<received, stale, inFlight, handles, file, reaper, pc, locals,
                 tasks, stored>>

InitSession ==
  /\ phase = "creating"
  /\ \E s \in Splits :
       LET size == PartSize(Declared, s) IN
       /\ Fits(Declared, size)
       /\ FanOut(1, size, "wait")
  /\ phase' = "live"
  /\ handles' = TRUE
  /\ stale' = FALSE
  /\ UNCHANGED <<received, inFlight, spill, pc, locals, stored>>

\* No channel selected, too many parts, no session with Telegram: the empty
\* spill file stays behind with no session.
InitFails ==
  /\ phase = "creating"
  /\ phase' = "gone"
  /\ UNCHANGED <<received, stale, inFlight, handles, spill, pc, locals, tasks,
                 stored>>

\* The client goes away while init() waits for the SESSIONS lock: its locals are
\* dropped, which closes the watch and detaches the tasks it spawned.
InitDropped ==
  /\ phase = "creating"
  /\ \E s \in Splits :
       LET size == PartSize(Declared, s) IN
       /\ Fits(Declared, size)
       /\ FanOut(1, size, "wait")
  /\ phase' = "gone"
  /\ UNCHANGED <<received, stale, inFlight, handles, spill, pc, locals, stored>>

-----------------------------------------------------------------------------
(* chunk, status *)

\* owned_session() refreshes last_touch; status(), and a chunk refused for its
\* offset or its length, do no more than that.
Touch ==
  /\ phase = "live"
  /\ stale
  /\ stale' = FALSE
  /\ UNCHANGED <<phase, received, inFlight, handles, spill, pc, locals, tasks,
                 stored>>

\* A well-behaved client never has two PUTs at one offset in flight.
ClientMayPut(off) ==
  "resend" \notin Faults =>
    \A q \in Reqs : pc[q] \in ChunkPCs => span[q].off # off

\* Variants: one of the two checks is missing.
ChunkNoLimit(off, len) == off = received
ChunkNoOffset(off, len) == received + len <= Declared /\ off + len <= Declared

ChunkAllowed(off, len) ==
  /\ off = received
  /\ received + len <= Declared

\* The snapshot and the checks on it; the lock is released before the append.
ChunkBegin(r) ==
  /\ pc[r] = "idle"
  /\ phase = "live"
  /\ Len(file) <= MaxSpill
  /\ \E off \in 0..Declared, len \in 1..MaxChunk :
       /\ ClientMayPut(off)
       /\ ChunkAllowed(off, len)
       /\ span' = [span EXCEPT ![r] = [off |-> off, len |-> len]]
  /\ pc' = [pc EXCEPT ![r] = "append"]
  /\ stale' = FALSE
  /\ UNCHANGED <<phase, received, inFlight, handles, spill, gen, got, todo,
                 tasks, stored>>

\* The first n bytes of the handler's body.
Body(r, n) == [k \in 1..n |-> span[r].off + k]

\* set_len(n): cuts the file, or pads it with zeroes.
SetLen(f, n) == [k \in 1..n |-> IF k <= Len(f) THEN f[k] ELSE 0]

ChunkAppend(r) ==
  /\ pc[r] = "append"
  /\ onDisk
  /\ file' = file \o Body(r, span[r].len)
  /\ pc' = [pc EXCEPT ![r] = "ack"]
  /\ stale' = (stale /\ phase = "live")
  /\ UNCHANGED <<phase, received, inFlight, handles, onDisk, reaper, locals,
                 tasks, stored>>

\* The buffer cannot be opened: it is gone, or the open fails.
ChunkOpenFails(r) ==
  /\ pc[r] = "append"
  /\ ~onDisk \/ "disk" \in Faults
  /\ Return(r)
  /\ UNCHANGED <<session, spill, tasks, stored>>

\* `write_all(..).or(flush(..))` is an error only when both fail; then the file
\* is cut back.  When one of the two fails the torn append passes for a good one.
ChunkTorn(r) ==
  /\ "disk" \in Faults
  /\ pc[r] = "append"
  /\ onDisk
  /\ \E n \in 0..(span[r].len - 1), bothFail \in BOOLEAN :
       LET torn == file \o Body(r, n) IN
       \/ /\ bothFail
          /\ file' = SetLen(torn, span[r].off)
          /\ Return(r)
       \/ /\ ~bothFail
          /\ file' = torn
          /\ pc' = [pc EXCEPT ![r] = "ack"]
          /\ UNCHANGED locals
  /\ UNCHANGED <<session, onDisk, reaper, tasks, stored>>

\* The second critical section: received comes from the snapshot.
ChunkAck(r) ==
  /\ pc[r] = "ack"
  /\ IF phase = "live"
     THEN /\ received' = span[r].off + span[r].len
          /\ stale' = FALSE
     ELSE UNCHANGED <<received, stale>>
  /\ Return(r)
  /\ UNCHANGED <<phase, inFlight, handles, spill, tasks, stored>>

-----------------------------------------------------------------------------
(* abort, sweep, and the detached removal of the spill file *)

AbortBegin(r) ==
  /\ pc[r] = "idle"
  /\ phase = "live"
  /\ pc' = [pc EXCEPT ![r] = "abort"]
  /\ stale' = FALSE
  /\ UNCHANGED <<phase, received, inFlight, handles, spill, locals, tasks, stored>>

\* Removing the entry drops its handles; abort() and sweep() abort the tasks
\* whose handles the entry still holds.
RemoveSession ==
  /\ phase' = "gone"
  /\ handles' = FALSE
  /\ st' = IF handles THEN Aborted(TasksOf(1)) ELSE st
  /\ UNCHANGED <<received, inFlight, spawned, plan, try, data>>

AbortRemove(r) ==
  /\ pc[r] = "abort"
  /\ IF phase = "live"
     THEN RemoveSession
     ELSE UNCHANGED <<phase, received, inFlight, handles, tasks>>
  /\ pc' = [pc EXCEPT ![r] = "unlink"]
  /\ UNCHANGED <<stale, spill, locals, stored>>

AbortUnlink(r) ==
  /\ pc[r] = "unlink"
  /\ onDisk' = FALSE
  /\ Return(r)
  /\ UNCHANGED <<session, file, reaper, tasks, stored>>

\* A day passes without a touch.
Age ==
  /\ phase \in {"live", "gone"}
  /\ ~stale
  /\ onDisk
  /\ stale' = TRUE
  /\ UNCHANGED <<phase, received, inFlight, handles, spill, pc, locals, tasks,
                 stored>>

\* sweep() in the init of some other upload: expired sessions, then old files
\* in the spill directory that no live session owns.
Sweep ==
  /\ stale
  /\ phase \in {"live", "gone"}
  /\ onDisk' = FALSE
  /\ IF phase = "live"
     THEN RemoveSession
     ELSE UNCHANGED <<phase, received, inFlight, handles, tasks>>
  /\ stale' = FALSE
  /\ UNCHANGED <<file, reaper, pc, locals, stored>>

Reap ==
  /\ reaper
  /\ reaper' = FALSE
  /\ onDisk' = FALSE
  /\ UNCHANGED <<session, file, pc, locals, tasks, stored>>

-----------------------------------------------------------------------------
(* complete *)

GateOpen == ~inFlight

\* The critical section: gate, then the handles move out of the entry.
Gate(r) ==
  /\ pc[r] = "idle"
  /\ phase = "live"
  /\ received = Declared
  /\ GateOpen
  /\ inFlight' = TRUE
  /\ handles' = FALSE
  /\ pc' = [pc EXCEPT ![r] = "head"]
  /\ gen' = [gen EXCEPT ![r] = IF handles THEN 1 ELSE 0]
  /\ UNCHANGED <<phase, received, stale, spill, span, got, todo, tasks, stored>>

\* Variant: the flag is cleared by hand, and forgotten.
LeaveWithFlag(r) == Return(r) /\ UNCHANGED inFlight

\* The handler ends and CompleteGuard clears the flag.
Leave(r) ==
  /\ Return(r)
  /\ inFlight' = FALSE

\* Reads the head of the spill file, then joins the first fan-out if its
\* handles were still there and falls back to store_from_file if not.
ReadHead(r) ==
  /\ pc[r] = "head"
  /\ onDisk
  /\ pc' = [pc EXCEPT ![r] = IF gen[r] = 1 THEN "join" ELSE "plan"]
  /\ UNCHANGED <<session, spill, locals, tasks, stored>>

\* The early return drops the handles it moved out, which detaches the tasks.
HeadFails(r) ==
  /\ pc[r] = "head"
  /\ ~onDisk \/ "disk" \in Faults
  /\ Leave(r)
  /\ UNCHANGED <<phase, received, stale, handles, spill, tasks, stored>>

\* store_from_file: a new plan from the settings of now, a new fan-out.
Fallback(r) ==
  /\ pc[r] = "plan"
  /\ spawned < MaxGens
  /\ \E s \in Splits :
       LET size == PartSize(Declared, s) IN
       /\ Fits(Declared, size)
       /\ FanOut(spawned + 1, size, "ready")
  /\ gen' = [gen EXCEPT ![r] = spawned + 1]
  /\ pc' = [pc EXCEPT ![r] = "join"]
  /\ UNCHANGED <<session, spill, span, got, todo, stored>>

FallbackFails(r) ==
  /\ pc[r] = "plan"
  /\ Leave(r)
  /\ UNCHANGED <<phase, received, stale, handles, spill, tasks, stored>>

\* The task collect_uploaders() is waiting for.
Awaited(r) == <<gen[r], Len(got[r])>>

\* collect_uploaders: the joins happen in part order.
JoinOk(r) ==
  /\ pc[r] = "join"
  /\ st[Awaited(r)] = "ok"
  /\ got' = [got EXCEPT ![r] = Append(@, Message(Awaited(r)))]
  /\ pc' = [pc EXCEPT ![r] =
              IF Len(got[r]) + 1 = NParts(Declared, plan[gen[r]])
              THEN "insert" ELSE "join"]
  /\ UNCHANGED <<session, spill, span, gen, todo, tasks, stored>>

NothingAborted(r) == {}                 \* variant: the rest is left running

NotYetJoined(r) ==
  {t \in Tasks : t[1] = gen[r] /\ t[2] > Len(got[r])}

\* The tasks after the failed one are aborted, then the joined parts rolled back.
JoinErr(r) ==
  /\ pc[r] = "join"
  /\ st[Awaited(r)] \in {"err", "aborted"}
  /\ st' = Aborted(NotYetJoined(r))
  /\ todo' = [todo EXCEPT ![r] = got[r]]
  /\ pc' = [pc EXCEPT ![r] = "undo"]
  /\ UNCHANGED <<session, spill, span, gen, got, spawned, plan, try, data, stored>>

\* cleanup_parts, one delete per step; a delete that fails is only logged.
Undo(r) ==
  /\ pc[r] = "undo"
  /\ todo[r] # <<>>
  /\ \/ messages' = messages \ {Head(todo[r])}
     \/ "rpc" \in Faults /\ UNCHANGED messages
  /\ todo' = [todo EXCEPT ![r] = Tail(@)]
  /\ UNCHANGED <<session, spill, pc, span, gen, got, tasks, rows>>

UndoDone(r) ==
  /\ pc[r] = "undo"
  /\ todo[r] = <<>>
  /\ Leave(r)
  /\ UNCHANGED <<phase, received, stale, handles, spill, tasks, stored>>

\* persist_row.
Insert(r) ==
  /\ pc[r] = "insert"
  /\ rows' = rows \union {got[r]}
  /\ pc' = [pc EXCEPT ![r] = "stored"]
  /\ UNCHANGED <<session, spill, locals, tasks, messages>>

\* Variant: the rollback runs although the row was committed.
InsertFailsLate(r) ==
  /\ pc[r] = "insert"
  /\ rows' = rows \union {got[r]}
  /\ todo' = [todo EXCEPT ![r] = got[r]]
  /\ pc' = [pc EXCEPT ![r] = "undo"]
  /\ UNCHANGED <<session, spill, span, gen, got, tasks, messages>>

\* persist_row rolls the parts back; on the path of the first fan-out
\* complete() then does it once more.
InsertFails(r) ==
  /\ pc[r] = "insert"
  /\ todo' = [todo EXCEPT ![r] = IF gen[r] = 1 THEN got[r] \o got[r] ELSE got[r]]
  /\ pc' = [pc EXCEPT ![r] = "undo"]
  /\ UNCHANGED <<session, spill, span, gen, got, tasks, stored>>

\* Success: the entry goes, and the drop of SpillFile spawns remove_spill.
Retire(r) ==
  /\ pc[r] = "stored"
  /\ phase' = "gone"
  /\ handles' = FALSE
  /\ reaper' = TRUE
  /\ Leave(r)
  /\ UNCHANGED <<received, stale, onDisk, file, tasks, stored>>

-----------------------------------------------------------------------------
(* the uploader tasks, and TgManager::upload *)

OnlyTheTask == UNCHANGED <<session, spill, pc, locals, spawned, plan, rows>>

\* Variant: the comparison in the wait loop is strict.
PartPassed(t) == received > PartEnd(Declared, plan[t[1]], t[2])

PartArrived(t) == received >= PartEnd(Declared, plan[t[1]], t[2])

Wake(t) ==
  /\ st[t] = "wait"
  /\ PartArrived(t)
  /\ st' = [st EXCEPT ![t] = "ready"]
  /\ UNCHANGED <<try, data, messages>>
  /\ OnlyTheTask

\* changed() fails when the watch is closed and its last value has been seen.
ChannelClosed(t) ==
  /\ st[t] = "wait"
  /\ ~PartArrived(t)
  /\ ~TxAlive
  /\ st' = [st EXCEPT ![t] = "err"]
  /\ UNCHANGED <<try, data, messages>>
  /\ OnlyTheTask

\* Variant: the part is read without the seek.
PartFromStart(t) ==
  SubSeq(file, 1, Expected(Declared, plan[t[1]], t[2]))

\* seek() and take(expected).
PartOnDisk(t) ==
  LET start == PartStart(plan[t[1]], t[2])
      end   == start + Expected(Declared, plan[t[1]], t[2])
  IN  SubSeq(file, start + 1, IF end < Len(file) THEN end ELSE Len(file))

PartComplete(t) == onDisk /\ Len(file) >= PartEnd(Declared, plan[t[1]], t[2])

\* Open, seek, and read the part to its end.  When the buffer ends inside the part,
\* upload_stream() notices unless it ends inside the last 512 KiB block.
ReadPart(t) ==
  /\ st[t] = "ready"
  /\ onDisk
  /\ Len(file) > PartStart(plan[t[1]], t[2])
  /\ st' = [st EXCEPT ![t] = "sending"]
  /\ data' = [data EXCEPT ![t] = PartOnDisk(t)]
  /\ UNCHANGED <<try, messages>>
  /\ OnlyTheTask

\* A missing buffer, or one that ends inside the part, is an error that no
\* retry follows.
ReadFails(t) ==
  /\ st[t] = "ready"
  /\ ~PartComplete(t) \/ "disk" \in Faults
  /\ st' = [st EXCEPT ![t] = "err"]
  /\ UNCHANGED <<try, data, messages>>
  /\ OnlyTheTask

\* Telegram takes the message; its answer is still on the way.
Post(t) ==
  /\ st[t] = "sending"
  /\ messages' = messages \union {Message(t)}
  /\ st' = [st EXCEPT ![t] = "sent"]
  /\ UNCHANGED <<try, data>>
  /\ OnlyTheTask

Answered(t) ==
  /\ st[t] = "sent"
  /\ st' = [st EXCEPT ![t] = "ok"]
  /\ UNCHANGED <<try, data, messages>>
  /\ OnlyTheTask

\* upload() returns an error: before the message exists, or after, when the
\* answer is lost.  A transient one is retried from the spill file.
UploadFails(t) ==
  /\ \/ st[t] = "sending"
     \/ st[t] = "sent" /\ "rpc" \in Faults
  /\ \/ /\ try[t] < PartRetries
        /\ try' = [try EXCEPT ![t] = @ + 1]
        /\ st' = [st EXCEPT ![t] = "ready"]
     \/ /\ st' = [st EXCEPT ![t] = "err"]
        /\ UNCHANGED try
  /\ data' = [data EXCEPT ![t] = <<>>]
  /\ UNCHANGED messages
  /\ OnlyTheTask

\* upload_stream() keeps the receiver of its channel, so a send into a full channel
\* waits for ever once all its workers have failed (UploadPipeline!Stuck).
UploadHangs(t) ==
  /\ st[t] = "sending"
  /\ st' = [st EXCEPT ![t] = "stuck"]
  /\ UNCHANGED <<try, data, messages>>
  /\ OnlyTheTask

-----------------------------------------------------------------------------
(* the client's connection and the process *)

\* The server drops the future of a request whose connection closed, at
\* whatever await it is in.  Dropped handles detach their tasks.  At "stored"
\* the SpillFile of the success path may already exist, and its drop still
\* removes the file.
Disconnect(r) ==
  /\ "disconnect" \in Faults
  /\ pc[r] # "idle"
  /\ IF pc[r] \in CompletePCs THEN Leave(r) ELSE Return(r) /\ UNCHANGED inFlight
  /\ \/ UNCHANGED reaper
     \/ pc[r] = "stored" /\ reaper' = TRUE
  /\ UNCHANGED <<phase, received, stale, handles, onDisk, file, tasks, stored>>

\* Sessions, handlers and tasks live in the process; the spill file, the
\* messages and the rows outlive it.
Crash ==
  /\ "crash" \in Faults
  /\ phase \in {"creating", "live", "gone"}
  /\ phase' = "gone"
  /\ inFlight' = FALSE
  /\ handles' = FALSE
  /\ reaper' = FALSE
  /\ pc' = [r \in Reqs |-> "idle"]
  /\ span' = [r \in Reqs |-> [off |-> 0, len |-> 0]]
  /\ gen' = [r \in Reqs |-> 0]
  /\ got' = [r \in Reqs |-> <<>>]
  /\ todo' = [r \in Reqs |-> <<>>]
  /\ st' = Aborted(Tasks)
  /\ UNCHANGED <<received, stale, onDisk, file, spawned, plan, try, data, stored>>

-----------------------------------------------------------------------------
Init ==
  /\ phase = "new"
  /\ received = 0
  /\ stale = FALSE
  /\ inFlight = FALSE
  /\ handles = FALSE
  /\ onDisk = FALSE
  /\ file = <<>>
  /\ reaper = FALSE
  /\ pc = [r \in Reqs |-> "idle"]
  /\ span = [r \in Reqs |-> [off |-> 0, len |-> 0]]
  /\ gen = [r \in Reqs |-> 0]
  /\ got = [r \in Reqs |-> <<>>]
  /\ todo = [r \in Reqs |-> <<>>]
  /\ spawned = 0
  /\ plan = [g \in Gens |-> 1]
  /\ st = [t \in Tasks |-> "none"]
  /\ try = [t \in Tasks |-> 0]
  /\ data = [t \in Tasks |-> <<>>]
  /\ messages = {}
  /\ rows = {}

\* What a handler that has begun does next.
HandlerStep(r) ==
  \/ ChunkAppend(r) \/ ChunkOpenFails(r) \/ ChunkTorn(r) \/ ChunkAck(r)
  \/ AbortRemove(r) \/ AbortUnlink(r)
  \/ ReadHead(r) \/ HeadFails(r) \/ Fallback(r) \/ FallbackFails(r)
  \/ JoinOk(r) \/ JoinErr(r) \/ Undo(r) \/ UndoDone(r)
  \/ Insert(r) \/ InsertFails(r) \/ Retire(r)

TaskStep(t) ==
  \/ Wake(t) \/ ChannelClosed(t) \/ ReadPart(t) \/ ReadFails(t)
  \/ Post(t) \/ Answered(t) \/ UploadFails(t) \/ UploadHangs(t)

Next ==
  \/ InitFile \/ InitSession \/ InitFails \/ InitDropped
  \/ Touch \/ Age \/ Sweep \/ Reap \/ Crash
  \/ \E r \in Reqs :
       \/ ChunkBegin(r) \/ AbortBegin(r) \/ Gate(r)
       \/ HandlerStep(r) \/ Disconnect(r)
  \/ \E t \in Tasks : TaskStep(t)

Spec == Init /\ [][Next]_vars

\* tokio runs every task that can run, and Telegram answers every call; upload()
\* itself may still hang (UploadHangs).
Fairness ==
  /\ \A r \in Reqs : WF_vars(HandlerStep(r))
  /\ \A t \in Tasks : WF_vars(TaskStep(t))
  /\ WF_vars(Reap)

FairSpec == Spec /\ Fairness

-----------------------------------------------------------------------------
(* Correctness *)

Completing(r) == pc[r] \in CompletePCs

PCs == {"idle"} \union ChunkPCs \union AbortPCs \union CompletePCs
States == {"none", "wait", "ready", "sending", "stuck", "sent", "ok", "err",
           "aborted"}

\* Every variable of the upload has the shape its Rust counterpart has.
TypeOK ==
  /\ phase \in {"new", "creating", "live", "gone"}
  /\ received \in 0..Declared
  /\ {stale, inFlight, handles, onDisk, reaper} \subseteq BOOLEAN
  /\ file \in Seq(0..Declared)
  /\ pc \in [Reqs -> PCs]
  /\ span \in [Reqs -> [off : 0..Declared, len : 0..MaxChunk]]
  /\ gen \in [Reqs -> 0..MaxGens]
  /\ spawned \in 0..MaxGens
  /\ plan \in [Gens -> Nat \ {0}]
  /\ st \in [Tasks -> States]
  /\ try \in [Tasks -> 0..PartRetries]

\* "Guards against concurrent complete calls": at most one handler is past the
\* gate of complete(), and the flag says exactly whether one is, whatever way
\* the handlers end.
SingleCompletion ==
  /\ \A q, r \in Reqs : Completing(q) /\ Completing(r) => q = r
  /\ inFlight <=> \E r \in Reqs : Completing(r)

\* All the parts of one fan-out, in order.
IsFanOut(row) ==
  \E g \in Gens :
    /\ Len(row) = NParts(Declared, plan[g])
    /\ \A i \in 1..Len(row) : row[i].gen = g /\ row[i].part = i - 1

\* A row names every part of one fan-out, and never a message that was rolled
\* back: collect_uploaders, persist_row and the two rollbacks agree on who owns a
\* message whatever fails around them.
RowSound ==
  \A row \in rows :
    /\ IsFanOut(row)
    /\ \A i \in 1..Len(row) : row[i] \in messages

\* While the session is live the spill file is there and, between chunks, is
\* byte for byte the acknowledged part of the client's file (chunk()).
SpillMatches ==
  phase = "live" =>
    /\ onDisk
    /\ (\A r \in Reqs : pc[r] \notin ChunkPCs) =>
         file = SubSeq(Original, 1, received)

\* What a row's messages hold, put together, is the client's file.
RowFaithful ==
  \A row \in rows : \A i \in 1..Len(row) :
    row[i].data = Slice(plan[row[i].gen], row[i].part)

\* One upload is recorded once, however often complete() is retried.
AtMostOneRow == Cardinality(rows) <= 1

\* No part is being uploaded by two fan-outs at the same time: a complete() that
\* fans out again has stopped what the one before it left running.
OneFanOutRunning ==
  \A t, u \in Tasks : Running(t) /\ Running(u) => t[1] = u[1]

\* Every complete() that passes the gate is answered, unless the part it has to join
\* next hangs in upload_stream: then it waits for ever, and the gate stays shut.
CompletionAnswered ==
  \A r \in Reqs :
    Completing(r) ~>
      ~Completing(r) \/ (pc[r] = "join" /\ st[Awaited(r)] = "stuck")

\* When the session is over no uploader is left waiting for bytes, through retries,
\* aborts and sweeps: only one that hangs in upload_stream still runs.
UploadersEnd ==
  phase = "gone" ~> \A t \in Tasks : Running(t) => st[t] = "stuck"

\* An upload keeps the promise of UploadContract: it is recorded at one moment, with the
\* client's bytes, and no retry, rollback, abort or sweep touches what is recorded.
Contract == INSTANCE UploadContract
              WITH size <- Declared, held <- messages, torn <- FALSE

Implements == Contract!Spec

=============================================================================
