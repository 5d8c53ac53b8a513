---------------------------- MODULE UploadPipeline ----------------------------
(***************************************************************************)
(* upload_stream (tg/transfer.rs): one producer reads a document in order  *)
(* and hands its 512 KiB parts through a bounded channel to a few workers, *)
(* which save them in Telegram.  The caller joins the producer, closes the *)
(* channel and joins the workers.                                          *)
(*                                                                         *)
(* The workers share the receiver behind a mutex that is held over one     *)
(* recv(), so a receive is one step.  The receiver belongs to the caller   *)
(* too, which keeps it until it returns: no send ever fails.               *)
(***************************************************************************)
EXTENDS Integers, Sequences, FiniteSets

CONSTANTS
  Workers,   \* the UPLOAD_WORKERS tasks
  Total,     \* total_parts
  QueueCap,  \* capacity of the channel (8)
  MaxFail    \* bound: how many save RPCs Telegram may fail

ASSUME WorkersAssumption == IsFiniteSet(Workers) /\ Workers # {}
ASSUME TotalAssumption == Total \in Nat \ {0}
ASSUME QueueCapAssumption == QueueCap \in Nat \ {0}
ASSUME MaxFailAssumption == MaxFail \in Nat

VARIABLES
  producer,  \* "check", "read", "send", then "done" or "short"
  part,      \* the part the producer is at
  queue,     \* the channel
  worker,    \* "recv", "rpc", then "ok" or "err"
  cur,       \* the part a worker has taken last, -1 before the first
  failed,    \* the shared failure counter
  saved,     \* parts that Telegram has
  result     \* "none" while upload_stream runs, then "ok" or "err"

vars == <<producer, part, queue, worker, cur, failed, saved, result>>

PartIds == 0..(Total - 1)
InQueue == {queue[k] : k \in 1..Len(queue)}

ProducerEnded == producer \in {"done", "short"}

TxForgotten == FALSE                    \* variant: the caller keeps tx

\* The caller drops tx when the producer has ended.
TxDropped == ProducerEnded

-----------------------------------------------------------------------------
(* The producer *)

\* Stops at the end of the file, or when a worker has already failed.
Check ==
  /\ producer = "check"
  /\ producer' = IF part < Total /\ failed = 0 THEN "read" ELSE "done"
  /\ UNCHANGED <<part, queue, worker, cur, failed, saved, result>>

\* Whole parts, but of the last one any beginning: a stream that ends inside it
\* is not noticed.
ReadOk ==
  /\ producer = "read"
  /\ producer' = "send"
  /\ UNCHANGED <<part, queue, worker, cur, failed, saved, result>>

\* The reader fails, or its stream ends early.
ReadShort ==
  /\ producer = "read"
  /\ producer' = "short"
  /\ UNCHANGED <<part, queue, worker, cur, failed, saved, result>>

\* tx.send waits for room in the channel.  The receiver lives as long as the caller,
\* so it waits for ever when every worker has failed: "all workers gone" (249) is
\* an outcome that tx.send never has.
Send ==
  /\ producer = "send"
  /\ Len(queue) < QueueCap
  /\ queue' = Append(queue, part)
  /\ part' = part + 1
  /\ producer' = "check"
  /\ UNCHANGED <<worker, cur, failed, saved, result>>

-----------------------------------------------------------------------------
(* The workers *)

\* Variant: a part is read from the channel and removed later.
RecvWithoutRemoving(w) ==
  /\ worker[w] = "recv"
  /\ queue # <<>>
  /\ cur' = [cur EXCEPT ![w] = Head(queue)]
  /\ worker' = [worker EXCEPT ![w] = "rpc"]
  /\ UNCHANGED <<producer, part, queue, failed, saved, result>>

Recv(w) ==
  /\ worker[w] = "recv"
  /\ queue # <<>>
  /\ cur' = [cur EXCEPT ![w] = Head(queue)]
  /\ queue' = Tail(queue)
  /\ worker' = [worker EXCEPT ![w] = "rpc"]
  /\ UNCHANGED <<producer, part, failed, saved, result>>

\* The channel is closed, and closed it is only drained.
RecvNone(w) ==
  /\ worker[w] = "recv"
  /\ queue = <<>>
  /\ TxDropped
  /\ worker' = [worker EXCEPT ![w] = "ok"]
  /\ UNCHANGED <<producer, part, queue, cur, failed, saved, result>>

SaveOk(w) ==
  /\ worker[w] = "rpc"
  /\ saved' = saved \union {cur[w]}
  /\ worker' = [worker EXCEPT ![w] = "recv"]
  /\ UNCHANGED <<producer, part, queue, cur, failed, result>>

\* Variant: the worker logs the error and takes the next part.
SaveErrIgnored(w) ==
  /\ worker[w] = "rpc"
  /\ failed < MaxFail
  /\ failed' = failed + 1
  /\ worker' = [worker EXCEPT ![w] = "recv"]
  /\ UNCHANGED <<producer, part, queue, cur, saved, result>>

SaveErr(w) ==
  /\ worker[w] = "rpc"
  /\ failed < MaxFail
  /\ failed' = failed + 1
  /\ worker' = [worker EXCEPT ![w] = "err"]
  /\ UNCHANGED <<producer, part, queue, cur, saved, result>>

-----------------------------------------------------------------------------
\* Variant: the first error is returned at once, the other workers go on.
JoinUntilErr ==
  /\ result = "none"
  /\ ProducerEnded
  /\ \/ producer = "short" \/ \E w \in Workers : worker[w] = "err"
     \/ \A w \in Workers : worker[w] = "ok"
  /\ result' = IF producer = "done" /\ \A w \in Workers : worker[w] = "ok"
               THEN "ok" ELSE "err"
  /\ UNCHANGED <<producer, part, queue, worker, cur, failed, saved>>

\* The joins, the first error wins.
Join ==
  /\ result = "none"
  /\ ProducerEnded
  /\ \A w \in Workers : worker[w] \in {"ok", "err"}
  /\ result' = IF producer = "done" /\ \A w \in Workers : worker[w] = "ok"
               THEN "ok" ELSE "err"
  /\ UNCHANGED <<producer, part, queue, worker, cur, failed, saved>>

Init ==
  /\ producer = "check"
  /\ part = 0
  /\ queue = <<>>
  /\ worker = [w \in Workers |-> "recv"]
  /\ cur = [w \in Workers |-> -1]
  /\ failed = 0
  /\ saved = {}
  /\ result = "none"

Produce == Check \/ ReadOk \/ ReadShort \/ Send
Work(w) == Recv(w) \/ RecvNone(w) \/ SaveOk(w) \/ SaveErr(w)

Next == Produce \/ Join \/ \E w \in Workers : Work(w)

\* The runtime runs what can run; an RPC is answered or times out.
Fairness == WF_vars(Produce) /\ WF_vars(Join) /\ \A w \in Workers : WF_vars(Work(w))

Spec == Init /\ [][Next]_vars /\ Fairness

-----------------------------------------------------------------------------
(* Correctness *)

\* upload_stream only reports success when Telegram has every part of the
\* document, whatever order the workers ran in and whichever of them failed.
Delivered == result = "ok" => saved = PartIds

\* No part is saved twice: a part is in the channel, with one worker, or saved.
NoPartTwice ==
  \A w \in Workers : worker[w] = "rpc" =>
    /\ cur[w] \notin saved \union InQueue
    /\ \A v \in Workers : worker[v] = "rpc" /\ cur[v] = cur[w] => v = w

\* upload_stream keeps the promise of TransferContract: each part reaches Telegram
\* at most once, nothing happens any more after the answer, "ok" is said only of
\* a complete document, and an error only if something failed.
Contract == INSTANCE TransferContract
              WITH Parts <- PartIds, fault <- (failed > 0 \/ producer = "short")
Implements == Contract!Spec

\* upload_stream returns as long as a worker is left to empty the channel, wherever
\* the others failed.  (When all have failed it may not, see Send.)
Returns == <>(result # "none" \/ \A w \in Workers : worker[w] = "err")

=============================================================================
