------------------------------ MODULE Handlers ------------------------------
(***************************************************************************)
(* The invocations of HTTP handlers.  axum runs each as a task of its own, *)
(* and a task can be overtaken by any other wherever it awaits; a record   *)
(* keeps the await it stands at (pc) and the locals it still needs.        *)
(***************************************************************************)
EXTENDS Naturals

CONSTANT MaxRequests    \* bound on invocations, numbered as they arrive

VARIABLE req            \* the state of each invocation

Requests == 1..MaxRequests
Idle     == [pc |-> "idle"]
Over     == [pc |-> "over"]

At(r, p)   == req[r].pc = p
Arrives(r) == At(r, "idle") /\ \A q \in 1..(r - 1) : ~At(q, "idle")
Goto(r, s) == req' = [req EXCEPT ![r] = s]
Step(r, p) == Goto(r, [req[r] EXCEPT !.pc = p])

(* A restart of the process ends every invocation that had begun. *)
CutShort == req' = [r \in Requests |-> IF At(r, "idle") THEN Idle ELSE Over]
=============================================================================
