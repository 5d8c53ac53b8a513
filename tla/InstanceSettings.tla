--------------------------- MODULE InstanceSettings ---------------------------
(***************************************************************************)
(* The instance tunables: one row in the database and the copy in memory   *)
(* that every request reads.  An operator changes one field at a time.     *)
(***************************************************************************)
EXTENDS TgAccount

CONSTANT Fields     \* the tunables, each on or off

VARIABLES stored, cached

InstanceInit == stored = [f \in Fields |-> FALSE] /\ cached = stored

(* PUT /instance: is_admin asks the caller's manager who it is, then the    *)
(* copy in memory is changed in the fields the body names.                  *)
SaveInstance(r, f, v) ==
    /\ Arrives(r)
    /\ \E m \in hub : Goto(r, [pc |-> "ensure", do |-> "next", mgr |-> m, hold |-> {},
                               bot |-> FirstBot, list |-> <<f, v>>])
    /\ UNCHANGED <<account, tangled, stored, cached>>

Saving == {"set_row", "set_cache"}

NextInstance(r) ==
    /\ At(r, "next")
    /\ Goto(r, [req[r] EXCEPT !.pc = "set_row",
                              !.list = [cached EXCEPT ![req[r].list[1]] = req[r].list[2]]])
    /\ tangled' = IF \E q \in Requests \ {r} : req[q].pc \in Saving
                  THEN tangled \cup {"instance"} ELSE tangled
    /\ UNCHANGED <<account, stored, cached>>

SetRowCacheFirst(r) ==            \* mutant: the copy in memory is changed first
    /\ At(r, "set_row")
    /\ cached' = req[r].list
    /\ \/ stored' = req[r].list /\ Step(r, "set_cache")
       \/ Goto(r, Over) /\ UNCHANGED stored
    /\ UNCHANGED <<account, tangled>>

(* The query may fail, and it may run while its caller hangs up. *)
SetRow(r) ==
    /\ At(r, "set_row")
    /\ \/ stored' = req[r].list /\ Step(r, "set_cache") /\ UNCHANGED tangled
       \/ stored' = req[r].list /\ Goto(r, Over) /\ tangled' = tangled \cup {"instance"}
       \/ Goto(r, Over) /\ UNCHANGED <<stored, tangled>>
    /\ UNCHANGED <<account, cached>>

SetCache(r) ==
    /\ At(r, "set_cache")
    /\ cached' = req[r].list
    /\ Goto(r, Over)
    /\ UNCHANGED <<account, tangled, stored>>

Hydrate == cached' = stored /\ UNCHANGED stored

InstanceRequest(r) ==
    \/ \E f \in Fields, v \in BOOLEAN : SaveInstance(r, f, v)
    \/ NextInstance(r) \/ SetRow(r) \/ SetCache(r)

(* The copy every upload reads is the row a restart would read: "a cache    *)
(* that outlived a failed write would report a setting the next restart     *)
(* silently undoes" (state.rs:177-178).  Two saves at once, or one whose    *)
(* caller hung up during the write, do drive them apart.                    *)
InstanceAgrees ==
    "instance" \notin tangled /\ (\A r \in Requests : ~At(r, "set_cache")) => cached = stored
=============================================================================
