--------------------------- MODULE TransferContract ---------------------------
(***************************************************************************)
(* What upload_stream (tg/transfer.rs) promises whoever awaits it, with    *)
(* nothing of the channel, the producer and the workers: a document is     *)
(* saved part by part in any order, no part twice; then one answer comes,  *)
(* and with it the last effect.  "ok" means that Telegram has every part,  *)
(* an error that something did fail.                                       *)
(***************************************************************************)
CONSTANT Parts      \* the document
VARIABLES saved,    \* the parts that Telegram has
          fault,    \* the reader or a call failed
          result    \* "none", then "ok" or "err"

vars == <<saved, fault, result>>

Init == saved = {} /\ fault = FALSE /\ result = "none"

Save ==
  /\ result = "none"
  /\ \E p \in Parts \ saved : saved' = saved \union {p}
  /\ UNCHANGED <<fault, result>>

Break ==
  /\ result = "none"
  /\ fault' = TRUE
  /\ UNCHANGED <<saved, result>>

Succeed ==
  /\ result = "none" /\ saved = Parts /\ ~fault
  /\ result' = "ok"
  /\ UNCHANGED <<saved, fault>>

Fail ==
  /\ result = "none" /\ fault
  /\ result' = "err"
  /\ UNCHANGED <<saved, fault>>

Next == Save \/ Break \/ Succeed \/ Fail

Spec == Init /\ [][Next]_vars
=============================================================================
