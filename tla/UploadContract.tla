---------------------------- MODULE UploadContract ----------------------------
(***************************************************************************)
(* What both kinds of upload promise, with nothing of requests, buffers,   *)
(* plans, tasks and retries: documents of the upload come to Telegram and  *)
(* may go again; at one moment the upload is recorded, with one row, whose *)
(* documents, put together in its order, are the client's file; from then  *)
(* on there is no other row, and what it names is kept.                    *)
(*                                                                         *)
(* The bytes of the client's file are numbered from 1.                     *)
(***************************************************************************)
EXTENDS Naturals, Sequences

VARIABLES
  size,   \* how many bytes the client declares
  held,   \* the documents of this upload that Telegram has
  rows,   \* the rows of the upload; a row is the documents it names, in their order
  torn    \* a part was closed although it had more bytes

vars == <<size, held, rows, torn>>

Init == size \in Nat /\ held = {} /\ rows = {} /\ torn = FALSE

\* The file is cut into pieces that follow each other, one for each document; only the
\* empty file has an empty piece.
IsTheFile(docs) ==
  \E cut \in [0..Len(docs) -> 0..size] :
    /\ cut[0] = 0 /\ cut[Len(docs)] = size
    /\ \A i \in 1..Len(docs) :
         /\ cut[i - 1] < cut[i] \/ size = 0
         /\ docs[i].data = [k \in 1..(cut[i] - cut[i - 1]) |-> cut[i - 1] + k]

Kept(docs, there) == \A i \in 1..Len(docs) : docs[i] \in there

PostOrDelete ==
  /\ \A docs \in rows : Kept(docs, held')
  /\ UNCHANGED <<size, rows, torn>>

Tear == torn' = TRUE /\ UNCHANGED <<size, held, rows>>

Record ==
  /\ rows = {}
  /\ \E docs \in rows' :
       /\ rows' = {docs} /\ docs # <<>> /\ Kept(docs, held)
       /\ torn \/ IsTheFile(docs)
  /\ UNCHANGED <<size, held, torn>>

Next == PostOrDelete \/ Tear \/ Record

Spec == Init /\ [][Next]_vars
=============================================================================
