---------------------------- MODULE MCSpillUpload ----------------------------
(* Two parts, a body that may be a byte short or long, and short channels. *)
EXTENDS SpillUpload
=============================================================================
