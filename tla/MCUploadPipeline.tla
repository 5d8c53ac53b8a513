--------------------------- MODULE MCUploadPipeline ---------------------------
(* A few workers over a short channel, and parts enough to fill both. *)
EXTENDS UploadPipeline
=============================================================================
