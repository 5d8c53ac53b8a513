---------------------------- MODULE MCResumeUpload ----------------------------
(***************************************************************************)
(* Instances of ResumeUpload for TLC: a file of two or three bytes, sent   *)
(* in chunks of one or two, stored as one part or as one part per byte.    *)
(***************************************************************************)
EXTENDS ResumeUpload, TLC

CONSTANTS r1, r2

MCReqs == {r1, r2}
Symmetry == Permutations(MCReqs)

=============================================================================
