------------------------------- MODULE PartPlan -------------------------------
(***************************************************************************)
(* The arithmetic of PartPlan (routes/files/upload.rs): how a declared     *)
(* number of bytes is cut into Telegram documents and which bytes each     *)
(* part holds.  Parts are numbered from 0 as in the code.                  *)
(***************************************************************************)
EXTENDS Integers

CONSTANTS DocCap,    \* TG_DOC_CAP: the largest document Telegram takes
          MaxParts   \* the number of parts one file may have (64)

ASSUME DocCapAssumption == DocCap \in Nat \ {0}
ASSUME MaxPartsAssumption == MaxParts \in Nat \ {0}

-----------------------------------------------------------------------------

OverCap(declared) == declared > DocCap

\* The part size new() computes from the user's split setting; 0 is "no split".
PartSize(declared, split) ==
  IF ~OverCap(declared) /\ (split = 0 \/ declared <= split)
  THEN IF declared = 0 THEN 1 ELSE declared
  ELSE IF split > 0 /\ split <= DocCap THEN split ELSE DocCap

\* declared.div_ceil(size).max(1)
NParts(declared, size) ==
  IF declared = 0 THEN 1 ELSE (declared + size - 1) \div size

\* new() refuses a plan of more than 64 parts.
Fits(declared, size) == NParts(declared, size) <= MaxParts

Expected(declared, size, i) ==
  IF i + 1 = NParts(declared, size)
  THEN declared - size * (NParts(declared, size) - 1)
  ELSE size

PartStart(size, i) == i * size

\* part_end in init(): the number of bytes received when part i is complete.
PartEnd(declared, size, i) ==
  IF (i + 1) * size < declared THEN (i + 1) * size ELSE declared

\* The part that owns byte `pos` in the streaming upload's router.
OwnerOf(declared, size, pos) ==
  IF pos \div size < NParts(declared, size) - 1
  THEN pos \div size ELSE NParts(declared, size) - 1

=============================================================================
