------------------------------- MODULE Container -------------------------------
(***************************************************************************)
(* The container of an encrypted part (crypt.rs): a header with the nonce, *)
(* then the plaintext in blocks, each behind its tag.  The cipher itself   *)
(* is left out: a block opens if and only if it is complete and genuine.   *)
(***************************************************************************)
EXTENDS Integers

CONSTANTS
  HeaderSize,  \* HEADER_SIZE: magic and nonce (34)
  BlockTag,    \* BLOCK_TAG (16)
  BlockData    \* BLOCK_DATA (65536)

ASSUME ContainerAssumption == {HeaderSize, BlockTag, BlockData} \subseteq Nat \ {0}

BlockSize == BlockTag + BlockData

EncryptedSize(plain) ==
  LET residue == plain % BlockData
  IN  HeaderSize + (plain \div BlockData) * BlockSize
        + (IF residue = 0 THEN 0 ELSE BlockTag + residue)

NotAContainer == -1

DecryptedSize(ct) ==
  LET body    == ct - HeaderSize
      residue == body % BlockSize
  IN  IF body < 0 \/ residue \in 1..(BlockTag - 1) THEN NotAContainer
      ELSE (body \div BlockSize) * BlockData + (IF residue = 0 THEN 0 ELSE residue - BlockTag)

\* part_stream: a range that starts skip bytes into the plaintext is read from the
\* start of the block that holds its first byte.
BlockStart(skip) == HeaderSize + (skip \div BlockData) * BlockSize
Intra(skip)      == skip % BlockData

=============================================================================
