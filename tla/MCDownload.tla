------------------------------ MODULE MCDownload ------------------------------
\* In plaintext, from byte 2 on the first part has a chunk more than there are workers.
\* (Two of the ranges are refused.)
\* Encrypted, a file of two parts that end with a whole block, and one of a single part
\* whose second and last block is short.  What is left of their containers is less than a
\* tag, less than a header, the header, header and tag; or header and block, alone, with
\* less than a tag or with the next tag.
EXTENDS Download

MCFiles ==
  {[sizes |-> <<9, 2>>, sealed |-> {}, left |-> {1, 6},
    ranges |-> {<<2, 99>>, <<2, 5>>, <<10, 10>>, <<11, 99>>, <<3, 2>>}],
   [sizes |-> <<2, 2>>, sealed |-> {1, 2}, left |-> {1, 2, 3, 5},
    ranges |-> {<<0, 99>>, <<1, 3>>, <<1, 1>>}],
   [sizes |-> <<3>>, sealed |-> {1}, left |-> {7, 8, 9},
    ranges |-> {<<0, 99>>, <<2, 99>>}]}
=============================================================================
