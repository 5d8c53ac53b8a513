-------------------------------- MODULE MCLogin --------------------------------
(* One number, a few logins and requests at once, and a short way to the block. *)
EXTENDS Login, TLC

CONSTANTS h1, h2, l1, l2

Symmetry == Permutations({h1, h2}) \union Permutations({l1, l2})

=============================================================================
