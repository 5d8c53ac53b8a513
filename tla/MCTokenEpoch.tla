----------------------------- MODULE MCTokenEpoch -----------------------------
(* One account, a few logouts, logins and restarts. *)
EXTENDS TokenEpoch, TLC
=============================================================================
