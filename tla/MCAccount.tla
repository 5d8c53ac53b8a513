------------------------------ MODULE MCAccount ------------------------------
EXTENDS Account
=============================================================================
