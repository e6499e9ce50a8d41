-------------------------- MODULE MCConnectionLoop --------------------------
EXTENDS ConnectionLoop
=============================================================================
