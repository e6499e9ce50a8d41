--------------------------- MODULE MCUnixEndpoint ---------------------------
(***************************************************************************)
(* Instances of UnixEndpoint for TLC.                                      *)
(***************************************************************************)
EXTENDS UnixEndpoint, TLC

MCSymmetry == Permutations(Servers) \union Permutations(StatePaths) \union Permutations(Sockets)
=============================================================================
