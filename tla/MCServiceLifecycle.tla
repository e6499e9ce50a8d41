------------------------- MODULE MCServiceLifecycle -------------------------
(***************************************************************************)
(* Instances of ServiceLifecycle for TLC.                                  *)
(***************************************************************************)
EXTENDS ServiceLifecycle, TLC

AllConfigs == [index : Indexes, endpoint : Endpoints]

MCSymmetry == Permutations(Clis) \union Permutations(Children) \union Permutations(Endpoints)
=============================================================================
