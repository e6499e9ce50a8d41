------------------------- MODULE MCIndexPublication -------------------------
(***************************************************************************)
(* Instances of IndexPublication for TLC, and the mapping under which it   *)
(* implements AtomicIndex.                                                 *)
(***************************************************************************)
EXTENDS IndexPublication, TLC

CONSTANTS NoView  \* a reader that has nothing open

ASSUME NoViewAssumption == NoView \notin Snapshots \union {Malformed}

NoForeign == {}

\* Any name of the first counter values may be taken by an unrelated file.
MCForeignNames == Writers \X {0}

MCSymmetry ==
    Permutations(Writers) \union Permutations(Readers) \union Permutations(Inodes)

Published == INSTANCE AtomicIndex WITH
    index <- Index,
    view <- [r \in Readers |-> IF fd[r] = NoFile THEN NoView ELSE data[fd[r]]]

\* To everybody who only sees the index file, the lock, the temporary, the
\* rename and all failures amount to one atomic replacement of a snapshot by
\* one computed from it, and readers hold on to the snapshot they opened.
ImplementsAtomicIndex == Published!Spec
=============================================================================
