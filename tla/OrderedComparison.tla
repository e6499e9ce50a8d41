-------------------------- MODULE OrderedComparison --------------------------
(***************************************************************************)
(* RefreshSummary::compare_ordered: one pass over two sequences of file    *)
(* records in nondecreasing path order, which counts what was added,       *)
(* updated, removed and left unchanged.  Of adjacent records of one path   *)
(* the last one counts; a scan produces them when two names on disk        *)
(* normalise to one path.                                                  *)
(*                                                                         *)
(* One step is one turn of the loop.  IndexStatus says what is compared.   *)
(***************************************************************************)
EXTENDS Integers, Sequences, FiniteSets

CONSTANT Precedes(_, _)  \* the order of normalised paths

VARIABLES
    oldFiles, newFiles,    \* the two inputs: records of a path and its metadata
    oldRead, newRead,      \* how many records the two iterators have given
    left, right,           \* the position of the records at hand, 0 for None
    added, updated, removed, unchanged,
    phase                  \* "idle", "merging" or "done"

inputs == <<oldFiles, newFiles>>
summary == <<added, updated, removed, unchanged>>
vars == <<inputs, oldRead, newRead, left, right, summary, phase>>

Ordered(files) ==
    \A i \in 1 .. Len(files) - 1 :
        files[i].path = files[i + 1].path \/ Precedes(files[i].path, files[i + 1].path)

(* next_last_record, after the first n records of files: the position of   *)
(* the last of the adjacent records with the path of the next one.         *)
NextLast(files, n) ==
    IF n = Len(files)
    THEN 0
    ELSE CHOOSE k \in (n + 1) .. Len(files) :
            /\ \A i \in (n + 1) .. k : files[i].path = files[n + 1].path
            /\ k < Len(files) => files[k + 1].path # files[n + 1].path

(* How many records the iterator has given once position k was the answer. *)
Given(files, k) == IF k = 0 THEN Len(files) ELSE k

Init ==
    /\ oldFiles = <<>>
    /\ oldRead = 0 /\ newRead = 0
    /\ left = 0 /\ right = 0
    /\ added = 0 /\ updated = 0 /\ removed = 0 /\ unchanged = 0
    /\ phase = "idle"

----------------------------------------------------------------------------

Start(old) ==
    /\ phase # "merging"
    /\ phase' = "merging"
    /\ oldFiles' = old
    /\ left' = NextLast(old, 0)
    /\ right' = NextLast(newFiles, 0)
    /\ oldRead' = Given(old, left')
    /\ newRead' = Given(newFiles, right')
    /\ added' = 0 /\ updated' = 0 /\ removed' = 0 /\ unchanged' = 0
    /\ UNCHANGED newFiles

AdvanceOld ==
    /\ left' = NextLast(oldFiles, oldRead)
    /\ oldRead' = Given(oldFiles, left')

\* Mutant: the iterator is not taken past the duplicates.
MutantAdvanceNew ==
    /\ right' = NextLast(newFiles, newRead)
    /\ newRead' = IF right' = 0 THEN Len(newFiles) ELSE newRead + 1

AdvanceNew ==
    /\ right' = NextLast(newFiles, newRead)
    /\ newRead' = Given(newFiles, right')

OldPath == oldFiles[left].path
NewPath == newFiles[right].path
SameMetadata == oldFiles[left].data = newFiles[right].data

Remove ==
    /\ phase = "merging"
    /\ left # 0
    /\ right # 0 => Precedes(OldPath, NewPath)
    /\ removed' = removed + 1
    /\ AdvanceOld
    /\ UNCHANGED <<newRead, right, added, updated, unchanged, inputs, phase>>

Add ==
    /\ phase = "merging"
    /\ right # 0
    /\ left # 0 => Precedes(NewPath, OldPath)
    /\ added' = added + 1
    /\ AdvanceNew
    /\ UNCHANGED <<oldRead, left, updated, removed, unchanged, inputs, phase>>

Match ==
    /\ phase = "merging"
    /\ left # 0
    /\ right # 0
    /\ OldPath = NewPath
    /\ unchanged' = IF SameMetadata THEN unchanged + 1 ELSE unchanged
    /\ updated' = IF SameMetadata THEN updated ELSE updated + 1
    /\ AdvanceOld
    /\ AdvanceNew
    /\ UNCHANGED <<added, removed, inputs, phase>>

Break ==
    /\ phase = "merging"
    /\ left = 0
    /\ right = 0
    /\ phase' = "done"
    /\ UNCHANGED <<oldRead, newRead, left, right, summary, inputs>>

Turn == Remove \/ Add \/ Match \/ Break

HasChanges == added # 0 \/ updated # 0 \/ removed # 0

----------------------------------------------------------------------------
(* RefreshSummary::compare, the comparison by maps from path to record in  *)
(* which a later record replaces an earlier one.                           *)

PathsOf(files) == {files[i].path : i \in DOMAIN files}

DataAt(files, p) ==
    LET last == CHOOSE i \in DOMAIN files :
                    /\ files[i].path = p
                    /\ \A j \in DOMAIN files : files[j].path = p => j <= i
    IN  files[last].data

Common == PathsOf(oldFiles) \intersect PathsOf(newFiles)
Altered == {p \in Common : DataAt(oldFiles, p) # DataAt(newFiles, p)}

Compare ==
    <<Cardinality(PathsOf(newFiles) \ PathsOf(oldFiles)),
      Cardinality(Altered),
      Cardinality(PathsOf(oldFiles) \ PathsOf(newFiles)),
      Cardinality(Common \ Altered)>>

----------------------------------------------------------------------------

TypeOK ==
    /\ Ordered(oldFiles)
    /\ Ordered(newFiles)
    /\ left \in 0 .. Len(oldFiles)
    /\ right \in 0 .. Len(newFiles)
    /\ oldRead = Given(oldFiles, left)
    /\ phase # "idle" => newRead = Given(newFiles, right)
    /\ summary \in Nat \X Nat \X Nat \X Nat
    /\ phase \in {"idle", "merging", "done"}

(* The paths counted so far: those before the records at hand. *)
Passed(files, k) == {files[i].path : i \in {i \in DOMAIN files :
                        k = 0 \/ Precedes(files[i].path, files[k].path)}}

(* At every turn the counts are those of the comparison by maps for the    *)
(* paths that both sides have passed, and no path that one side has passed *)
(* is still to come on the other: a step too many on either side, after    *)
(* any run of duplicates, would shift everything that follows.             *)
CountsWhatIsPassed ==
    LET oldPassed == Passed(oldFiles, left)
        newPassed == Passed(newFiles, right)
    IN  /\ removed = Cardinality(oldPassed \ PathsOf(newFiles))
        /\ added = Cardinality(newPassed \ PathsOf(oldFiles))
        /\ unchanged = Cardinality((oldPassed \intersect newPassed) \ Altered)
        /\ updated = Cardinality(oldPassed \intersect newPassed \intersect Altered)
        /\ oldPassed \intersect PathsOf(newFiles) \subseteq newPassed
        /\ newPassed \intersect PathsOf(oldFiles) \subseteq oldPassed

(* The result is that of the comparison by maps, and it reports no change  *)
(* only if both sides are the same files with the same metadata: what a    *)
(* save that is skipped for it leaves in the index is what the scan found. *)
MatchesCompare ==
    /\ summary = Compare
    /\ ~HasChanges =>
          /\ PathsOf(oldFiles) = PathsOf(newFiles)
          /\ \A p \in PathsOf(newFiles) : DataAt(oldFiles, p) = DataAt(newFiles, p)
=============================================================================
