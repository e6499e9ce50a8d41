----------------------------- MODULE IndexStatus -----------------------------
(***************************************************************************)
(* `status`, and what `refresh` makes of it: the saved index is loaded     *)
(* (IndexFormat), its records, which a map keeps in path order, are        *)
(* compared with what a scan has found (OrderedComparison), and a refresh  *)
(* saves the scan in the place of the records.                             *)
(*                                                                         *)
(* The tree does not change here; who may write when, and with which root  *)
(* and policy, is in IndexPublication.                                     *)
(***************************************************************************)
EXTENDS Integers, Sequences, FiniteSets, SequencesExt

CONSTANTS
    Cases,      \* snapshots that were saved, each with what a scan then finds
    Documents,  \* texts at the path of the index that something else has written
    NoRoot, Unknown, NoSnapshot

VARIABLES
    text, saved, position, header, files, root, policySeen, exclusionsSeen, exclusions,
    pc,         \* of the loader
    oldFiles, newFiles, oldRead, newRead, left, right, added, updated, removed, unchanged,
    phase,      \* of the comparison
    published   \* whether a refresh has saved what it scanned

Load == INSTANCE IndexFormat
Precedes(a, b) == Load!Before(a, b)
Merge == INSTANCE OrderedComparison

loading == <<text, saved, position, header, files, root, policySeen, exclusionsSeen,
             exclusions, pc>>
merging == <<oldFiles, newFiles, oldRead, newRead, left, right,
             added, updated, removed, unchanged>>
vars == <<loading, merging, phase, published>>

\* Texts, roots and names are sequences of characters, a root possibly with some that are
\* not UTF-8; a scan gives its records in order, and from_user_path has made every path
\* (scanner.rs:134, store.rs:623).
FileData == [size : Nat, time : Nat]
IsPath(p) == p \in Seq(Nat) /\ Load!Normalized(p) = p

IsSnapshot(s) ==
    /\ s.root \in Seq(Nat) \union {NoRoot}
    /\ s.policy # Unknown => IsFiniteSet(s.policy) /\ s.policy \subseteq Seq(Nat)
    /\ IsFiniteSet(DOMAIN s.files) /\ \A p \in DOMAIN s.files : IsPath(p)
    /\ s.files \in [DOMAIN s.files -> FileData]

ASSUME InputsAssumption ==
    /\ \A case \in Cases : /\ IsSnapshot(case.saved)
                          /\ case.scan \in Seq([path : Seq(Nat), data : FileData])
                          /\ Merge!Ordered(case.scan)
                          /\ \A i \in DOMAIN case.scan : IsPath(case.scan[i].path)
    /\ Documents \subseteq Seq(Nat)

InPathOrder(records) ==
    LET paths == Load!InOrder(DOMAIN records)
    IN  [i \in DOMAIN paths |-> [path |-> paths[i], data |-> records[paths[i]]]]

(* replace_all: of records with one path the last one stays. *)
ByPath(records) == [p \in Merge!PathsOf(records) |-> Merge!DataAt(records, p)]

Init ==
    /\ \/ \E case \in Cases :
             saved = case.saved /\ text = Load!Saved(case.saved) /\ newFiles = case.scan
       \/ saved = NoSnapshot /\ text \in Documents /\ newFiles = <<>>
    /\ Load!Init
    /\ Merge!Init
    /\ published = FALSE

Open ==
    /\ Load!Next
    /\ UNCHANGED <<merging, phase, published>>

Compare ==
    /\ pc = "loaded"
    /\ phase = "idle"
    /\ Merge!Start(InPathOrder(files))
    /\ UNCHANGED <<loading, published>>

CompareNext ==
    /\ Merge!Turn
    /\ UNCHANGED <<loading, published>>

Published == ByPath(newFiles)

(* publish_comparison, on request also without a change; then somebody     *)
(* looks again.                                                            *)
Refresh ==
    /\ phase = "done"
    /\ ~published
    /\ root # NoRoot /\ Load!Policy # Unknown
    /\ Load!Replace([root |-> root, policy |-> Load!Policy, files |-> Published])
    /\ published' = TRUE
    /\ phase' = "idle"
    /\ UNCHANGED merging

Next == Open \/ Compare \/ CompareNext \/ Refresh

Spec == Init /\ [][Next]_vars

----------------------------------------------------------------------------

(* What is saved is loaded again, and a damaged scan policy is refused.    *)
SavedIsLoaded == Load!SavedIsLoaded
PolicyFailsClosed == Load!PolicyFailsClosed

(* What status reports is the difference between the index as it was saved *)
(* and the scan, by the definition with maps, at every turn of the merge   *)
(* and whatever duplicates the scan has; it needs no refresh only if both  *)
(* are the same files with the same metadata, and after a refresh it never *)
(* does.                                                                   *)
StatusTrue ==
    /\ Merge!TypeOK
    /\ phase # "idle" => Merge!CountsWhatIsPassed
    /\ phase = "done" => Merge!MatchesCompare
    /\ phase = "done" /\ published /\ (\A p \in DOMAIN saved.files : Load!FitsLine(p)) =>
          ~Merge!HasChanges

(* `status` reports no change of a tree that nobody has touched since the  *)
(* index was saved, whatever the names of its files.                       *)
UntouchedTreeUnchanged ==
    phase = "done" /\ saved # NoSnapshot /\ newFiles = InPathOrder(saved.files) =>
        ~Merge!HasChanges
=============================================================================
