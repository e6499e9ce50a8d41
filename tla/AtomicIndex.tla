---------------------------- MODULE AtomicIndex ----------------------------
(***************************************************************************)
(* What an index destination promises to every process that uses it: one   *)
(* snapshot at a time, replaced as a whole, and a reader that keeps the    *)
(* snapshot it opened for as long as it reads.  There is no lock, no       *)
(* temporary file and no failure here: IndexPublication implements this    *)
(* specification with them.                                                *)
(***************************************************************************)
EXTENDS Integers

CONSTANTS
    Readers,     \* processes that load the index without a lock
    Roots,       \* directories an index can describe
    NoRoot,      \* an index without a root record
    Policies,    \* sets of excluded names a scan can use
    Unknown,     \* an index without a scan-policy record
    MaxVersion,  \* bound: how often the scanned tree changes
    Absent,      \* there is no index file
    Malformed,   \* an index file whose metadata the parser rejects
    NoView       \* a reader that has nothing open

(***************************************************************************)
(* A snapshot is its two metadata records and what its file records        *)
(* stand for: which tree was scanned, under which policy, and when.        *)
(***************************************************************************)
Snapshots == [root : Roots \union {NoRoot}, policy : Policies \union {Unknown},
              scanRoot : Roots, scanPolicy : Policies, version : 0 .. MaxVersion]

\* The records of a snapshot of known scope are those of a scan of that scope.
Truthful(s) == s.policy # Unknown => s.scanPolicy = s.policy /\ s.scanRoot = s.root

VARIABLES
    index,  \* the published snapshot, Absent or Malformed
    view    \* what each reader has open

vars == <<index, view>>

Init ==
    /\ index \in {s \in Snapshots : Truthful(s)} \union {Absent, Malformed}
    /\ view = [r \in Readers |-> NoView]

\* No snapshot is replaced by the result of an older scan.
NotOlder(s) == index \in Snapshots => index.version <= s.version

\* An explicit build: it needs nothing of the previous index and fixes the scope.
Rebuild(s) ==
    /\ s.root # NoRoot
    /\ s.policy # Unknown
    /\ Truthful(s)
    /\ NotOlder(s)
    /\ index' = s
    /\ UNCHANGED view

\* A refresh: it keeps a known scope and never makes an unknown policy known.
Update(s) ==
    /\ index # Malformed
    /\ s.root # NoRoot
    /\ Truthful(s)
    /\ NotOlder(s)
    /\ s.policy = IF index \in Snapshots THEN index.policy ELSE Unknown
    /\ (index \in Snapshots /\ index.policy # Unknown /\ index.root # NoRoot)
           => s.root = index.root
    /\ index' = s
    /\ UNCHANGED view

BeginRead(r) ==
    /\ index # Absent
    /\ view[r] = NoView
    /\ view' = [view EXCEPT ![r] = index]
    /\ UNCHANGED index

EndRead(r) ==
    /\ view[r] # NoView
    /\ view' = [view EXCEPT ![r] = NoView]
    /\ UNCHANGED index

Next ==
    \/ \E s \in Snapshots : Rebuild(s) \/ Update(s)
    \/ \E r \in Readers : BeginRead(r) \/ EndRead(r)

Spec == Init /\ [][Next]_vars
=============================================================================
