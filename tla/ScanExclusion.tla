--------------------------- MODULE ScanExclusion ---------------------------
(***************************************************************************)
(* The scan of a directory tree that also holds files of the program: the  *)
(* index, its lock and its temporaries, and for a managed service the      *)
(* state file, the locks beside it and the endpoint lock.  The scan walks  *)
(* the tree while users, the writer of the index and the service commands  *)
(* change it.                                                              *)
(*                                                                         *)
(* A path is a directory and a name.  A stamp stands for the size and the  *)
(* time of change that the scan records; 0 means that there is no file.    *)
(***************************************************************************)
EXTENDS Naturals

CONSTANTS
    Root, Parent,    \* directories under the root, with their parents
    Excluded,        \* directories whose name the scan policy excludes
    Names, Canonical, \* what every name of a directory leads to
    LockName,        \* `<name>.lock` of every name that has a lock
    Temporaries,     \* the names `.<name>.aifs-tmp-*` for every name
    GivenIndex,      \* the index as the command or the request names it
    GivenArtifacts,  \* the runtime artifacts of the managed service
    Paths,           \* the paths at which there may be files
    MaxChanges       \* bound: how often the tree changes

Dirs == DOMAIN Parent \union {Root}

ASSUME PathAssumption ==
    /\ Paths \subseteq Dirs \X Names
    /\ Root \notin DOMAIN Parent
    /\ \A d \in Dirs : Canonical[d] = d
    /\ MaxChanges \in Nat

\* Every directory is under the root: nothing but all of them holds the root and,
\* with a directory, its children.
ASSUME TreeAssumption ==
    /\ Parent \in [DOMAIN Parent -> Dirs]
    /\ \A S \in SUBSET Dirs :
          Root \in S /\ (\A d \in DOMAIN Parent : Parent[d] \in S => d \in S) => S = Dirs

VARIABLES
    tree,      \* stamps of the files
    managed,   \* whether the scan is made by a managed service
    typed,     \* whether the file system lists the type of an entry with its name
    walking,   \* whether a scan is under way
    todo,      \* directories that it has yet to read
    entries,   \* entries that it has read and not yet looked at
    files,     \* what it has recorded
    failed,    \* whether the last scan has failed
    last,      \* history: what the scan before has recorded
    touched,   \* history: files of users that changed since the scan began
    disturbed, \* history: the same since the scan before it began
    changes

scan == <<walking, todo, entries, files, failed, last>>
history == <<touched, disturbed, changes>>
vars == <<tree, managed, typed, scan, history>>

Records == Paths \X (1 .. MaxChanges + 1)

TypeOK ==
    /\ tree \in [Paths -> 0 .. MaxChanges + 1]
    /\ {managed, typed, walking, failed} \subseteq BOOLEAN
    /\ todo \subseteq Dirs
    /\ entries \subseteq Paths
    /\ files \subseteq Records /\ last \subseteq Records
    /\ touched \subseteq Paths /\ disturbed \subseteq Paths
    /\ changes \in 0 .. MaxChanges

-----------------------------------------------------------------------------
(***************************************************************************)
(* IndexArtifacts                                                          *)
(***************************************************************************)

\* resolve_index_path
Resolved(p) == <<Canonical[p[1]], p[2]>>

Index == Resolved(GivenIndex)
LockOf(p) == <<p[1], LockName[p[2]]>>
Artifacts == IF managed THEN {Resolved(p) : p \in GivenArtifacts} ELSE {}

\* Mutant: a reserved name is reserved in every directory.
MutantInNamespace(p, artifact) == p[2] \in Temporaries[artifact[2]]

InNamespace(p, artifact) == p[1] = artifact[1] /\ p[2] \in Temporaries[artifact[2]]

\* Mutant: only the artifacts are excluded, and not what they are published from.
MutantExcludes(p) == p \in {Index, LockOf(Index)} \union Artifacts \/ InNamespace(p, Index)

Excludes(p) ==
    \/ p \in {Index, LockOf(Index)} \union Artifacts
    \/ \E a \in {Index} \union Artifacts : InNamespace(p, a)

-----------------------------------------------------------------------------
(***************************************************************************)
(* Who changes the tree.                                                   *)
(***************************************************************************)
ActualIndex == <<Canonical[GivenIndex[1]], GivenIndex[2]>>
ActualArtifacts == {<<Canonical[p[1]], p[2]>> : p \in GivenArtifacts}
Beside(p) == {<<p[1], n>> : n \in Temporaries[p[2]]} \intersect Paths

\* Files of the program itself: those of every index command, and those of the
\* managed service.
OfIndex == {ActualIndex, LockOf(ActualIndex)} \union Beside(ActualIndex)
OfService == ActualArtifacts \union UNION {Beside(a) : a \in ActualArtifacts}

\* Those that the scan knows of.
Own == IF managed THEN OfIndex \union OfService ELSE OfIndex

\* A file changes, appears or goes.
Change(ps, stamps) ==
    /\ changes < MaxChanges
    /\ changes' = changes + 1
    /\ tree' = [p \in Paths |-> IF p \in ps THEN stamps[p] ELSE tree[p]]
    /\ LET users == {p \in ps : p \notin Own /\ stamps[p] # tree[p]} IN
          /\ touched' = touched \union users
          /\ disturbed' = disturbed \union users
    /\ UNCHANGED <<managed, typed, scan>>

Fresh == changes + 2

\* Locks are created and stay; the index and the state file come from temporaries.
Published == {a \in {ActualIndex} \union ActualArtifacts : Beside(a) # {}}
AllTemporaries == UNION {Beside(a) : a \in Published}

Creates(p) ==
    /\ p \in ((OfIndex \union OfService) \intersect Paths) \ Published
    /\ tree[p] = 0
    /\ Change({p}, [q \in {p} |-> Fresh])

Publishes(t, a) ==
    /\ a \in Published
    /\ t \in Beside(a)
    /\ tree[t] # 0
    /\ Change({t, a}, [q \in {t, a} |-> IF q = t THEN 0 ELSE tree[t]])

\* A temporary whose write has failed, or the state file of a service that ended.
Removes(p) ==
    /\ p \in AllTemporaries \union (Published \ {ActualIndex})
    /\ tree[p] # 0
    /\ Change({p}, [q \in {p} |-> 0])

UserChanges(p) ==
    /\ p \in Paths \ (OfIndex \union OfService)
    /\ \E stamp \in {0, Fresh} : Change({p}, [q \in {p} |-> stamp])

-----------------------------------------------------------------------------
(***************************************************************************)
(* scan_for_index_with_artifacts                                           *)
(***************************************************************************)
Start ==
    /\ ~walking
    /\ walking' = TRUE
    /\ todo' = {Root}
    /\ entries' = {}
    /\ files' = {}
    /\ failed' = FALSE
    /\ touched' = {}
    /\ last' = IF failed THEN last ELSE files
    /\ disturbed' = IF failed THEN disturbed ELSE touched
    /\ UNCHANGED <<tree, managed, typed, changes>>

\* The order in which a directory lists its entries is arbitrary.  The type of an entry
\* is asked first, which looks at the file itself where the listing does not tell; then
\* one that is excluded is passed over.  An excluded directory is never read.
ReadDirectory(d) ==
    /\ walking
    /\ d \in todo
    /\ entries' = entries \union
          {p \in Paths : p[1] = d /\ tree[p] # 0 /\ (Excludes(p) => ~typed)}
    /\ todo' = (todo \ {d}) \union {e \in DOMAIN Parent : Parent[e] = d /\ e \notin Excluded}
    /\ UNCHANGED <<tree, managed, typed, walking, files, failed, last, history>>

PassOver(p) ==
    /\ walking
    /\ p \in entries
    /\ tree[p] # 0
    /\ Excludes(p)
    /\ entries' = entries \ {p}
    /\ UNCHANGED <<tree, managed, typed, walking, todo, files, failed, last, history>>

Record(p) ==
    /\ walking
    /\ p \in entries
    /\ tree[p] # 0
    /\ ~Excludes(p)
    /\ files' = files \union {<<p, tree[p]>>}
    /\ entries' = entries \ {p}
    /\ UNCHANGED <<tree, managed, typed, walking, todo, failed, last, history>>

\* Neither type nor metadata of a file that has gone can be read: the scan ends.
Vanished(p) ==
    /\ walking
    /\ p \in entries
    /\ tree[p] = 0
    /\ failed' = TRUE
    /\ walking' = FALSE
    /\ UNCHANGED <<tree, managed, typed, todo, entries, files, last, history>>

Finish ==
    /\ walking
    /\ todo = {}
    /\ entries = {}
    /\ walking' = FALSE
    /\ UNCHANGED <<tree, managed, typed, todo, entries, files, failed, last, history>>

Included[d \in Dirs] == d = Root \/ (d \notin Excluded /\ Included[Parent[d]])

ProgramStep ==
    \/ \E p \in Paths : Creates(p) \/ Removes(p)
    \/ \E t, a \in Paths : Publishes(t, a)

ScanStep ==
    \/ Start \/ Finish
    \/ \E d \in Dirs : ReadDirectory(d)
    \/ \E p \in Paths : PassOver(p) \/ Record(p) \/ Vanished(p)

Init ==
    /\ tree \in [Paths -> {0, 1}]
    /\ managed \in BOOLEAN /\ typed \in BOOLEAN
    /\ walking = FALSE /\ failed = FALSE
    /\ todo = {} /\ entries = {}
    /\ files = {} /\ last = {}
    /\ touched = Paths /\ disturbed = Paths
    /\ changes = 0

Next == ScanStep \/ ProgramStep \/ \E p \in Paths : UserChanges(p)

Spec == Init /\ [][Next]_vars

-----------------------------------------------------------------------------
\* Every file that no one changed while the scan walked is recorded as it is, also
\* one that has the name of an artifact in another directory; a file of the program
\* itself never is, wherever the path it was given leads and whatever is created
\* while the scan walks.
UsersFilesRecorded ==
    /\ TypeOK
    /\ \A p \in Own, s \in 1 .. MaxChanges + 1 : <<p, s>> \notin files
    /\ ~walking /\ ~failed =>
          \A p \in Paths \ (touched \union Own), s \in 1 .. MaxChanges + 1 :
              <<p, s>> \in files <=> tree[p] = s /\ Included[p[1]]

\* What the program does to its own files does not show: two scans that succeed, between
\* whose beginning and end no user has changed a file, record the same, though temporaries
\* go while they walk, so a refresh never makes the next one find a change.  And they do
\* succeed, unless the type of a temporary that has gone had to be asked for.
QuietTreeSameScan == ~walking /\ disturbed = {} =>
    /\ failed => ~typed
    /\ ~failed => files = last
=============================================================================
