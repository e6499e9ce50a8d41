------------------------ MODULE ScanExclusionProofs ------------------------
(***************************************************************************)
(* Theorems of what a scan finds, for every tree of directories, all names *)
(* and artifacts and any number of changes.                                *)
(*                                                                         *)
(* What the scan excludes is exactly what the program owns; and a file     *)
(* that nobody has touched is recorded, among the entries, or in a         *)
(* directory that is still to be read.                                     *)
(***************************************************************************)
EXTENDS ScanExclusion, TLAPS

Stamps == 1 .. MaxChanges + 1

\* With a directory a closed set has the children that the scan descends into.
Closed(S) == \A e \in DOMAIN Parent : e \notin Excluded /\ Parent[e] \in S => e \in S

\* The directory is to be read, or will be found under one that is.
Awaited(d) == \A S \in SUBSET Dirs : todo \subseteq S /\ Closed(S) => d \in S

\* What is known of the files that nobody has touched since the scan began.
FilesInv == \A p \in Paths \ (touched \union Own), s \in Stamps :
    /\ <<p, s>> \in files => tree[p] = s /\ Included[p[1]]
    /\ tree[p] = s /\ Included[p[1]] => <<p, s>> \in files \/ p \in entries \/ Awaited(p[1])

\* What the walk has before it, and nothing once it has succeeded.
WalkInv ==
    /\ \A d \in todo : Included[d]
    /\ \A p \in entries : /\ Included[p[1]]
                          /\ p \in Own => ~ typed
                          /\ p \notin Own /\ tree[p] = 0 => p \in touched
    /\ ~ walking /\ ~ failed => todo = {} /\ entries = {}

\* Nothing of the program itself is recorded.
OwnInv == \A p \in Own, s \in Stamps : <<p, s>> \notin files /\ <<p, s>> \notin last

\* The scan before recorded what is still there, unless users have changed it.
LastInv ==
    /\ touched \subseteq disturbed
    /\ failed => disturbed # {} \/ ~ typed
    /\ \A p \in Paths \ (disturbed \union Own), s \in Stamps :
          <<p, s>> \in last <=> tree[p] = s /\ Included[p[1]]

IInv == TypeOK /\ FilesInv /\ WalkInv /\ OwnInv /\ LastInv
-----------------------------------------------------------------------------
\* Reachable directories, without recursion: those in every closed set with the root.
LEMMA IncludedExists ==
  \E f : f = [d \in Dirs |-> d = Root \/ (d \notin Excluded /\ f[Parent[d]])]
<1> DEFINE f == [d \in Dirs |-> \A S \in SUBSET Dirs : Root \in S /\ Closed(S) => d \in S]
<1>1. SUFFICES ASSUME NEW d \in Dirs
               PROVE  f[d] <=> d = Root \/ (d \notin Excluded /\ f[Parent[d]])
  <2>1. \A d \in Dirs : f[d] \in BOOLEAN
    OBVIOUS
  <2>2. f = [d \in Dirs |-> f[d]]
    OBVIOUS
  <2>3. \A d \in Dirs : f[d] = (d = Root \/ (d \notin Excluded /\ f[Parent[d]]))
    BY <1>1, <2>1
  <2> HIDE DEF f
  <2>4. f = [d \in Dirs |-> d = Root \/ (d \notin Excluded /\ f[Parent[d]])]
    BY <2>2, <2>3
  <2>5. QED BY <2>4
<1>2. CASE d = Root
  BY <1>2
<1>3. CASE d # Root
  <2>0. d \in DOMAIN Parent /\ Parent[d] \in Dirs
    BY <1>3, TreeAssumption DEF Dirs
  <2>1. ASSUME d \notin Excluded, f[Parent[d]]
        PROVE  f[d]
    BY <2>0, <2>1 DEF Closed
  <2>2. ASSUME f[d]
        PROVE  d \notin Excluded /\ f[Parent[d]]
    <3> SUFFICES ASSUME ~ (d \notin Excluded /\ f[Parent[d]])
                 PROVE  FALSE
      OBVIOUS
    <3> DEFINE T == {e \in Dirs : f[e]} \ {d}
    <3>1. T \in SUBSET Dirs /\ Root \in T
      BY <1>3 DEF Dirs
    <3>2. Closed(T)
      <4>1. SUFFICES ASSUME NEW e \in DOMAIN Parent, e \notin Excluded, Parent[e] \in T
                     PROVE  e \in T
        BY DEF Closed
      <4>2. e # d /\ e \in Dirs
        BY <4>1 DEF Dirs
      <4>3. f[e]
        BY <4>1, <4>2 DEF Closed
      <4>4. QED BY <4>2, <4>3
    <3>3. d \in T
      BY <2>2, <3>1, <3>2
    <3>4. QED BY <3>3
  <2>3. QED BY <1>3, <2>1, <2>2
<1>4. QED BY <1>2, <1>3

\* A directory is included if it is the root, or its policy and its parent allow it.
LEMMA IncludedIs ==
  \A d \in Dirs : Included[d] <=> d = Root \/ (d \notin Excluded /\ Included[Parent[d]])
<1> DEFINE F(f) == [d \in Dirs |-> d = Root \/ (d \notin Excluded /\ f[Parent[d]])]
<1>1. Included = CHOOSE f : f = F(f)
  BY DEF Included
<1>2. Included = F(Included)
  BY <1>1, IncludedExists
<1>3. QED BY <1>2

\* What is included is reached from the root, since the directories are a tree.
LEMMA ReachedFromRoot ==
  ASSUME NEW S \in SUBSET Dirs, Root \in S, Closed(S), NEW d \in Dirs, Included[d]
  PROVE  d \in S
<1> DEFINE T == {e \in Dirs : Included[e] => e \in S}
<1>1. Root \in T
  BY DEF Dirs
<1>2. ASSUME NEW e \in DOMAIN Parent, Parent[e] \in T
      PROVE  e \in T
  <2>1. e \in Dirs /\ e # Root
    BY PathAssumption DEF Dirs
  <2>2. Included[e] => e \notin Excluded /\ Included[Parent[e]]
    BY <2>1, IncludedIs
  <2>3. QED BY <1>2, <2>1, <2>2 DEF Closed
<1>3. T \in SUBSET Dirs
  OBVIOUS
<1>4. T = Dirs
  <2> HIDE DEF T
  <2> QED BY <1>1, <1>2, <1>3, TreeAssumption
<1>5. QED BY <1>4

-----------------------------------------------------------------------------
\* The scan leaves out exactly the files of the program: both resolve the index and
\* the artifacts through links, and a temporary belongs to a name of its directory.
LEMMA ExcludesOwn == \A p \in Paths : Excludes(p) <=> p \in Own
<1> SUFFICES ASSUME NEW p \in Paths
             PROVE  Excludes(p) <=> p \in Own
  OBVIOUS
<1>1. p = <<p[1], p[2]>>
  BY PathAssumption
<1>2. Index = ActualIndex /\ Artifacts = IF managed THEN ActualArtifacts ELSE {}
  BY DEF Index, ActualIndex, Artifacts, ActualArtifacts, Resolved
<1>3. \A a : InNamespace(p, a) <=> p \in Beside(a)
  BY <1>1 DEF InNamespace, Beside
<1>4. QED
  BY <1>2, <1>3 DEF Excludes, Own, OfIndex, OfService

\* A change adds to the touched files those of users that are no longer the same.
LEMMA ChangeLemma ==
  ASSUME TypeOK, NEW ps \in SUBSET Paths, NEW stamps, Change(ps, stamps),
         \A p \in ps : stamps[p] \in 0 .. MaxChanges + 1
  PROVE  /\ TypeOK'
         /\ UNCHANGED <<managed, typed, walking, todo, entries, files, failed, last>> /\ Own' = Own
         /\ \E users \in SUBSET Paths :
               /\ touched' = touched \union users /\ disturbed' = disturbed \union users
               /\ \A p \in Paths \ Own : tree'[p] # tree[p] => p \in users
<1> DEFINE users == {p \in ps : p \notin Own /\ stamps[p] # tree[p]}
<1>1. /\ touched' = touched \union users /\ disturbed' = disturbed \union users
      /\ UNCHANGED <<managed, typed, walking, todo, entries, files, failed, last>>
      /\ tree' = [p \in Paths |-> IF p \in ps THEN stamps[p] ELSE tree[p]]
      /\ changes' = changes + 1 /\ changes < MaxChanges
  BY DEF Change, scan
<1>2. Own' = Own
  BY <1>1 DEF Own, OfIndex, OfService
<1>3. users \in SUBSET Paths /\ \A p \in Paths \ Own : tree'[p] # tree[p] => p \in users
  BY <1>1
<1>4. TypeOK'
  <2>1. changes' \in 0 .. MaxChanges
    BY <1>1, PathAssumption DEF TypeOK
  <2>2. tree' \in [Paths -> 0 .. MaxChanges + 1]
    BY <1>1 DEF TypeOK
  <2>3. QED BY <1>1, <1>3, <2>1, <2>2 DEF TypeOK, Records
<1>5. QED
  <2> HIDE DEF users
  <2> QED BY <1>1, <1>2, <1>3, <1>4

\* The program and its users change the tree and nothing of the scan.
ChangesTree == \E ps \in SUBSET Paths : \E stamps :
    Change(ps, stamps) /\ \A p \in ps : stamps[p] \in 0 .. MaxChanges + 1

LEMMA OthersChange ==
  ASSUME TypeOK, ProgramStep \/ \E p \in Paths : UserChanges(p)
  PROVE  ChangesTree
<1>0. ASSUME NEW ps, NEW stamps, Change(ps, stamps)
      PROVE  0 \in 0 .. MaxChanges + 1 /\ Fresh \in 0 .. MaxChanges + 1
  BY <1>0, PathAssumption DEF TypeOK, Change, Fresh
<1>1. ASSUME NEW p \in Paths, NEW n, Change({p}, [q \in {p} |-> n]), n \in {0, Fresh}
      PROVE  ChangesTree
  <2>1. \A q \in {p} : [r \in {p} |-> n][q] \in 0 .. MaxChanges + 1
    BY <1>0, <1>1
  <2>2. QED BY <1>1, <2>1 DEF ChangesTree
<1>2. ASSUME NEW t \in Paths, NEW a \in Paths, Publishes(t, a)
      PROVE  ChangesTree
  <2> DEFINE stamps == [q \in {t, a} |-> IF q = t THEN 0 ELSE tree[t]]
  <2>1. Change({t, a}, stamps)
    BY <1>2 DEF Publishes
  <2>2. \A q \in {t, a} : stamps[q] \in 0 .. MaxChanges + 1
    BY <1>0, <2>1 DEF TypeOK
  <2>3. {t, a} \in SUBSET Paths
    OBVIOUS
  <2>4. QED
    <3> HIDE DEF stamps
    <3> QED BY <2>1, <2>2, <2>3 DEF ChangesTree
<1>3. ASSUME NEW p \in Paths, Creates(p) \/ Removes(p)
      PROVE  ChangesTree
  BY <1>1, <1>3 DEF Creates, Removes
<1>4. ASSUME NEW p \in Paths, UserChanges(p)
      PROVE  ChangesTree
  BY <1>1, <1>4 DEF UserChanges
<1>5. QED BY <1>2, <1>3, <1>4 DEF ProgramStep

\* What is known of untouched files stays true when others change the tree.
LEMMA ChangeKeeps ==
  ASSUME IInv, ChangesTree
  PROVE  IInv'
<1>0. PICK ps \in SUBSET Paths : \E stamps :
         Change(ps, stamps) /\ \A p \in ps : stamps[p] \in 0 .. MaxChanges + 1
  BY DEF ChangesTree
<1>1. PICK stamps : Change(ps, stamps) /\ \A p \in ps : stamps[p] \in 0 .. MaxChanges + 1
  BY <1>0
<1>2. /\ TypeOK'
      /\ UNCHANGED <<managed, typed, walking, todo, entries, files, failed, last>> /\ Own' = Own
  BY <1>1, ChangeLemma DEF IInv
<1>3. PICK users \in SUBSET Paths :
         /\ touched' = touched \union users /\ disturbed' = disturbed \union users
         /\ \A p \in Paths \ Own : tree'[p] # tree[p] => p \in users
  BY <1>1, ChangeLemma DEF IInv
<1>4. FilesInv'
  <2>1. \A d : Awaited(d)' <=> Awaited(d)
    BY <1>2 DEF Awaited
  <2>2. \A p \in Paths \ (touched' \union Own') :
           p \in Paths \ (touched \union Own) /\ tree'[p] = tree[p]
    BY <1>2, <1>3
  <2>3. FilesInv
    BY DEF IInv
  <2>4. QED BY <1>2, <2>1, <2>2, <2>3 DEF FilesInv
<1>5. WalkInv'
  <2>1. \A p \in entries : p \in Paths /\ (p \notin Own /\ tree'[p] = 0 => p \in touched')
    BY <1>3 DEF IInv, TypeOK, WalkInv
  <2>2. QED BY <1>2, <2>1 DEF IInv, WalkInv
<1>6. OwnInv'
  BY <1>2 DEF IInv, OwnInv
<1>7. LastInv'
  BY <1>2, <1>3 DEF IInv, LastInv
<1>8. QED BY <1>2, <1>4, <1>5, <1>6, <1>7 DEF IInv

-----------------------------------------------------------------------------
\* A new scan has everything before it, and keeps what the last one has found.
LEMMA StartKeeps ==
  ASSUME IInv, Start
  PROVE  IInv'
<1>0. /\ ~ walking /\ walking' = TRUE /\ todo' = {Root} /\ entries' = {} /\ files' = {}
      /\ failed' = FALSE /\ touched' = {}
      /\ last' = IF failed THEN last ELSE files
      /\ disturbed' = IF failed THEN disturbed ELSE touched
      /\ UNCHANGED <<tree, managed, typed, changes>> /\ Own' = Own
  BY DEF Start, Own, OfIndex, OfService
<1>1. Root \in Dirs /\ Included[Root]
  BY IncludedIs DEF Dirs
<1>2. TypeOK'
  BY <1>0, <1>1 DEF IInv, TypeOK
<1>3. FilesInv'
  <2>1. \A p \in Paths : Included[p[1]] => Awaited(p[1])'
    <3>1. SUFFICES ASSUME NEW p \in Paths, Included[p[1]], NEW S \in SUBSET Dirs,
                          Root \in S, Closed(S)
                   PROVE  p[1] \in S
      BY <1>0 DEF Awaited
    <3>2. p[1] \in Dirs
      BY PathAssumption
    <3>3. QED BY <3>1, <3>2, ReachedFromRoot
  <2>2. QED BY <1>0, <2>1 DEF FilesInv
<1>4. WalkInv'
  BY <1>0, <1>1 DEF WalkInv
<1>5. OwnInv'
  BY <1>0 DEF IInv, OwnInv
<1>6. LastInv'
  <2>1. CASE failed
    BY <1>0, <2>1 DEF IInv, LastInv
  <2>2. CASE ~ failed
    <3>1. todo = {} /\ entries = {}
      BY <1>0, <2>2 DEF IInv, WalkInv
    <3>2. \A d : ~ Awaited(d)
      BY <3>1 DEF Awaited, Closed
    <3>3. QED BY <1>0, <2>2, <3>1, <3>2 DEF IInv, FilesInv, LastInv
  <2>3. QED BY <2>1, <2>2
<1>7. QED BY <1>2, <1>3, <1>4, <1>5, <1>6 DEF IInv

\* What was awaited of a directory is among its entries or under its children.
LEMMA ReadKeeps ==
  ASSUME IInv, NEW d \in Dirs, ReadDirectory(d)
  PROVE  IInv'
<1>0. /\ walking /\ d \in todo
      /\ entries' = entries \union
            {p \in Paths : p[1] = d /\ tree[p] # 0 /\ (Excludes(p) => ~typed)}
      /\ todo' = (todo \ {d}) \union {e \in DOMAIN Parent : Parent[e] = d /\ e \notin Excluded}
      /\ UNCHANGED <<tree, managed, typed, walking, files, failed, last>>
      /\ UNCHANGED <<touched, disturbed, changes>>
      /\ Own' = Own
  BY DEF ReadDirectory, history, Own, OfIndex, OfService
<1>1. TypeOK'
  BY <1>0 DEF IInv, TypeOK, Dirs
<1>2. ASSUME NEW x \in Dirs, Awaited(x), x # d
      PROVE  Awaited(x)'
  <2>1. SUFFICES ASSUME NEW S \in SUBSET Dirs, todo' \subseteq S, Closed(S)
                 PROVE  x \in S
    BY DEF Awaited
  <2>2. todo \subseteq S \union {d} /\ Closed(S \union {d})
    BY <1>0, <2>1 DEF Closed
  <2>3. x \in S \union {d}
    BY <1>2, <2>2 DEF Awaited
  <2>4. QED BY <1>2, <2>3
<1>3. \A p \in Paths : p \in entries' <=>
         p \in entries \/ (p[1] = d /\ tree[p] # 0 /\ (p \in Own => ~ typed))
  BY <1>0, ExcludesOwn
<1>4. FilesInv'
  <2>1. SUFFICES ASSUME NEW p \in Paths, p \notin touched, p \notin Own, NEW s \in Stamps
                 PROVE  /\ <<p, s>> \in files => tree[p] = s /\ Included[p[1]]
                        /\ tree[p] = s /\ Included[p[1]] =>
                              <<p, s>> \in files \/ p \in entries' \/ Awaited(p[1])'
    BY <1>0 DEF FilesInv
  <2>2. p[1] \in Dirs /\ s # 0
    BY PathAssumption DEF Stamps
  <2>3. QED BY <1>2, <1>3, <2>1, <2>2 DEF IInv, FilesInv
<1>5. WalkInv'
  <2>1. Included[d]
    BY <1>0 DEF IInv, WalkInv
  <2>2. \A e \in todo' : Included[e]
    <3>1. ASSUME NEW e \in DOMAIN Parent, Parent[e] = d, e \notin Excluded
          PROVE  Included[e]
      BY <2>1, <3>1, IncludedIs DEF Dirs
    <3>2. QED BY <1>0, <3>1 DEF IInv, WalkInv
  <2>3. \A p \in entries' : /\ Included[p[1]]
                            /\ p \in Own => ~ typed
                            /\ p \notin Own /\ tree[p] = 0 => p \in touched
    BY <1>0, <1>1, <1>3, <2>1 DEF IInv, WalkInv, TypeOK
  <2>4. QED BY <1>0, <2>2, <2>3 DEF WalkInv
<1>6. OwnInv' /\ LastInv'
  BY <1>0 DEF IInv, OwnInv, LastInv
<1>7. QED BY <1>1, <1>4, <1>5, <1>6 DEF IInv

LEMMA PassKeeps ==
  ASSUME IInv, NEW p \in Paths, PassOver(p)
  PROVE  IInv'
<1>0. /\ walking /\ p \in Own /\ entries' = entries \ {p}
      /\ UNCHANGED <<tree, managed, typed, walking, todo, files, failed, last>>
      /\ UNCHANGED <<touched, disturbed, changes>> /\ Own' = Own
  BY ExcludesOwn DEF PassOver, history, Own, OfIndex, OfService
<1>1. TypeOK' /\ WalkInv' /\ OwnInv' /\ LastInv'
  BY <1>0 DEF IInv, TypeOK, WalkInv, OwnInv, LastInv
<1>2. FilesInv'
  <2>1. \A d : Awaited(d)' <=> Awaited(d)
    BY <1>0 DEF Awaited
  <2>2. QED BY <1>0, <2>1 DEF IInv, FilesInv
<1>3. QED BY <1>1, <1>2 DEF IInv

LEMMA RecordKeeps ==
  ASSUME IInv, NEW p \in Paths, Record(p)
  PROVE  IInv'
<1>0. /\ walking /\ p \in entries /\ tree[p] # 0 /\ p \notin Own
      /\ files' = files \union {<<p, tree[p]>>} /\ entries' = entries \ {p}
      /\ UNCHANGED <<tree, managed, typed, walking, todo, failed, last>>
      /\ UNCHANGED <<touched, disturbed, changes>>
      /\ Own' = Own
  BY ExcludesOwn DEF Record, history, Own, OfIndex, OfService
<1>1. tree[p] \in Stamps /\ Included[p[1]] /\ p \notin Own
  BY <1>0, PathAssumption DEF IInv, TypeOK, WalkInv, Stamps
<1>2. TypeOK'
  BY <1>0, <1>1 DEF IInv, TypeOK, Records, Stamps
<1>3. \A q, s : <<q, s>> \in files' <=> <<q, s>> \in files \/ (q = p /\ s = tree[p])
  BY <1>0
<1>4. FilesInv'
  <2>1. \A d : Awaited(d)' <=> Awaited(d)
    BY <1>0 DEF Awaited
  <2>2. QED BY <1>0, <1>1, <1>3, <2>1 DEF IInv, FilesInv
<1>5. WalkInv'
  BY <1>0 DEF IInv, WalkInv
<1>6. OwnInv' /\ LastInv'
  BY <1>0, <1>1, <1>3 DEF IInv, OwnInv, LastInv
<1>7. QED BY <1>2, <1>4, <1>5, <1>6 DEF IInv

\* A scan fails only because of a file that a user has taken away, or has gone before its
\* type was asked.
LEMMA EndKeeps ==
  ASSUME IInv, Finish \/ \E p \in Paths : Vanished(p)
  PROVE  IInv'
<1>0. /\ UNCHANGED <<tree, managed, typed, todo, entries, files, last, touched, disturbed, changes>>
      /\ walking' = FALSE /\ Own' = Own
      /\ \/ todo = {} /\ entries = {} /\ failed' = failed
         \/ failed' = TRUE /\ \E p \in Paths : p \in entries /\ tree[p] = 0
  BY DEF Finish, Vanished, history, Own, OfIndex, OfService
<1>1. TypeOK'
  BY <1>0 DEF IInv, TypeOK
<1>2. FilesInv'
  <2>1. \A d : Awaited(d)' <=> Awaited(d)
    BY <1>0 DEF Awaited
  <2>2. QED BY <1>0, <2>1 DEF IInv, FilesInv
<1>3. WalkInv' /\ OwnInv'
  BY <1>0 DEF IInv, WalkInv, OwnInv
<1>4. LastInv'
  <2>1. failed' => disturbed # {} \/ ~ typed
    BY <1>0 DEF IInv, WalkInv, LastInv
  <2>2. QED BY <1>0, <2>1 DEF IInv, LastInv
<1>5. QED BY <1>1, <1>2, <1>3, <1>4 DEF IInv

-----------------------------------------------------------------------------
LEMMA Initially == Init => IInv
<1> SUFFICES ASSUME Init
             PROVE  IInv
  OBVIOUS
<1>1. TypeOK
  <2>1. MaxChanges \in Nat /\ {0, 1} \subseteq 0 .. MaxChanges + 1 /\ 0 \in 0 .. MaxChanges
    BY PathAssumption
  <2>2. tree \in [Paths -> 0 .. MaxChanges + 1]
    BY <2>1 DEF Init
  <2>3. QED BY <2>1, <2>2 DEF Init, TypeOK
<1>2. FilesInv /\ WalkInv /\ OwnInv /\ LastInv
  BY DEF Init, FilesInv, WalkInv, OwnInv, LastInv
<1>3. QED BY <1>1, <1>2 DEF IInv

LEMMA Inductive == IInv /\ [Next]_vars => IInv'
<1> SUFFICES ASSUME IInv, [Next]_vars
             PROVE  IInv'
  OBVIOUS
<1>1. CASE UNCHANGED vars
  <2>1. /\ UNCHANGED <<tree, managed, typed, walking, todo, entries, files, failed, last>>
        /\ UNCHANGED <<touched, disturbed, changes>> /\ Own' = Own
    BY <1>1 DEF vars, scan, history, Own, OfIndex, OfService
  <2>2. \A d : Awaited(d)' <=> Awaited(d)
    BY <2>1 DEF Awaited
  <2>3. TypeOK' /\ FilesInv'
    BY <2>1, <2>2 DEF IInv, TypeOK, FilesInv
  <2>4. WalkInv' /\ OwnInv' /\ LastInv'
    BY <2>1 DEF IInv, WalkInv, OwnInv, LastInv
  <2>5. QED BY <2>3, <2>4 DEF IInv
<1>2. CASE ScanStep
  BY <1>2, StartKeeps, ReadKeeps, PassKeeps, RecordKeeps, EndKeeps DEF ScanStep
<1>3. CASE ProgramStep \/ \E p \in Paths : UserChanges(p)
  BY <1>3, OthersChange, ChangeKeeps DEF IInv
<1>4. QED BY <1>1, <1>2, <1>3 DEF Next

LEMMA Invariance == Spec => []IInv
BY Initially, Inductive, PTL DEF Spec

-----------------------------------------------------------------------------
\* A scan that succeeds has recorded every file that nobody touched meanwhile, as it
\* is, and never a file of the program (scan_for_index_with_artifacts, scanner.rs).
THEOREM UsersRecorded == Spec => []UsersFilesRecorded
<1>1. IInv => UsersFilesRecorded
  <2> SUFFICES ASSUME IInv
               PROVE  UsersFilesRecorded
    OBVIOUS
  <2>1. ASSUME ~ walking, ~ failed
        PROVE  \A p \in Paths \ (touched \union Own), s \in 1 .. MaxChanges + 1 :
                  <<p, s>> \in files <=> tree[p] = s /\ Included[p[1]]
    <3>1. todo = {} /\ entries = {}
      BY <2>1 DEF IInv, WalkInv
    <3>2. \A d : ~ Awaited(d)
      BY <3>1 DEF Awaited, Closed
    <3>3. QED BY <3>1, <3>2 DEF IInv, FilesInv, Stamps
  <2>2. QED BY <2>1 DEF IInv, OwnInv, Stamps, UsersFilesRecorded
<1>2. QED BY <1>1, Invariance, PTL

\* Two successful scans without a change by users from the beginning of the one to the
\* end of the other record the same, whatever the program did to its files; and none
\* fails, unless it had to ask for a type.
THEOREM QuietScans == Spec => []QuietTreeSameScan
<1>1. IInv => QuietTreeSameScan
  <2> SUFFICES ASSUME IInv, ~ walking, disturbed = {}
               PROVE  (failed => ~ typed) /\ (~ failed => files = last)
    BY DEF QuietTreeSameScan
  <2>1. (failed => ~ typed) /\ touched = {}
    BY DEF IInv, LastInv
  <2>2. ASSUME ~ failed
        PROVE  files = last
    <3>1. todo = {} /\ entries = {}
      BY <2>2 DEF IInv, WalkInv
    <3>2. \A d : ~ Awaited(d)
      BY <3>1 DEF Awaited, Closed
    <3>3. \A p \in Paths, s \in Stamps : <<p, s>> \in files <=> <<p, s>> \in last
      BY <2>1, <3>1, <3>2 DEF IInv, FilesInv, OwnInv, LastInv
    <3>4. files \subseteq Paths \X Stamps /\ last \subseteq Paths \X Stamps
      BY DEF IInv, TypeOK, Records, Stamps
    <3>5. \A r \in Paths \X Stamps : r \in files <=> r \in last
      BY <3>3
    <3>6. QED BY <3>4, <3>5
  <2>3. QED BY <2>1, <2>2
<1>2. QED BY <1>1, Invariance, PTL
=============================================================================
