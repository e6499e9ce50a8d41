----------------------- MODULE IndexPublicationProofs -----------------------
(***************************************************************************)
(* Theorems of IndexPublication for every number of processes, roots,      *)
(* policies, files and attempts.  The argument is the one the code's       *)
(* borrow of the guard makes: from acquire to drop a writer is the only    *)
(* process that changes the directory, so what it loaded, scanned and      *)
(* wrote is still there when it renames.                                   *)
(*                                                                         *)
(* At the end, that IndexPublication implements AtomicIndex: the rename is *)
(* the one step that replaces the snapshot, opening and closing a file are *)
(* the reads, and every other step, each failure and each crash included,  *)
(* is a stutter.                                                           *)
(***************************************************************************)
EXTENDS MCIndexPublication, TLAPS

\* Labels between acquire and the drop of the guard; Working ones have a job.
Working == {"open", "scan", "create", "write", "rename", "release"}
Saving == {"create", "write", "rename"}

\* Who holds the lock, and the counters that name the temporaries.
LockInv ==
    /\ WriterExclusion
    /\ \A w \in Writers :
          /\ pc[w] = "ready" => kind[w] \in {"standalone", "managed"}
          /\ pc[w] = "open" => kind[w] # "index"
          /\ pc[w] \in {"acquire", "open", "scan"} => tries[w] = 0
          /\ pc[w] \in {"off", "ready"} => tries[w] = 0
          /\ pc[w] = "off" => nextId[w] = 0
          /\ pc[w] = "acquire" => nextId[w] + Attempts <= MaxId + 1
          /\ pc[w] \in {"open", "scan", "create"} =>
                nextId[w] + Attempts <= MaxId + 1 + tries[w]
          /\ pc[w] = "create" => tries[w] < Attempts

\* Every name and descriptor refers to a file of its own, and only a finished
\* file has been published or opened.
NamesDistinct ==
    \A m, n \in Names : temps[m] # NoFile /\ temps[m] = temps[n] => m = n

NamesApart ==
    \A n \in Names : temps[n] # NoFile =>
        /\ temps[n] # dest
        /\ \A r \in Readers : temps[n] # fd[r]

FilesReadable ==
    /\ dest # NoFile => data[dest] \in Snapshots \union {Malformed}
    /\ \A r \in Readers : fd[r] # NoFile => data[fd[r]] \in Snapshots \union {Malformed}

OwnTemporary ==
    \A w \in Writers : pc[w] \in {"write", "rename"} =>
        /\ nextId[w] >= 1
        /\ temps[OwnName(w)] # NoFile
        /\ OwnName(w) \notin leftover

LeftoverExists == \A n \in leftover : temps[n] # NoFile

FileInv ==
    NamesDistinct /\ NamesApart /\ FilesReadable /\ OwnTemporary /\ LeftoverExists

\* What the owner of the lock carries from its load of the index to its rename.
RefreshJob(w) ==
    /\ opened[w] = Index
    /\ draft[w] \in Snapshots
    /\ Truthful(draft[w])
    /\ draft[w].policy = PolicyOf(Index)
    /\ PolicyOf(Index) # Unknown => draft[w].root = RootOf(Index)

SaveJob(w) ==
    /\ draft[w] \in Snapshots
    /\ Truthful(draft[w])
    /\ draft[w].version <= version
    /\ Index \in Snapshots => Index.version <= draft[w].version

JobInv ==
    /\ PublishedTruthful
    /\ Index \in Snapshots => Index.version <= version
    /\ \A w \in Writers :
          /\ pc[w] \in {"scan"} \union Saving /\ kind[w] # "index" => RefreshJob(w)
          /\ pc[w] \in Saving => SaveJob(w)
          /\ pc[w] = "rename" => data[temps[OwnName(w)]] = draft[w]

IInv == TypeOK /\ LockInv /\ FileInv /\ JobInv

-----------------------------------------------------------------------------
(***************************************************************************)
(* Facts about the helpers.                                                *)
(***************************************************************************)
\* Reaping changes the contents of no file that still has a name or a
\* descriptor, and is a function on all files.
LEMMA ReapLemma ==
    ASSUME NEW c \in [Inodes -> Snapshots \union {Malformed, Partial, Free}],
           NEW d, NEW names, NEW fds
    PROVE  /\ Reap(c, d, names, fds) \in [Inodes -> Snapshots \union {Malformed, Partial, Free}]
           /\ \A i \in Inodes : (\/ i = d
                                 \/ \E n \in Names : names[n] = i
                                 \/ \E r \in Readers : fds[r] = i)
                 => Reap(c, d, names, fds)[i] = c[i]
BY DEF Reap

\* Two processes are never between acquire and drop at the same time.
LEMMA Exclusion ==
    ASSUME WriterExclusion, NEW v \in Writers, NEW w \in Writers, Critical(v), Critical(w)
    PROVE  v = w
BY DEF WriterExclusion

\* The name a writer has created last is one of its names.
LEMMA OwnNameLemma ==
    ASSUME TypeOK, NEW w \in Writers, nextId[w] >= 1
    PROVE  OwnName(w) \in Names
BY BoundsAssumption DEF OwnName, Names, TypeOK

\* Ending a process keeps the types of what it resets.
LEMMA EndProcessType ==
    ASSUME TypeOK, NEW w \in Writers, EndProcess(w)
    PROVE  /\ lock' \in Writers \union {Nobody}
           /\ pc' \in [Writers -> {"off", "ready", "acquire", "open", "scan", "create",
                                   "write", "rename", "release"}]
           /\ kind' \in [Writers -> Kinds]
           /\ opened' \in [Writers -> Snapshots \union {Absent, NotOpened}]
           /\ draft' \in [Writers -> Snapshots \union {NotOpened}]
           /\ tries' \in [Writers -> 0 .. Attempts]
           /\ nextId' \in [Writers -> 0 .. MaxId + 1]
BY BoundsAssumption DEF TypeOK, EndProcess, ForgetJob, Goto, Kinds

\* Dropping the locals of a request keeps their types.
LEMMA ForgetJobType ==
    ASSUME TypeOK, NEW w \in Writers, ForgetJob(w)
    PROVE  /\ opened' \in [Writers -> Snapshots \union {Absent, NotOpened}]
           /\ draft' \in [Writers -> Snapshots \union {NotOpened}]
           /\ tries' \in [Writers -> 0 .. Attempts]
BY BoundsAssumption DEF TypeOK, ForgetJob

\* What can be loaded is a finished file.
LEMMA IndexType ==
    ASSUME TypeOK, FileInv
    PROVE  Index \in Snapshots \union {Malformed, Absent}
BY DEF FileInv, FilesReadable, Index

\* A step that leaves the published file alone leaves what is loaded alone.
LEMMA IndexFrame ==
    ASSUME UNCHANGED dest, dest # NoFile => data'[dest] = data[dest]
    PROVE  Index' = Index
BY DEF Index

\* A build writes a snapshot of the scope it was asked for, taken now.
LEMMA BuildDraftLemma ==
    ASSUME TypeOK, NEW q \in CliRequests
    PROVE  /\ BuildDraft(q) \in Snapshots
           /\ Truthful(BuildDraft(q))
           /\ BuildDraft(q).version = version
<1>1. q.root \in Roots /\ q.policy \in Policies \union {NoRequest}
  BY DEF CliRequests, Requests
<1>2. QED
  BY <1>1, BoundsAssumption DEF BuildDraft, Snapshots, Truthful, TypeOK

\* A refresh writes a snapshot of the scope it resolved, taken now.
LEMMA RefreshDraftLemma ==
    ASSUME TypeOK, FileInv, JobInv, Index # Malformed,
           NEW k \in Kinds \ {"index"}, NEW q \in RequestsOf(k),
           PolicyAccepted(Index, q), RootAccepted(k, Index, q)
    PROVE  /\ RefreshDraft(Index, q) \in Snapshots
           /\ Truthful(RefreshDraft(Index, q))
           /\ RefreshDraft(Index, q).policy = PolicyOf(Index)
           /\ PolicyOf(Index) # Unknown => RefreshDraft(Index, q).root = RootOf(Index)
<1>1. Index \in Snapshots \union {Absent}
  BY IndexType
<1>2. PolicyOf(Index) \in Policies \union {Unknown} /\ RootOf(Index) \in Roots \union {NoRoot}
  BY <1>1 DEF PolicyOf, RootOf, Snapshots
<1>3. q \in Requests /\ (k = "refresh" => q.root # NoRequest)
  BY DEF RequestsOf, CliRequests
<1>4. q.root \in Roots \union {NoRequest} /\ q.policy \in Policies \union {NoRequest}
  BY <1>3 DEF Requests
<1>5. ResolvedPolicy(Index, q) \in Policies
  BY <1>2, <1>4, BoundsAssumption DEF ResolvedPolicy
<1>6. ResolvedRoot(Index, q) \in Roots
  BY <1>2, <1>3, <1>4 DEF ResolvedRoot, RootAccepted, RpcRootAccepted
<1>7. PolicyOf(Index) # Unknown => ResolvedPolicy(Index, q) = PolicyOf(Index)
  BY DEF ResolvedPolicy
<1>8. PolicyOf(Index) # Unknown => ResolvedRoot(Index, q) = RootOf(Index)
  <2>1. SUFFICES ASSUME PolicyOf(Index) # Unknown
                 PROVE  ResolvedRoot(Index, q) = RootOf(Index)
    OBVIOUS
  <2>2. RootOf(Index) \in Roots
    BY <1>1, <2>1 DEF JobInv, PublishedTruthful, Truthful, PolicyOf, RootOf, Snapshots
  <2>3. QED
    BY <1>3, <2>1, <2>2, BoundsAssumption
       DEF ResolvedRoot, RootAccepted, CliRootAccepted, RpcRootAccepted
<1>9. QED
  BY <1>2, <1>5, <1>6, <1>7, <1>8 DEF RefreshDraft, Snapshots, Truthful, TypeOK

\* No step leaves the types.
LEMMA TypeStep == IInv /\ [Next]_vars => TypeOK'
<1> SUFFICES ASSUME IInv, [Next]_vars
             PROVE  TypeOK'
  OBVIOUS
<1> USE DEF IInv
<1>1. ASSUME NEW w \in Writers, Acquire(w)
      PROVE  TypeOK'
  BY <1>1, BoundsAssumption DEF Acquire, TypeOK, Goto, fileVars, jobVars, vars
<1>2. ASSUME NEW w \in Writers, Busy(w)
      PROVE  TypeOK'
  <2>1. CASE kind[w] = "standalone"
    BY <1>2, <2>1, ForgetJobType DEF Busy, TypeOK, Goto, fileVars
  <2>2. CASE kind[w] # "standalone"
    BY <1>2, <2>2, EndProcessType DEF Busy, TypeOK, fileVars
  <2>3. QED BY <2>1, <2>2
<1>3. ASSUME NEW w \in Writers, Release(w)
      PROVE  TypeOK'
  <2>1. CASE kind[w] \in {"standalone", "managed"}
    BY <1>3, <2>1, ForgetJobType DEF Release, TypeOK, Goto, fileVars
  <2>2. CASE kind[w] \notin {"standalone", "managed"}
    BY <1>3, <2>2, EndProcessType DEF Release, TypeOK, fileVars
  <2>3. QED BY <2>1, <2>2
<1>4. ASSUME NEW w \in Writers, Open(w)
      PROVE  TypeOK'
  <2>1. PICK q \in RequestsOf(kind[w]) :
           /\ PolicyAccepted(Index, q)
           /\ RootAccepted(kind[w], Index, q)
           /\ draft' = [draft EXCEPT ![w] = RefreshDraft(Index, q)]
    BY <1>4 DEF Open
  <2>2. kind[w] \in Kinds \ {"index"} /\ Index # Malformed
    BY <1>4 DEF Open, LockInv, TypeOK
  <2>3. RefreshDraft(Index, q) \in Snapshots
    BY <2>1, <2>2, RefreshDraftLemma
  <2>4. Index \in Snapshots \union {Absent}
    BY <2>2, IndexType
  <2>5. QED
    BY <1>4, <2>1, <2>3, <2>4 DEF Open, TypeOK, Goto, fileVars
<1>5. ASSUME NEW w \in Writers, OpenRefused(w)
      PROVE  TypeOK'
  BY <1>5, BoundsAssumption DEF OpenRefused, TypeOK, Goto, fileVars, jobVars, vars
<1>6. ASSUME NEW w \in Writers, Scan(w)
      PROVE  TypeOK'
  <2>1. CASE kind[w] = "index"
    BY <1>6, <2>1, BuildDraftLemma DEF Scan, TypeOK, Goto, fileVars
  <2>2. CASE kind[w] # "index"
    BY <1>6, <2>2, SMTT(20)
       DEF Scan, TypeOK, Goto, JobInv, SaveJob, RefreshJob, Saving, Snapshots, fileVars
  <2>3. QED BY <2>1, <2>2
<1>7. ASSUME NEW w \in Writers, ScanFails(w)
      PROVE  TypeOK'
  BY <1>7, BoundsAssumption DEF ScanFails, TypeOK, Goto, fileVars, jobVars, vars
<1>8. ASSUME NEW w \in Writers, CreateTemporary(w)
      PROVE  TypeOK'
  BY <1>8, BoundsAssumption
     DEF CreateTemporary, TypeOK, Goto, LockInv, Names, UnusedInodes, fileVars, jobVars, vars
<1>9. ASSUME NEW w \in Writers, Collide(w)
      PROVE  TypeOK'
  BY <1>9, BoundsAssumption
     DEF Collide, TypeOK, Goto, LockInv, Names, UnusedInodes, fileVars, jobVars, vars
<1>10. ASSUME NEW w \in Writers, CreateFails(w)
      PROVE  TypeOK'
  BY <1>10, BoundsAssumption
     DEF CreateFails, TypeOK, Goto, LockInv, Names, UnusedInodes, fileVars, jobVars, vars
<1>11. ASSUME NEW w \in Writers, Write(w)
      PROVE  TypeOK'
  BY <1>11, BoundsAssumption, OwnNameLemma
     DEF Write, TypeOK, Goto, FileInv, OwnTemporary, JobInv, SaveJob, RefreshJob, Saving,
         fileVars, jobVars, vars
<1>12. ASSUME NEW w \in Writers, Rename(w)
      PROVE  TypeOK'
  BY <1>12, BoundsAssumption, ReapLemma, OwnNameLemma
     DEF Rename, TypeOK, Goto, FileInv, OwnTemporary, fileVars, jobVars, vars
<1>13. ASSUME NEW w \in Writers, SaveFails(w)
      PROVE  TypeOK'
  BY <1>13, BoundsAssumption, ReapLemma, OwnNameLemma
     DEF SaveFails, TypeOK, Goto, FileInv, OwnTemporary, fileVars, jobVars, vars
<1>14. ASSUME NEW w \in Writers, StartCommand(w)
      PROVE  TypeOK'
  BY <1>14, BoundsAssumption DEF StartCommand, TypeOK, Goto, Kinds, fileVars, jobVars, vars
<1>15. ASSUME NEW w \in Writers, StartServer(w)
      PROVE  TypeOK'
  BY <1>15, BoundsAssumption DEF StartServer, TypeOK, Goto, Kinds, fileVars, jobVars, vars
<1>16. ASSUME NEW w \in Writers, ServeRefresh(w)
      PROVE  TypeOK'
  BY <1>16, BoundsAssumption DEF ServeRefresh, TypeOK, Goto, fileVars, jobVars, vars
<1>17. ASSUME NEW w \in Writers, StopServer(w)
      PROVE  TypeOK'
  BY <1>17, EndProcessType DEF StopServer, TypeOK, fileVars
<1>18. ASSUME NEW w \in Writers, Crash(w)
      PROVE  TypeOK'
  <2>1. leftover' \subseteq Names
    BY <1>18, OwnNameLemma DEF Crash, TypeOK, FileInv, OwnTemporary
  <2>2. QED BY <1>18, <2>1, EndProcessType DEF Crash, TypeOK
<1>19. ASSUME NEW r \in Readers, OpenIndex(r)
      PROVE  TypeOK'
  BY <1>19, ReapLemma DEF OpenIndex, TypeOK, fileVars, jobVars, vars
<1>20. ASSUME NEW r \in Readers, CloseIndex(r)
      PROVE  TypeOK'
  BY <1>20, ReapLemma DEF CloseIndex, TypeOK, fileVars, jobVars, vars
<1>21. CASE TreeChanges
  BY <1>21, BoundsAssumption DEF TreeChanges, TypeOK, fileVars, jobVars, vars
<1>22. CASE UNCHANGED vars
  BY <1>22 DEF TypeOK, fileVars, jobVars, vars
<1>23. QED
  BY <1>1, <1>2, <1>3, <1>4, <1>5, <1>6, <1>7, <1>8, <1>9, <1>10, <1>11,
     <1>12, <1>13, <1>14, <1>15, <1>16, <1>17, <1>18, <1>19, <1>20, <1>21, <1>22
     DEF Next, Step

\* Every step keeps the lock with the process that is between acquire and drop.
LEMMA LockStep == IInv /\ [Next]_vars => LockInv'
<1> SUFFICES ASSUME IInv, [Next]_vars
             PROVE  LockInv'
  OBVIOUS
<1> USE DEF IInv
<1>1. ASSUME NEW w \in Writers, Acquire(w)
      PROVE  LockInv'
  BY <1>1, BoundsAssumption, SentinelAssumption
  DEF Acquire, Goto, TypeOK, LockInv, WriterExclusion, Critical,
      fileVars, jobVars, vars
<1>2. ASSUME NEW w \in Writers, Busy(w)
      PROVE  LockInv'
  BY <1>2, BoundsAssumption, SentinelAssumption
  DEF Busy, Goto, TypeOK, LockInv, WriterExclusion, Critical, ForgetJob, EndProcess,
      fileVars, jobVars, vars
<1>3. ASSUME NEW w \in Writers, Release(w)
      PROVE  LockInv'
  BY <1>3, BoundsAssumption, SentinelAssumption
  DEF Release, Goto, TypeOK, LockInv, WriterExclusion, Critical, ForgetJob, EndProcess,
      fileVars, jobVars, vars
<1>4. ASSUME NEW w \in Writers, Open(w)
      PROVE  LockInv'
  BY <1>4, BoundsAssumption, SentinelAssumption
  DEF Open, Goto, TypeOK, LockInv, WriterExclusion, Critical,
      fileVars, jobVars, vars
<1>5. ASSUME NEW w \in Writers, OpenRefused(w)
      PROVE  LockInv'
  BY <1>5, BoundsAssumption, SentinelAssumption
  DEF OpenRefused, Goto, TypeOK, LockInv, WriterExclusion, Critical,
      fileVars, jobVars, vars
<1>6. ASSUME NEW w \in Writers, Scan(w)
      PROVE  LockInv'
  BY <1>6, BoundsAssumption, SentinelAssumption
  DEF Scan, Goto, TypeOK, LockInv, WriterExclusion, Critical,
      fileVars, jobVars, vars
<1>7. ASSUME NEW w \in Writers, ScanFails(w)
      PROVE  LockInv'
  BY <1>7, BoundsAssumption, SentinelAssumption
  DEF ScanFails, Goto, TypeOK, LockInv, WriterExclusion, Critical,
      fileVars, jobVars, vars
<1>8. ASSUME NEW w \in Writers, CreateTemporary(w)
      PROVE  LockInv'
  BY <1>8, BoundsAssumption, SentinelAssumption
  DEF CreateTemporary, Goto, TypeOK, LockInv, WriterExclusion, Critical,
      fileVars, jobVars, vars
<1>9. ASSUME NEW w \in Writers, Collide(w)
      PROVE  LockInv'
  BY <1>9, BoundsAssumption, SentinelAssumption
  DEF Collide, Goto, TypeOK, LockInv, WriterExclusion, Critical,
      fileVars, jobVars, vars
<1>10. ASSUME NEW w \in Writers, CreateFails(w)
      PROVE  LockInv'
  BY <1>10, BoundsAssumption, SentinelAssumption
  DEF CreateFails, Goto, TypeOK, LockInv, WriterExclusion, Critical,
      fileVars, jobVars, vars
<1>11. ASSUME NEW w \in Writers, Write(w)
      PROVE  LockInv'
  BY <1>11, BoundsAssumption, SentinelAssumption
  DEF Write, Goto, TypeOK, LockInv, WriterExclusion, Critical,
      fileVars, jobVars, vars
<1>12. ASSUME NEW w \in Writers, Rename(w)
      PROVE  LockInv'
  BY <1>12, BoundsAssumption, SentinelAssumption
  DEF Rename, Goto, TypeOK, LockInv, WriterExclusion, Critical,
      fileVars, jobVars, vars
<1>13. ASSUME NEW w \in Writers, SaveFails(w)
      PROVE  LockInv'
  BY <1>13, BoundsAssumption, SentinelAssumption
  DEF SaveFails, Goto, TypeOK, LockInv, WriterExclusion, Critical,
      fileVars, jobVars, vars
<1>14. ASSUME NEW w \in Writers, StartCommand(w)
      PROVE  LockInv'
  BY <1>14, BoundsAssumption, SentinelAssumption
  DEF StartCommand, Goto, TypeOK, LockInv, WriterExclusion, Critical, Running,
      fileVars, jobVars, vars
<1>15. ASSUME NEW w \in Writers, StartServer(w)
      PROVE  LockInv'
  BY <1>15, BoundsAssumption, SentinelAssumption
  DEF StartServer, Goto, TypeOK, LockInv, WriterExclusion, Critical, Running,
      fileVars, jobVars, vars
<1>16. ASSUME NEW w \in Writers, ServeRefresh(w)
      PROVE  LockInv'
  BY <1>16, BoundsAssumption, SentinelAssumption
  DEF ServeRefresh, Goto, TypeOK, LockInv, WriterExclusion, Critical,
      fileVars, jobVars, vars
<1>17. ASSUME NEW w \in Writers, StopServer(w)
      PROVE  LockInv'
  BY <1>17, BoundsAssumption, SentinelAssumption
  DEF StopServer, Goto, TypeOK, LockInv, WriterExclusion, Critical, ForgetJob, EndProcess,
      fileVars, jobVars, vars
<1>18. ASSUME NEW w \in Writers, Crash(w)
      PROVE  LockInv'
  BY <1>18, BoundsAssumption, SentinelAssumption
  DEF Crash, Goto, TypeOK, LockInv, WriterExclusion, Critical, ForgetJob, EndProcess, Running,
      fileVars, jobVars, vars
<1>19. ASSUME NEW r \in Readers, OpenIndex(r)
      PROVE  LockInv'
  BY <1>19 DEF OpenIndex, LockInv, WriterExclusion, Critical, fileVars, jobVars, vars
<1>20. ASSUME NEW r \in Readers, CloseIndex(r)
      PROVE  LockInv'
  BY <1>20 DEF CloseIndex, LockInv, WriterExclusion, Critical, fileVars, jobVars, vars
<1>21. CASE TreeChanges
  BY <1>21 DEF TreeChanges, LockInv, WriterExclusion, Critical, fileVars, jobVars, vars
<1>22. CASE UNCHANGED vars
  BY <1>22 DEF LockInv, WriterExclusion, Critical, fileVars, jobVars, vars
<1>23. QED
  BY <1>1, <1>2, <1>3, <1>4, <1>5, <1>6, <1>7, <1>8, <1>9, <1>10, <1>11,
     <1>12, <1>13, <1>14, <1>15, <1>16, <1>17, <1>18, <1>19, <1>20, <1>21, <1>22
     DEF Next, Step

\* Every step keeps names, descriptors and files one to one.
LEMMA FileStep == IInv /\ [Next]_vars => FileInv'
<1> SUFFICES ASSUME IInv, [Next]_vars
             PROVE  FileInv'
  OBVIOUS
<1> USE DEF IInv
<1>1. ASSUME NEW w \in Writers, Acquire(w)
      PROVE  FileInv'
  BY <1>1, BoundsAssumption, SentinelAssumption
  DEF Acquire, Goto, TypeOK, FileInv, NamesDistinct, NamesApart, FilesReadable, OwnTemporary,
      LeftoverExists, OwnName, Names,
      fileVars, jobVars, vars
<1>2. ASSUME NEW w \in Writers, Busy(w)
      PROVE  FileInv'
  BY <1>2, BoundsAssumption, SentinelAssumption
  DEF Busy, Goto, TypeOK, FileInv, NamesDistinct, NamesApart, FilesReadable, OwnTemporary,
      LeftoverExists, OwnName, Names, ForgetJob, EndProcess,
      fileVars, jobVars, vars
<1>3. ASSUME NEW w \in Writers, Release(w)
      PROVE  FileInv'
  BY <1>3, BoundsAssumption, SentinelAssumption
  DEF Release, Goto, TypeOK, FileInv, NamesDistinct, NamesApart, FilesReadable, OwnTemporary,
      LeftoverExists, OwnName, Names, ForgetJob, EndProcess,
      fileVars, jobVars, vars
<1>4. ASSUME NEW w \in Writers, Open(w)
      PROVE  FileInv'
  BY <1>4, BoundsAssumption, SentinelAssumption
  DEF Open, Goto, TypeOK, FileInv, NamesDistinct, NamesApart, FilesReadable, OwnTemporary,
      LeftoverExists, OwnName, Names,
      fileVars, jobVars, vars
<1>5. ASSUME NEW w \in Writers, OpenRefused(w)
      PROVE  FileInv'
  BY <1>5, BoundsAssumption, SentinelAssumption
  DEF OpenRefused, Goto, TypeOK, FileInv, NamesDistinct, NamesApart, FilesReadable,
      OwnTemporary, LeftoverExists, OwnName, Names,
      fileVars, jobVars, vars
<1>6. ASSUME NEW w \in Writers, Scan(w)
      PROVE  FileInv'
  BY <1>6, BoundsAssumption, SentinelAssumption
  DEF Scan, Goto, TypeOK, FileInv, NamesDistinct, NamesApart, FilesReadable, OwnTemporary,
      LeftoverExists, OwnName, Names,
      fileVars, jobVars, vars
<1>7. ASSUME NEW w \in Writers, ScanFails(w)
      PROVE  FileInv'
  BY <1>7, BoundsAssumption, SentinelAssumption
  DEF ScanFails, Goto, TypeOK, FileInv, NamesDistinct, NamesApart, FilesReadable,
      OwnTemporary, LeftoverExists, OwnName, Names,
      fileVars, jobVars, vars
<1>8. ASSUME NEW w \in Writers, CreateTemporary(w)
      PROVE  FileInv'
  <2> DEFINE nm == <<w, nextId[w]>>
  <2>1. nm \in Names
    BY <1>8, BoundsAssumption DEF CreateTemporary, LockInv, TypeOK, Names
  <2>2. PICK i \in UnusedInodes : /\ temps' = [temps EXCEPT ![nm] = i]
                                  /\ data' = [data EXCEPT ![i] = Partial]
    BY <1>8 DEF CreateTemporary
  <2>3. /\ i \in Inodes /\ i # NoFile /\ i # dest
        /\ \A n \in Names : temps[n] # i
        /\ \A r \in Readers : fd[r] # i
    BY SentinelAssumption DEF UnusedInodes
  <2>4. temps[nm] = NoFile /\ nm \notin leftover
    BY <1>8
       DEF CreateTemporary, FileInv, NamesDistinct, NamesApart, FilesReadable,
           OwnTemporary, LeftoverExists
  <2>5. temps'[nm] = i /\ \A n \in Names : n # nm => temps'[n] = temps[n]
    BY <2>1, <2>2 DEF TypeOK
  <2>6. data' = [data EXCEPT ![i] = Partial] /\ data \in [Inodes -> Snapshots \union {Malformed, Partial, Free}]
    BY <2>2 DEF TypeOK
  <2>7. \A v \in Writers : pc'[v] \in {"write", "rename"} => v = w
    BY <1>8, Exclusion DEF CreateTemporary, Goto, TypeOK, LockInv, Critical
  <2>8. nextId'[w] >= 1 /\ OwnName(w)' = nm
    BY <1>8 DEF CreateTemporary, TypeOK, OwnName
  <2>9. dest' = dest /\ fd' = fd /\ leftover' = leftover
    BY <1>8 DEF CreateTemporary
  <2>10. dest # NoFile => data'[dest] = data[dest]
    BY <2>3, <2>6 DEF TypeOK
  <2>11. \A r \in Readers : fd[r] # NoFile => data'[fd[r]] = data[fd[r]]
    BY <2>3, <2>6 DEF TypeOK
  <2>12. NamesDistinct' /\ NamesApart'
    BY <2>1, <2>3, <2>5, <2>9 DEF FileInv, NamesDistinct, NamesApart
  <2>13. FilesReadable'
    BY <2>9, <2>10, <2>11 DEF FileInv, FilesReadable
  <2>14. OwnTemporary' /\ LeftoverExists'
    BY <2>3, <2>4, <2>5, <2>7, <2>8, <2>9 DEF FileInv, OwnTemporary, LeftoverExists, TypeOK
  <2>15. QED
    BY <2>12, <2>13, <2>14 DEF FileInv
<1>9. ASSUME NEW w \in Writers, Collide(w)
      PROVE  FileInv'
  BY <1>9, BoundsAssumption, SentinelAssumption
  DEF Collide, Goto, TypeOK, FileInv, NamesDistinct, NamesApart, FilesReadable, OwnTemporary,
      LeftoverExists, OwnName, Names,
      fileVars, jobVars, vars
<1>10. ASSUME NEW w \in Writers, CreateFails(w)
      PROVE  FileInv'
  BY <1>10, BoundsAssumption, SentinelAssumption
  DEF CreateFails, Goto, TypeOK, FileInv, NamesDistinct, NamesApart, FilesReadable,
      OwnTemporary, LeftoverExists, OwnName, Names,
      fileVars, jobVars, vars
<1>11. ASSUME NEW w \in Writers, Write(w)
      PROVE  FileInv'
  BY <1>11, BoundsAssumption, SentinelAssumption, OwnNameLemma, Exclusion
  DEF Write, Goto, TypeOK, FileInv, NamesDistinct, NamesApart, FilesReadable, OwnTemporary,
      LeftoverExists, OwnName, Names, LockInv, WriterExclusion, Critical, JobInv, Saving,
      fileVars, jobVars, vars
<1>12. ASSUME NEW w \in Writers, Rename(w)
      PROVE  FileInv'
  <2> DEFINE nm == OwnName(w)
  <2>1. nm \in Names /\ temps[nm] # NoFile /\ temps[nm] \in Inodes
    BY <1>12, OwnNameLemma
       DEF Rename, FileInv, NamesDistinct, NamesApart, FilesReadable, OwnTemporary,
           LeftoverExists, TypeOK
  <2>2. data[temps[nm]] \in Snapshots
    BY <1>12 DEF Rename, JobInv, SaveJob, Saving
  <2>3. dest' = temps[nm] /\ fd' = fd /\ leftover' = leftover /\ nm \notin leftover
    BY <1>12
       DEF Rename, FileInv, NamesDistinct, NamesApart, FilesReadable, OwnTemporary,
           LeftoverExists
  <2>4. temps'[nm] = NoFile /\ \A n \in Names : n # nm => temps'[n] = temps[n]
    BY <1>12, <2>1 DEF Rename, TypeOK
  <2>5. /\ data'[dest'] = data[temps[nm]]
        /\ \A r \in Readers : fd[r] # NoFile => data'[fd[r]] = data[fd[r]]
    BY <1>12, <2>1, <2>3, ReapLemma DEF Rename, TypeOK
  <2>6. \A v \in Writers : pc'[v] \notin {"write", "rename"}
    BY <1>12, Exclusion DEF Rename, Goto, TypeOK, LockInv, Critical
  <2>7. leftover \subseteq Names
    BY DEF TypeOK
  <2>8. QED
    BY <2>1, <2>2, <2>3, <2>4, <2>5, <2>6, <2>7
       DEF FileInv, NamesDistinct, NamesApart, FilesReadable, OwnTemporary, LeftoverExists
<1>13. ASSUME NEW w \in Writers, SaveFails(w)
      PROVE  FileInv'
  <2> DEFINE nm == OwnName(w)
  <2>1. nm \in Names /\ temps[nm] # NoFile /\ nm \notin leftover /\ leftover \subseteq Names
    BY <1>13, OwnNameLemma
       DEF SaveFails, FileInv, NamesDistinct, NamesApart, FilesReadable, OwnTemporary,
           LeftoverExists, TypeOK
  <2>2. dest' = dest /\ fd' = fd
    BY <1>13 DEF SaveFails
  <2>3. \A v \in Writers : pc'[v] \notin {"write", "rename"}
    BY <1>13, Exclusion DEF SaveFails, Goto, TypeOK, LockInv, Critical
  <2>4. CASE /\ temps' = [temps EXCEPT ![nm] = NoFile]
             /\ data' = Reap(data, dest, temps', fd)
             /\ UNCHANGED leftover
    <3>1. temps'[nm] = NoFile /\ \A n \in Names : n # nm => temps'[n] = temps[n]
      BY <2>1, <2>4 DEF TypeOK
    <3>2. /\ dest # NoFile => data'[dest] = data[dest]
          /\ \A r \in Readers : fd[r] # NoFile => data'[fd[r]] = data[fd[r]]
      BY <2>4, ReapLemma DEF TypeOK
    <3>3. NamesDistinct' /\ NamesApart'
      BY <2>1, <2>2, <3>1 DEF FileInv, NamesDistinct, NamesApart
    <3>4. FilesReadable'
      BY <2>2, <3>2 DEF FileInv, FilesReadable
    <3>5. OwnTemporary' /\ LeftoverExists'
      BY <2>1, <2>3, <2>4, <3>1 DEF FileInv, OwnTemporary, LeftoverExists
    <3>6. QED
      BY <3>3, <3>4, <3>5 DEF FileInv
  <2>5. CASE leftover' = leftover \union {nm} /\ UNCHANGED <<temps, data>>
    BY <2>1, <2>2, <2>3, <2>5
       DEF FileInv, NamesDistinct, NamesApart, FilesReadable, OwnTemporary, LeftoverExists
  <2>6. QED
    BY <1>13, <2>4, <2>5 DEF SaveFails
<1>14. ASSUME NEW w \in Writers, StartCommand(w)
      PROVE  FileInv'
  BY <1>14, BoundsAssumption, SentinelAssumption
  DEF StartCommand, Goto, TypeOK, FileInv, NamesDistinct, NamesApart, FilesReadable,
      OwnTemporary, LeftoverExists, OwnName, Names, Running,
      fileVars, jobVars, vars
<1>15. ASSUME NEW w \in Writers, StartServer(w)
      PROVE  FileInv'
  BY <1>15, BoundsAssumption, SentinelAssumption
  DEF StartServer, Goto, TypeOK, FileInv, NamesDistinct, NamesApart, FilesReadable,
      OwnTemporary, LeftoverExists, OwnName, Names, Running,
      fileVars, jobVars, vars
<1>16. ASSUME NEW w \in Writers, ServeRefresh(w)
      PROVE  FileInv'
  BY <1>16, BoundsAssumption, SentinelAssumption
  DEF ServeRefresh, Goto, TypeOK, FileInv, NamesDistinct, NamesApart, FilesReadable,
      OwnTemporary, LeftoverExists, OwnName, Names,
      fileVars, jobVars, vars
<1>17. ASSUME NEW w \in Writers, StopServer(w)
      PROVE  FileInv'
  BY <1>17, BoundsAssumption, SentinelAssumption
  DEF StopServer, Goto, TypeOK, FileInv, NamesDistinct, NamesApart, FilesReadable,
      OwnTemporary, LeftoverExists, OwnName, Names, ForgetJob, EndProcess,
      fileVars, jobVars, vars
<1>18. ASSUME NEW w \in Writers, Crash(w)
      PROVE  FileInv'
  BY <1>18, BoundsAssumption, SentinelAssumption
  DEF Crash, Goto, TypeOK, FileInv, NamesDistinct, NamesApart, FilesReadable, OwnTemporary,
      LeftoverExists, OwnName, Names, ForgetJob, EndProcess, Running,
      fileVars, jobVars, vars
<1>19. ASSUME NEW r \in Readers, OpenIndex(r)
      PROVE  FileInv'
  BY <1>19, ReapLemma
     DEF OpenIndex, FileInv, NamesDistinct, NamesApart, FilesReadable, OwnTemporary,
         LeftoverExists, TypeOK, OwnName, fileVars, jobVars, vars
<1>20. ASSUME NEW r \in Readers, CloseIndex(r)
      PROVE  FileInv'
  <2>1. /\ fd'[r] = NoFile
        /\ \A s \in Readers : s # r => fd'[s] = fd[s]
        /\ UNCHANGED <<dest, temps, leftover, pc, nextId>>
    BY <1>20 DEF CloseIndex, TypeOK, jobVars
  <2>2. data' = Reap(data, dest, temps, fd')
    BY <1>20 DEF CloseIndex
  <2>3. \A s \in Readers : fd'[s] \in Inodes \union {NoFile}
    BY <2>1 DEF TypeOK
  <2>4. /\ dest # NoFile => data'[dest] = data[dest]
        /\ \A s \in Readers : fd'[s] # NoFile => data'[fd'[s]] = data[fd'[s]]
    BY <2>2, <2>3, ReapLemma DEF TypeOK
  <2>5. QED
    BY <2>1, <2>4
       DEF FileInv, NamesDistinct, NamesApart, FilesReadable, OwnTemporary,
           LeftoverExists, OwnName
<1>21. CASE TreeChanges
  BY <1>21
     DEF TreeChanges, FileInv, NamesDistinct, NamesApart, FilesReadable, OwnTemporary,
         LeftoverExists, OwnName, fileVars, jobVars, vars
<1>22. CASE UNCHANGED vars
  BY <1>22
     DEF FileInv, NamesDistinct, NamesApart, FilesReadable, OwnTemporary, LeftoverExists,
         OwnName, fileVars, jobVars, vars
<1>23. QED
  BY <1>1, <1>2, <1>3, <1>4, <1>5, <1>6, <1>7, <1>8, <1>9, <1>10, <1>11,
     <1>12, <1>13, <1>14, <1>15, <1>16, <1>17, <1>18, <1>19, <1>20, <1>21, <1>22
     DEF Next, Step

\* Every step keeps what the owner of the lock has loaded, scanned and written
\* in agreement with the published index.
LEMMA JobStep == IInv /\ [Next]_vars => JobInv'
<1> SUFFICES ASSUME IInv, [Next]_vars
             PROVE  JobInv'
  OBVIOUS
<1> USE DEF IInv
<1>1. ASSUME NEW w \in Writers, Acquire(w)
      PROVE  JobInv'
  BY <1>1, SentinelAssumption
  DEF Acquire, Goto, TypeOK, JobInv, RefreshJob, SaveJob, Saving, Index, PublishedTruthful,
      OwnName, LockInv,
      fileVars, jobVars, vars
<1>2. ASSUME NEW w \in Writers, Busy(w)
      PROVE  JobInv'
  BY <1>2, SentinelAssumption
  DEF Busy, Goto, TypeOK, JobInv, RefreshJob, SaveJob, Saving, Index, PublishedTruthful,
      OwnName, ForgetJob, EndProcess,
      fileVars, jobVars, vars
<1>3. ASSUME NEW w \in Writers, Release(w)
      PROVE  JobInv'
  BY <1>3, SentinelAssumption
  DEF Release, Goto, TypeOK, JobInv, RefreshJob, SaveJob, Saving, Index, PublishedTruthful,
      OwnName, ForgetJob, EndProcess,
      fileVars, jobVars, vars
<1>4. ASSUME NEW w \in Writers, Open(w)
      PROVE  JobInv'
  <2>1. PICK q \in RequestsOf(kind[w]) :
           /\ PolicyAccepted(Index, q)
           /\ RootAccepted(kind[w], Index, q)
           /\ draft' = [draft EXCEPT ![w] = RefreshDraft(Index, q)]
    BY <1>4 DEF Open
  <2>2. kind[w] \in Kinds \ {"index"} /\ Index # Malformed
    BY <1>4 DEF Open, LockInv, TypeOK
  <2>3. /\ RefreshDraft(Index, q) \in Snapshots
        /\ Truthful(RefreshDraft(Index, q))
        /\ RefreshDraft(Index, q).policy = PolicyOf(Index)
        /\ PolicyOf(Index) # Unknown => RefreshDraft(Index, q).root = RootOf(Index)
    BY <2>1, <2>2, RefreshDraftLemma
  <2>4. Index' = Index /\ version' = version
    BY <1>4 DEF Open, Index, fileVars
  <2>5. \A v \in Writers : pc'[v] \in {"scan"} \union Saving => v = w
    BY <1>4, Exclusion DEF Open, Goto, TypeOK, LockInv, Critical, Saving
  <2>6. pc'[w] = "scan" /\ draft'[w] = RefreshDraft(Index, q) /\ opened'[w] = Index
    BY <1>4, <2>1 DEF Open, Goto, TypeOK
  <2>7. RefreshJob(w)'
    BY <2>3, <2>4, <2>6 DEF RefreshJob, PolicyOf, RootOf
  <2>8. QED
    BY <2>4, <2>5, <2>6, <2>7 DEF JobInv, PublishedTruthful, Saving
<1>5. ASSUME NEW w \in Writers, OpenRefused(w)
      PROVE  JobInv'
  BY <1>5, SentinelAssumption
  DEF OpenRefused, Goto, TypeOK, JobInv, RefreshJob, SaveJob, Saving, Index,
      PublishedTruthful, OwnName,
      fileVars, jobVars, vars
<1>6. ASSUME NEW w \in Writers, Scan(w)
      PROVE  JobInv'
  <2>1. Index' = Index /\ version' = version
    BY <1>6 DEF Scan, Index, fileVars
  <2>2. \A v \in Writers : pc'[v] \in {"scan"} \union Saving => v = w
    BY <1>6, Exclusion DEF Scan, Goto, TypeOK, LockInv, Critical, Saving
  <2>3. pc'[w] = "create" /\ kind' = kind /\ opened' = opened
    BY <1>6 DEF Scan, Goto, TypeOK
  <2>4. /\ draft'[w] \in Snapshots
        /\ Truthful(draft'[w])
        /\ draft'[w].version = version
        /\ kind[w] # "index" => /\ draft'[w].policy = draft[w].policy
                                /\ draft'[w].root = draft[w].root
    <3>1. CASE kind[w] = "index"
      BY <1>6, <3>1, BuildDraftLemma DEF Scan, TypeOK
    <3>2. CASE kind[w] # "index"
      <4>1. draft[w] \in Snapshots /\ Truthful(draft[w])
        BY <1>6, <3>2 DEF Scan, JobInv, RefreshJob
      <4>2. draft' = [draft EXCEPT ![w] = [draft[w] EXCEPT !.version = version]]
        BY <1>6, <3>2 DEF Scan
      <4>3. draft'[w] = [draft[w] EXCEPT !.version = version]
        BY <4>2 DEF TypeOK
      <4>4. QED
        BY <4>1, <4>3 DEF Snapshots, Truthful, TypeOK
    <3>3. QED BY <3>1, <3>2
  <2>5. SaveJob(w)'
    BY <2>1, <2>4 DEF SaveJob, JobInv, TypeOK, Snapshots
  <2>6. kind[w] # "index" => RefreshJob(w)'
    BY <1>6, <2>1, <2>3, <2>4 DEF Scan, JobInv, RefreshJob, PolicyOf, RootOf
  <2>7. QED
    BY <2>1, <2>2, <2>3, <2>5, <2>6 DEF JobInv, PublishedTruthful, Saving
<1>7. ASSUME NEW w \in Writers, ScanFails(w)
      PROVE  JobInv'
  BY <1>7, SentinelAssumption
  DEF ScanFails, Goto, TypeOK, JobInv, RefreshJob, SaveJob, Saving, Index, PublishedTruthful,
      OwnName,
      fileVars, jobVars, vars
<1>8. ASSUME NEW w \in Writers, CreateTemporary(w)
      PROVE  JobInv'
  <2>1. PICK i \in UnusedInodes : data' = [data EXCEPT ![i] = Partial]
    BY <1>8 DEF CreateTemporary
  <2>2. Index' = Index
    BY <1>8, <2>1, IndexFrame DEF CreateTemporary, UnusedInodes, TypeOK
  <2>3. \A v \in Writers : pc'[v] \in {"scan"} \union Saving => v = w
    BY <1>8, Exclusion DEF CreateTemporary, Goto, TypeOK, LockInv, Critical, Saving
  <2>4. pc'[w] = "write" /\ UNCHANGED <<kind, opened, draft, version>>
    BY <1>8 DEF CreateTemporary, Goto, TypeOK
  <2>5. SaveJob(w)'
    BY <1>8, <2>2, <2>4 DEF CreateTemporary, JobInv, SaveJob, Saving
  <2>6. kind[w] # "index" => RefreshJob(w)'
    BY <1>8, <2>2, <2>4 DEF CreateTemporary, JobInv, RefreshJob, Saving, PolicyOf, RootOf
  <2>7. QED
    BY <2>2, <2>3, <2>4, <2>5, <2>6 DEF JobInv, PublishedTruthful, Saving
<1>9. ASSUME NEW w \in Writers, Collide(w)
      PROVE  JobInv'
  BY <1>9, SentinelAssumption
  DEF Collide, Goto, TypeOK, JobInv, RefreshJob, SaveJob, Saving, Index, PublishedTruthful,
      OwnName,
      fileVars, jobVars, vars
<1>10. ASSUME NEW w \in Writers, CreateFails(w)
      PROVE  JobInv'
  BY <1>10, SentinelAssumption
  DEF CreateFails, Goto, TypeOK, JobInv, RefreshJob, SaveJob, Saving, Index,
      PublishedTruthful, OwnName,
      fileVars, jobVars, vars
<1>11. ASSUME NEW w \in Writers, Write(w)
      PROVE  JobInv'
  <2> DEFINE nm == OwnName(w)
  <2>1. nm \in Names /\ temps[nm] \in Inodes /\ temps[nm] # dest
    BY <1>11, OwnNameLemma DEF Write, FileInv, OwnTemporary, NamesApart, TypeOK
  <2>2. data' = [data EXCEPT ![temps[nm]] = draft[w]] /\ temps' = temps /\ OwnName(w)' = nm
    BY <1>11 DEF Write, OwnName, jobVars
  <2>3. Index' = Index
    BY <1>11, <2>1, <2>2, IndexFrame DEF Write, TypeOK
  <2>4. \A v \in Writers : pc'[v] \in {"scan"} \union Saving => v = w
    BY <1>11, Exclusion DEF Write, Goto, TypeOK, LockInv, Critical, Saving
  <2>5. pc'[w] = "rename" /\ UNCHANGED <<kind, opened, draft, version>>
    BY <1>11 DEF Write, Goto, TypeOK, jobVars
  <2>6. data'[temps'[OwnName(w)']] = draft'[w]
    BY <2>1, <2>2, <2>5 DEF TypeOK
  <2>7. SaveJob(w)'
    BY <1>11, <2>3, <2>5 DEF Write, JobInv, SaveJob, Saving
  <2>8. kind[w] # "index" => RefreshJob(w)'
    BY <1>11, <2>3, <2>5 DEF Write, JobInv, RefreshJob, Saving, PolicyOf, RootOf
  <2>9. QED
    BY <2>3, <2>4, <2>5, <2>6, <2>7, <2>8 DEF JobInv, PublishedTruthful, Saving
<1>12. ASSUME NEW w \in Writers, Rename(w)
      PROVE  JobInv'
  <2> DEFINE nm == OwnName(w)
  <2>1. nm \in Names /\ temps[nm] \in Inodes
    BY <1>12, OwnNameLemma DEF Rename, FileInv, OwnTemporary, TypeOK
  <2>2. dest' = temps[nm] /\ data'[dest'] = data[temps[nm]] /\ version' = version
    BY <1>12, <2>1, ReapLemma DEF Rename, TypeOK
  <2>3. Index' = draft[w]
    BY <1>12, <2>1, <2>2, SentinelAssumption DEF Rename, JobInv, Index
  <2>4. Truthful(draft[w]) /\ draft[w].version <= version
    BY <1>12 DEF Rename, JobInv, SaveJob, Saving
  <2>5. \A v \in Writers : pc'[v] \notin {"scan"} \union Saving
    BY <1>12, Exclusion DEF Rename, Goto, TypeOK, LockInv, Critical, Saving
  <2>6. QED
    BY <2>2, <2>3, <2>4, <2>5 DEF JobInv, PublishedTruthful, Saving, Truthful
<1>13. ASSUME NEW w \in Writers, SaveFails(w)
      PROVE  JobInv'
  <2>1. Index' = Index
    BY <1>13, ReapLemma, IndexFrame DEF SaveFails, TypeOK
  <2>2. \A v \in Writers : pc'[v] \notin {"scan"} \union Saving
    BY <1>13, Exclusion DEF SaveFails, Goto, TypeOK, LockInv, Critical, Saving
  <2>3. version' = version
    BY <1>13 DEF SaveFails
  <2>4. QED
    BY <2>1, <2>2, <2>3 DEF JobInv, PublishedTruthful, Saving
<1>14. ASSUME NEW w \in Writers, StartCommand(w)
      PROVE  JobInv'
  BY <1>14, SentinelAssumption
  DEF StartCommand, Goto, TypeOK, JobInv, RefreshJob, SaveJob, Saving, Index,
      PublishedTruthful, OwnName, Running,
      fileVars, jobVars, vars
<1>15. ASSUME NEW w \in Writers, StartServer(w)
      PROVE  JobInv'
  BY <1>15, SentinelAssumption
  DEF StartServer, Goto, TypeOK, JobInv, RefreshJob, SaveJob, Saving, Index,
      PublishedTruthful, OwnName, Running,
      fileVars, jobVars, vars
<1>16. ASSUME NEW w \in Writers, ServeRefresh(w)
      PROVE  JobInv'
  BY <1>16, SentinelAssumption
  DEF ServeRefresh, Goto, TypeOK, JobInv, RefreshJob, SaveJob, Saving, Index,
      PublishedTruthful, OwnName,
      fileVars, jobVars, vars
<1>17. ASSUME NEW w \in Writers, StopServer(w)
      PROVE  JobInv'
  BY <1>17, SentinelAssumption
  DEF StopServer, Goto, TypeOK, JobInv, RefreshJob, SaveJob, Saving, Index, PublishedTruthful,
      OwnName, ForgetJob, EndProcess,
      fileVars, jobVars, vars
<1>18. ASSUME NEW w \in Writers, Crash(w)
      PROVE  JobInv'
  BY <1>18, SentinelAssumption
  DEF Crash, Goto, TypeOK, JobInv, RefreshJob, SaveJob, Saving, Index, PublishedTruthful,
      OwnName, ForgetJob, EndProcess, Running,
      fileVars, jobVars, vars
<1>19. ASSUME NEW r \in Readers, OpenIndex(r)
      PROVE  JobInv'
  BY <1>19 DEF OpenIndex, JobInv, RefreshJob, SaveJob, PolicyOf, RootOf, Index,
      PublishedTruthful, OwnName, fileVars, jobVars
<1>20. ASSUME NEW r \in Readers, CloseIndex(r)
      PROVE  JobInv'
  <2>1. UNCHANGED <<dest, temps, version, pc, kind, opened, draft, nextId>>
    BY <1>20 DEF CloseIndex, jobVars
  <2>2. data' = Reap(data, dest, temps, fd')
    BY <1>20 DEF CloseIndex
  <2>3. Index' = Index
    BY <2>1, <2>2, ReapLemma, IndexFrame DEF TypeOK
  <2>4. ASSUME NEW w \in Writers, pc[w] = "rename"
        PROVE  data'[temps[OwnName(w)]] = data[temps[OwnName(w)]]
    <3>1. OwnName(w) \in Names /\ temps[OwnName(w)] \in Inodes
      BY <2>4, OwnNameLemma DEF FileInv, OwnTemporary, TypeOK
    <3>2. QED
      BY <2>2, <3>1, ReapLemma DEF TypeOK
  <2>5. QED
    BY <2>1, <2>3, <2>4 DEF JobInv, RefreshJob, SaveJob, PolicyOf, RootOf,
        PublishedTruthful, OwnName
<1>21. CASE TreeChanges
  BY <1>21
     DEF TreeChanges, JobInv, RefreshJob, SaveJob, TypeOK, Snapshots, Saving, Index,
         PublishedTruthful, OwnName, fileVars, jobVars, vars
<1>22. CASE UNCHANGED vars
  BY <1>22
     DEF JobInv, RefreshJob, SaveJob, Index, PublishedTruthful, OwnName, fileVars, jobVars, vars
<1>23. QED
  BY <1>1, <1>2, <1>3, <1>4, <1>5, <1>6, <1>7, <1>8, <1>9, <1>10, <1>11,
     <1>12, <1>13, <1>14, <1>15, <1>16, <1>17, <1>18, <1>19, <1>20, <1>21, <1>22
     DEF Next, Step

-----------------------------------------------------------------------------
(***************************************************************************)
(* What the steps of a writer do to the names and to the scope.            *)
(***************************************************************************)
\* Steps that touch neither the directory nor a file.
Elsewhere(w) ==
    \/ Acquire(w) \/ Busy(w) \/ Release(w) \/ Open(w) \/ OpenRefused(w)
    \/ Scan(w) \/ ScanFails(w) \/ Collide(w) \/ CreateFails(w)
    \/ StartCommand(w) \/ StartServer(w) \/ ServeRefresh(w) \/ StopServer(w)

\* Such a step is taken outside the two labels that own a temporary.
LEMMA ElsewhereLemma ==
    ASSUME IInv, NEW w \in Writers, Elsewhere(w)
    PROVE  /\ UNCHANGED <<dest, data, temps, leftover, fd>>
           /\ pc[w] \notin {"write", "rename"}
           /\ \A v \in Writers \ {w} : pc'[v] = pc[v] /\ nextId'[v] = nextId[v]
<1>1. ASSUME Acquire(w) \/ Busy(w) \/ Release(w)
      PROVE  /\ UNCHANGED <<dest, data, temps, leftover, fd>>
             /\ pc[w] \notin {"write", "rename"}
             /\ \A v \in Writers \ {w} : pc'[v] = pc[v] /\ nextId'[v] = nextId[v]
  BY <1>1 DEF IInv, TypeOK, Acquire, Busy, Release, Goto, ForgetJob, EndProcess,
      fileVars, jobVars
<1>2. ASSUME Open(w) \/ OpenRefused(w) \/ Scan(w) \/ ScanFails(w)
      PROVE  /\ UNCHANGED <<dest, data, temps, leftover, fd>>
             /\ pc[w] \notin {"write", "rename"}
             /\ \A v \in Writers \ {w} : pc'[v] = pc[v] /\ nextId'[v] = nextId[v]
  BY <1>2 DEF IInv, TypeOK, Open, OpenRefused, Scan, ScanFails, Goto, fileVars, jobVars
<1>3. ASSUME Collide(w) \/ CreateFails(w)
      PROVE  /\ UNCHANGED <<dest, data, temps, leftover, fd>>
             /\ pc[w] \notin {"write", "rename"}
             /\ \A v \in Writers \ {w} : pc'[v] = pc[v] /\ nextId'[v] = nextId[v]
  BY <1>3 DEF IInv, TypeOK, Collide, CreateFails, Goto, fileVars, jobVars
<1>4. ASSUME StartCommand(w) \/ StartServer(w) \/ ServeRefresh(w) \/ StopServer(w)
      PROVE  /\ UNCHANGED <<dest, data, temps, leftover, fd>>
             /\ pc[w] \notin {"write", "rename"}
             /\ \A v \in Writers \ {w} : pc'[v] = pc[v] /\ nextId'[v] = nextId[v]
  BY <1>4 DEF IInv, TypeOK, StartCommand, StartServer, ServeRefresh, StopServer,
      Running, Goto, ForgetJob, EndProcess, fileVars, jobVars
<1>5. QED
  BY <1>1, <1>2, <1>3, <1>4 DEF Elsewhere

\* Every step is one that leaves the files alone, or one of the few others.
LEMMA StepCases ==
    ASSUME [Next]_vars
    PROVE  \/ \E w \in Writers :
                 Elsewhere(w) \/ CreateTemporary(w) \/ Write(w) \/ Rename(w)
                 \/ SaveFails(w) \/ Crash(w)
           \/ \E r \in Readers : OpenIndex(r) \/ CloseIndex(r)
           \/ TreeChanges
           \/ UNCHANGED vars
BY DEF Next, Step, Elsewhere

\* No step forgets a temporary.
LEMMA AccountedStep ==
    IInv /\ TemporariesAccounted /\ [Next]_vars => TemporariesAccounted'
<1> SUFFICES ASSUME IInv, TemporariesAccounted, [Next]_vars, NEW n \in Names,
                    temps'[n] # NoFile
             PROVE  \/ n \in leftover'
                    \/ \E v \in Writers :
                          pc'[v] \in {"write", "rename"} /\ n = OwnName(v)'
  BY DEF TemporariesAccounted
<1> DEFINE Owned == \E v \in Writers : pc'[v] \in {"write", "rename"} /\ n = OwnName(v)'
<1>1. ASSUME NEW w \in Writers, Elsewhere(w)
      PROVE  n \in leftover' \/ Owned
  BY <1>1, ElsewhereLemma DEF TemporariesAccounted, OwnName
<1>2. ASSUME NEW w \in Writers, CreateTemporary(w)
      PROVE  n \in leftover' \/ Owned
  <2>1. PICK i \in UnusedInodes : temps' = [temps EXCEPT ![<<w, nextId[w]>>] = i]
    BY <1>2 DEF CreateTemporary
  <2>2. /\ pc'[w] = "write" /\ nextId'[w] = nextId[w] + 1 /\ nextId[w] \in Int
        /\ leftover' = leftover
        /\ \A v \in Writers \ {w} : pc'[v] = pc[v] /\ nextId'[v] = nextId[v]
        /\ pc[w] = "create"
    BY <1>2 DEF CreateTemporary, Goto, IInv, TypeOK
  <2>3. CASE n = <<w, nextId[w]>>
    <3>1. OwnName(w)' = n
      BY <2>2, <2>3 DEF OwnName
    <3>2. QED BY <2>2, <3>1
  <2>4. CASE n # <<w, nextId[w]>>
    <3>1. temps[n] # NoFile
      BY <2>1, <2>4 DEF IInv, TypeOK
    <3>2. QED BY <2>2, <3>1 DEF TemporariesAccounted, OwnName
  <2>5. QED BY <2>3, <2>4
<1>3. ASSUME NEW w \in Writers, Write(w)
      PROVE  n \in leftover' \/ Owned
  BY <1>3 DEF IInv, TypeOK, Write, Goto, TemporariesAccounted, OwnName, jobVars
<1>4. ASSUME NEW w \in Writers, Rename(w) \/ SaveFails(w)
      PROVE  n \in leftover' \/ Owned
  <2>1. /\ nextId' = nextId
        /\ \A v \in Writers \ {w} : pc'[v] = pc[v]
        /\ leftover \subseteq leftover'
        /\ \/ temps' = [temps EXCEPT ![OwnName(w)] = NoFile]
           \/ temps' = temps /\ OwnName(w) \in leftover'
    BY <1>4 DEF Rename, SaveFails, Goto, IInv, TypeOK, jobVars
  <2>2. CASE n = OwnName(w)
    BY <2>1, <2>2 DEF IInv, TypeOK
  <2>3. CASE n # OwnName(w)
    <3>1. temps[n] # NoFile
      BY <2>1, <2>3 DEF IInv, TypeOK
    <3>2. QED BY <2>1, <2>3, <3>1 DEF TemporariesAccounted, OwnName
  <2>4. QED BY <2>2, <2>3
<1>5. ASSUME NEW w \in Writers, Crash(w)
      PROVE  n \in leftover' \/ Owned
  <2>1. /\ \A v \in Writers \ {w} : pc'[v] = pc[v] /\ nextId'[v] = nextId[v]
        /\ temps' = temps /\ leftover \subseteq leftover'
        /\ pc[w] \in {"write", "rename"} => OwnName(w) \in leftover'
    BY <1>5 DEF Crash, EndProcess, Goto, IInv, TypeOK
  <2>2. QED BY <2>1 DEF TemporariesAccounted, OwnName
<1>6. ASSUME NEW r \in Readers, OpenIndex(r) \/ CloseIndex(r)
      PROVE  n \in leftover' \/ Owned
  BY <1>6 DEF OpenIndex, CloseIndex, TemporariesAccounted, OwnName, fileVars, jobVars
<1>7. CASE TreeChanges \/ UNCHANGED vars
  BY <1>7 DEF TreeChanges, TemporariesAccounted, OwnName, fileVars, jobVars, vars
<1>8. QED
  BY StepCases, <1>1, <1>2, <1>3, <1>4, <1>5, <1>6, <1>7

\* The name of a living temporary and the names that stay behind are apart.
LEMMA OthersStep ==
    ASSUME IInv, [Next]_vars, NEW n \in leftover
    PROVE  temps'[n] = temps[n] /\ data'[temps[n]] = data[temps[n]]
<1>1. n \in Names /\ temps[n] # NoFile /\ temps[n] \in Inodes
  BY DEF IInv, TypeOK, FileInv, LeftoverExists
<1>2. ASSUME NEW w \in Writers, Elsewhere(w)
      PROVE  temps'[n] = temps[n] /\ data'[temps[n]] = data[temps[n]]
  BY <1>2, ElsewhereLemma
<1>3. ASSUME NEW w \in Writers, CreateTemporary(w)
      PROVE  temps'[n] = temps[n] /\ data'[temps[n]] = data[temps[n]]
  <2>1. PICK i \in UnusedInodes :
           /\ temps' = [temps EXCEPT ![<<w, nextId[w]>>] = i]
           /\ data' = [data EXCEPT ![i] = Partial]
    BY <1>3 DEF CreateTemporary
  <2>2. n # <<w, nextId[w]>> /\ temps[n] # i
    BY <1>1, <1>3, <2>1 DEF CreateTemporary, UnusedInodes
  <2>3. QED BY <1>1, <2>1, <2>2 DEF IInv, TypeOK
<1>4. ASSUME NEW w \in Writers, pc[w] \in {"write", "rename"}
      PROVE  /\ OwnName(w) \in Names /\ n # OwnName(w)
             /\ temps[OwnName(w)] # temps[n]
  BY <1>1, <1>4, OwnNameLemma DEF IInv, FileInv, OwnTemporary, NamesDistinct
<1>5. ASSUME NEW w \in Writers, Write(w)
      PROVE  temps'[n] = temps[n] /\ data'[temps[n]] = data[temps[n]]
  <2>1. pc[w] = "write" /\ temps' = temps
        /\ data' = [data EXCEPT ![temps[OwnName(w)]] = draft[w]]
    BY <1>5 DEF Write
  <2>2. temps[OwnName(w)] # temps[n]
    BY <1>4, <2>1
  <2>3. QED BY <1>1, <2>1, <2>2 DEF IInv, TypeOK
<1>6. ASSUME NEW w \in Writers, Rename(w) \/ SaveFails(w)
      PROVE  temps'[n] = temps[n] /\ data'[temps[n]] = data[temps[n]]
  <2>1. pc[w] \in {"write", "rename"}
    BY <1>6 DEF Rename, SaveFails
  <2>2. n # OwnName(w)
    BY <1>4, <2>1
  <2>3. \/ UNCHANGED <<temps, data>>
        \/ \E d : /\ temps' = [temps EXCEPT ![OwnName(w)] = NoFile]
                  /\ data' = Reap(data, d, temps', fd)
    BY <1>6 DEF Rename, SaveFails
  <2>4. temps'[n] = temps[n]
    BY <1>1, <2>2, <2>3 DEF IInv, TypeOK
  <2>5. QED BY <1>1, <2>3, <2>4, ReapLemma DEF IInv, TypeOK
<1>7. ASSUME NEW w \in Writers, Crash(w)
      PROVE  temps'[n] = temps[n] /\ data'[temps[n]] = data[temps[n]]
  BY <1>7 DEF Crash
<1>8. ASSUME NEW r \in Readers, OpenIndex(r) \/ CloseIndex(r)
      PROVE  temps'[n] = temps[n] /\ data'[temps[n]] = data[temps[n]]
  BY <1>1, <1>8, ReapLemma DEF OpenIndex, CloseIndex, fileVars, IInv, TypeOK
<1>9. CASE TreeChanges \/ UNCHANGED vars
  BY <1>9 DEF TreeChanges, fileVars, vars
<1>10. QED
  BY StepCases, <1>2, <1>3, <1>5, <1>6, <1>7, <1>8, <1>9

\* A rename makes its writer's draft the file that is loaded.
LEMMA RenameIndex ==
    ASSUME IInv, NEW w \in Writers, Rename(w)
    PROVE  pc[w] = "rename" /\ Index' = draft[w]
<1>1. OwnName(w) \in Names /\ temps[OwnName(w)] \in Inodes
  BY OwnNameLemma DEF Rename, IInv, FileInv, OwnTemporary, TypeOK
<1>2. dest' = temps[OwnName(w)] /\ data'[dest'] = data[temps[OwnName(w)]]
  BY <1>1, ReapLemma DEF Rename, IInv, TypeOK
<1>3. QED
  BY <1>1, <1>2, SentinelAssumption DEF Rename, IInv, JobInv, Index

\* No other step changes what is loaded.
LEMMA QuietIndex ==
    ASSUME IInv, [Next]_vars, ~ \E w \in Writers : Rename(w)
    PROVE  Index' = Index
<1>1. ASSUME NEW w \in Writers, Elsewhere(w)
      PROVE  Index' = Index
  BY <1>1, ElsewhereLemma DEF Index
<1>2. ASSUME NEW w \in Writers, CreateTemporary(w)
      PROVE  Index' = Index
  <2>1. PICK i \in UnusedInodes : data' = [data EXCEPT ![i] = Partial]
    BY <1>2 DEF CreateTemporary
  <2>2. QED
    BY <1>2, <2>1, IndexFrame DEF CreateTemporary, UnusedInodes, IInv, TypeOK
<1>3. ASSUME NEW w \in Writers, Write(w)
      PROVE  Index' = Index
  <2>1. /\ temps[OwnName(w)] \in Inodes /\ temps[OwnName(w)] # dest
        /\ data' = [data EXCEPT ![temps[OwnName(w)]] = draft[w]]
    BY <1>3, OwnNameLemma DEF Write, IInv, FileInv, OwnTemporary, NamesApart, TypeOK
  <2>2. QED
    BY <1>3, <2>1, IndexFrame DEF Write, IInv, TypeOK
<1>4. ASSUME NEW w \in Writers, SaveFails(w) \/ Crash(w)
      PROVE  Index' = Index
  BY <1>4, ReapLemma, IndexFrame DEF SaveFails, Crash, IInv, TypeOK
<1>5. ASSUME NEW r \in Readers, OpenIndex(r) \/ CloseIndex(r)
      PROVE  Index' = Index
  BY <1>5, ReapLemma, IndexFrame DEF OpenIndex, CloseIndex, fileVars, IInv, TypeOK
<1>6. CASE TreeChanges \/ UNCHANGED vars
  BY <1>6 DEF TreeChanges, fileVars, vars, Index
<1>7. QED
  BY StepCases, <1>1, <1>2, <1>3, <1>4, <1>5, <1>6

-----------------------------------------------------------------------------
(***************************************************************************)
(* The theorems.                                                           *)
(***************************************************************************)
\* The initial directory satisfies the invariant: nobody owns the lock, and an
\* index of known scope holds a scan of that scope.
LEMMA InitInv == Init => IInv
<1> SUFFICES ASSUME Init
             PROVE  IInv
  OBVIOUS
<1>1. PICK foreign \in SUBSET ForeignNames :
         /\ leftover = foreign
         /\ temps \in [Names -> Inodes \union {NoFile}]
         /\ \A n \in Names : temps[n] # NoFile <=> n \in foreign
         /\ \A m, n \in foreign : temps[m] = temps[n] => m = n
  BY DEF Init
<1>2. PICK s \in {t \in Snapshots : t.version = 0 /\ Truthful(t)} \union {Malformed} :
         data = [i \in Inodes |->
                     CASE i = dest -> s
                       [] \E n \in Names : temps[n] = i -> Partial
                       [] OTHER -> Free]
  BY DEF Init
<1>3. /\ dest \in Inodes \union {NoFile}
      /\ dest # NoFile => \A n \in Names : temps[n] # dest
  BY DEF Init
<1>4. data \in [Inodes -> Snapshots \union {Malformed, Partial, Free}]
  <2>1. SUFFICES ASSUME NEW i \in Inodes
                 PROVE  data[i] \in Snapshots \union {Malformed, Partial, Free}
    BY <1>2
  <2>2. CASE i = dest
    BY <1>2, <1>3, <2>2, SentinelAssumption
  <2>3. CASE i # dest /\ \E n \in Names : temps[n] = i
    BY <1>2, <2>3
  <2>4. CASE i # dest /\ ~ \E n \in Names : temps[n] = i
    BY <1>2, <2>4
  <2>5. QED BY <2>2, <2>3, <2>4
<1>5. dest # NoFile => data[dest] = s
  <2>1. SUFFICES ASSUME dest # NoFile PROVE data[dest] = s
    OBVIOUS
  <2>2. dest \in Inodes /\ ~ \E n \in Names : temps[n] = dest
    BY <1>3, <2>1
  <2>3. QED BY <1>2, <2>2
<1>6. TypeOK
  BY <1>1, <1>3, <1>4, NamesAssumption, BoundsAssumption DEF Init, TypeOK, Kinds
<1>7. LockInv
  BY BoundsAssumption, SentinelAssumption
     DEF Init, LockInv, WriterExclusion, Critical
<1>8. FileInv
  <2>1. NamesDistinct
    BY <1>1 DEF NamesDistinct
  <2>2. NamesApart
    BY <1>3 DEF Init, NamesApart
  <2>3. FilesReadable
    BY <1>5 DEF Init, FilesReadable
  <2>4. OwnTemporary
    BY DEF Init, OwnTemporary
  <2>5. LeftoverExists
    BY <1>1, NamesAssumption DEF LeftoverExists
  <2>6. QED BY <2>1, <2>2, <2>3, <2>4, <2>5 DEF FileInv
<1>9. JobInv
  <2>1. Index \in {t \in Snapshots : t.version = 0 /\ Truthful(t)} \union {Malformed, Absent}
    BY <1>5 DEF Index
  <2>2. QED
    BY <2>1, SentinelAssumption DEF Init, JobInv, PublishedTruthful, Saving
<1>10. QED
  BY <1>6, <1>7, <1>8, <1>9 DEF IInv

\* The invariant holds in every reachable state.
THEOREM Invariance == Spec => []IInv
<1>1. Init => IInv
  BY InitInv
<1>2. IInv /\ [Next]_vars => IInv'
  BY TypeStep, LockStep, FileStep, JobStep DEF IInv
<1>3. QED
  BY <1>1, <1>2, PTL DEF Spec

\* Type correctness of the directory and of every process.
THEOREM TypeCorrect == Spec => []TypeOK
<1>1. IInv => TypeOK
  BY DEF IInv
<1>2. QED
  BY <1>1, Invariance, PTL

\* At most one process works on the index, and the lock is held exactly while
\* one does (IndexWriterGuard::acquire and its Drop).
THEOREM Exclusive == Spec => []WriterExclusion
<1>1. IInv => WriterExclusion
  BY DEF IInv, LockInv
<1>2. QED
  BY <1>1, Invariance, PTL

\* No failure or crash of FileIndexWriter::save publishes an unfinished file.
THEOREM Complete == Spec => []PublishedComplete
<1>1. IInv => PublishedComplete
  BY IndexType, SentinelAssumption DEF IInv, PublishedComplete
<1>2. QED
  BY <1>1, Invariance, PTL

\* An index of known scope always holds a scan of exactly that scope
\* (resolve_scan_options and both index_root functions).
THEOREM TruthfulScope == Spec => []PublishedTruthful
<1>1. IInv => PublishedTruthful
  BY DEF IInv, JobInv
<1>2. QED
  BY <1>1, Invariance, PTL

\* A refresh publishes over exactly the snapshot it loaded and compared with.
THEOREM LostUpdateFree == Spec => NoLostUpdate
<1>1. IInv => \A w \in Writers : Rename(w) /\ kind[w] # "index" => opened[w] = Index
  BY DEF IInv, JobInv, RefreshJob, Saving, Rename
<1>2. QED
  BY <1>1, Invariance, PTL DEF NoLostUpdate

\* Every temporary is about to be published or removed, or is known to stay:
\* no error path of FileIndexWriter::save forgets the file it created.
THEOREM Accounted == Spec => []TemporariesAccounted
<1>1. Init => TemporariesAccounted
  BY DEF Init, TemporariesAccounted
<1>2. IInv /\ TemporariesAccounted /\ [Next]_vars => TemporariesAccounted'
  BY AccountedStep
<1>3. QED
  BY <1>1, <1>2, Invariance, PTL DEF Spec

\* A known scope is replaced only by an explicit build, because a refresh
\* publishes the policy and the root it loaded (resolve_scan_options).
THEOREM ScopeKept == Spec => KnownScopeKept
<1> DEFINE Step1 ==
        /\ Index' # Index
        /\ PolicyOf(Index) # Unknown
        /\ \A w \in Writers : ~ (kind[w] = "index" /\ pc[w] = "rename")
        => Index'.policy = Index.policy /\ Index'.root = Index.root
<1>1. IInv /\ [Next]_vars => Step1
  <2>1. SUFFICES ASSUME IInv, [Next]_vars, Index' # Index, PolicyOf(Index) # Unknown,
                        \A w \in Writers : ~ (kind[w] = "index" /\ pc[w] = "rename")
                 PROVE  Index'.policy = Index.policy /\ Index'.root = Index.root
    OBVIOUS
  <2>2. PICK w \in Writers : pc[w] = "rename" /\ Index' = draft[w]
    BY <2>1, QuietIndex, RenameIndex
  <2>3. RefreshJob(w)
    BY <2>1, <2>2 DEF IInv, JobInv, Saving
  <2>4. QED
    BY <2>1, <2>2, <2>3 DEF RefreshJob, PolicyOf, RootOf
<1>2. QED
  BY <1>1, Invariance, PTL DEF Spec, KnownScopeKept

\* A file at a temporary name that no running process owns is left as it is
\* (create_new, and remove_on_drop of the own file only).
THEOREM OthersKept == Spec => OthersTemporariesKept
<1>1. IInv /\ [Next]_vars =>
         \A n \in Names : temps[n] # NoFile /\ n \in leftover =>
            temps'[n] = temps[n] /\ data'[temps[n]] = data[temps[n]]
  BY OthersStep
<1>2. QED
  BY <1>1, Invariance, PTL DEF Spec, OthersTemporariesKept

-----------------------------------------------------------------------------
(***************************************************************************)
(* The refinement of AtomicIndex.                                          *)
(***************************************************************************)
\* The scope of what is about to be published is a known root and, for an
\* explicit build, a known policy.
DraftScope(w) ==
    /\ pc[w] \in {"scan"} \union Saving /\ kind[w] # "index" => draft[w].root \in Roots
    /\ pc[w] \in Saving /\ kind[w] = "index" =>
          draft[w].root \in Roots /\ draft[w].policy \in Policies

ScopeInv == \A w \in Writers : DraftScope(w)

View == [r \in Readers |-> IF fd[r] = NoFile THEN NoView ELSE data[fd[r]]]

-----------------------------------------------------------------------------
\* A refresh that is accepted has a root to scan.
LEMMA ResolvedRootLemma ==
    ASSUME TypeOK, FileInv, Index # Malformed, NEW k \in Kinds \ {"index"},
           NEW q \in RequestsOf(k), RootAccepted(k, Index, q)
    PROVE  ResolvedRoot(Index, q) \in Roots
<1>1. Index \in Snapshots \union {Absent}
  BY IndexType
<1>2. RootOf(Index) \in Roots \union {NoRoot}
  BY <1>1 DEF RootOf, Snapshots
<1>3. q.root \in Roots \union {NoRequest} /\ (k = "refresh" => q.root # NoRequest)
  BY DEF RequestsOf, CliRequests, Requests
<1>4. QED
  BY <1>2, <1>3 DEF ResolvedRoot, RootAccepted, RpcRootAccepted

\* Every step keeps the scope of the drafts.
LEMMA ScopeStep == IInv /\ ScopeInv /\ [Next]_vars => ScopeInv'
<1> SUFFICES ASSUME IInv, ScopeInv, [Next]_vars, NEW v \in Writers
             PROVE  DraftScope(v)'
  BY DEF ScopeInv
<1>0. TypeOK /\ DraftScope(v)
  BY DEF IInv, ScopeInv
<1>1. ASSUME NEW w \in Writers, Acquire(w) \/ Busy(w) \/ Release(w)
      PROVE  DraftScope(v)'
  BY <1>0, <1>1 DEF TypeOK, DraftScope, Saving, Acquire, Busy, Release, Goto, ForgetJob,
      EndProcess, fileVars, jobVars, IInv, LockInv
<1>2. ASSUME NEW w \in Writers, Open(w)
      PROVE  DraftScope(v)'
  <2>1. PICK q \in RequestsOf(kind[w]) :
           /\ PolicyAccepted(Index, q)
           /\ RootAccepted(kind[w], Index, q)
           /\ draft' = [draft EXCEPT ![w] = RefreshDraft(Index, q)]
    BY <1>2 DEF Open
  <2>2. kind[w] \in Kinds \ {"index"} /\ Index # Malformed
    BY <1>2 DEF Open, IInv, LockInv, TypeOK
  <2>3. RefreshDraft(Index, q).root \in Roots
    BY <2>1, <2>2, ResolvedRootLemma DEF RefreshDraft, IInv
  <2>4. QED
    BY <1>0, <1>2, <2>1, <2>2, <2>3 DEF Open, TypeOK, DraftScope, Saving, Goto
<1>3. ASSUME NEW w \in Writers, Scan(w), kind[w] = "index"
      PROVE  DraftScope(v)'
  <2>1. PICK q \in CliRequests : draft' = [draft EXCEPT ![w] = BuildDraft(q)]
    BY <1>3 DEF Scan
  <2>2. BuildDraft(q).root \in Roots /\ BuildDraft(q).policy \in Policies
    BY BoundsAssumption DEF BuildDraft, CliRequests, Requests
  <2>3. QED
    BY <1>0, <1>3, <2>1, <2>2 DEF Scan, TypeOK, DraftScope, Saving, Goto
<1>4. ASSUME NEW w \in Writers, Scan(w), kind[w] # "index"
      PROVE  DraftScope(v)'
  <2>1. draft[w] \in Snapshots
    BY <1>4 DEF Scan, IInv, JobInv, RefreshJob
  <2>2. draft' = [draft EXCEPT ![w] = [draft[w] EXCEPT !.version = version]]
    BY <1>4 DEF Scan
  <2>3. draft'[w].root = draft[w].root
    BY <1>0, <2>1, <2>2 DEF TypeOK, Snapshots
  <2>4. QED
    BY <1>0, <1>4, <2>2, <2>3 DEF Scan, TypeOK, DraftScope, Saving, Goto
<1>5. ASSUME NEW w \in Writers,
             OpenRefused(w) \/ ScanFails(w) \/ CreateTemporary(w) \/ Collide(w)
                \/ CreateFails(w) \/ Write(w) \/ Rename(w) \/ SaveFails(w)
      PROVE  DraftScope(v)'
  BY <1>0, <1>5 DEF TypeOK, DraftScope, Saving, OpenRefused, ScanFails, CreateTemporary,
      Collide, CreateFails, Write, Rename, SaveFails, Goto, jobVars
<1>6. ASSUME NEW w \in Writers,
             StartCommand(w) \/ StartServer(w) \/ ServeRefresh(w)
                \/ StopServer(w) \/ Crash(w)
      PROVE  DraftScope(v)'
  BY <1>0, <1>6 DEF TypeOK, DraftScope, Saving, StartCommand, StartServer, ServeRefresh,
      StopServer, Crash, Running, Goto, ForgetJob, EndProcess, jobVars, IInv, LockInv
<1>7. ASSUME NEW r \in Readers, OpenIndex(r) \/ CloseIndex(r)
      PROVE  DraftScope(v)'
  BY <1>0, <1>7 DEF DraftScope, OpenIndex, CloseIndex, jobVars
<1>8. CASE TreeChanges \/ UNCHANGED vars
  BY <1>0, <1>8 DEF DraftScope, TreeChanges, jobVars, vars
<1>9. QED
  BY <1>1, <1>2, <1>3, <1>4, <1>5, <1>6, <1>7, <1>8 DEF Next, Step

\* No step but its own changes what a reader has open: nothing writes to a
\* file that has been published, and an unlinked file lives until it is closed.
LEMMA ViewFrame ==
    ASSUME IInv, [Next]_vars, NEW r \in Readers, fd[r] # NoFile
    PROVE  fd'[r] # NoFile => data'[fd[r]] = data[fd[r]]
<1>1. fd[r] \in Inodes
  BY DEF IInv, TypeOK
<1>2. ASSUME NEW w \in Writers, Elsewhere(w)
      PROVE  data'[fd[r]] = data[fd[r]]
  BY <1>2, ElsewhereLemma
<1>3. ASSUME NEW w \in Writers, CreateTemporary(w)
      PROVE  data'[fd[r]] = data[fd[r]]
  <2>1. PICK i \in UnusedInodes : data' = [data EXCEPT ![i] = Partial]
    BY <1>3 DEF CreateTemporary
  <2>2. QED
    BY <1>1, <2>1 DEF UnusedInodes, IInv, TypeOK
<1>4. ASSUME NEW w \in Writers, Write(w)
      PROVE  data'[fd[r]] = data[fd[r]]
  <2>1. /\ temps[OwnName(w)] # fd[r]
        /\ data' = [data EXCEPT ![temps[OwnName(w)]] = draft[w]]
    BY <1>4, OwnNameLemma DEF Write, IInv, FileInv, OwnTemporary, NamesApart
  <2>2. QED
    BY <1>1, <2>1 DEF IInv, TypeOK
<1>5. ASSUME NEW w \in Writers, Rename(w) \/ SaveFails(w) \/ Crash(w)
      PROVE  data'[fd[r]] = data[fd[r]]
  BY <1>1, <1>5, ReapLemma DEF Rename, SaveFails, Crash, IInv, TypeOK
<1>6. ASSUME NEW s \in Readers, OpenIndex(s) \/ CloseIndex(s)
      PROVE  fd'[r] # NoFile => data'[fd[r]] = data[fd[r]]
  <2>1. CASE OpenIndex(s)
    BY <2>1 DEF OpenIndex, fileVars
  <2>2. CASE CloseIndex(s)
    <3>1. SUFFICES ASSUME fd'[r] # NoFile
                   PROVE  data'[fd[r]] = data[fd[r]]
      OBVIOUS
    <3>2. fd'[r] = fd[r] /\ data' = Reap(data, dest, temps, fd')
      BY <2>2, <3>1 DEF CloseIndex, IInv, TypeOK
    <3>3. QED
      BY <1>1, <3>2, ReapLemma DEF IInv, TypeOK
  <2>3. QED BY <1>6, <2>1, <2>2
<1>7. CASE TreeChanges \/ UNCHANGED vars
  BY <1>7 DEF TreeChanges, fileVars, vars
<1>8. QED
  BY StepCases, <1>2, <1>3, <1>4, <1>5, <1>6, <1>7

-----------------------------------------------------------------------------
\* The published index of an initial directory is one AtomicIndex starts from.
LEMMA InitMaps == Init => Published!Init
<1> SUFFICES ASSUME Init
             PROVE  Published!Init
  OBVIOUS
<1>1. IInv
  BY InitInv
<1>2. Index \in Snapshots \union {Malformed, Absent}
  BY <1>1, IndexType DEF IInv
<1>3. Index \in Snapshots => Truthful(Index)
  BY <1>1 DEF IInv, JobInv, PublishedTruthful
<1>4. [r \in Readers |-> IF fd[r] = NoFile THEN NoView ELSE data[fd[r]]]
         = [r \in Readers |-> NoView]
  BY DEF Init
<1>5. QED
  BY <1>2, <1>3, <1>4 DEF Published!Init, Published!Snapshots, Snapshots,
     Published!Truthful, Truthful

\* A rename is an atomic build or an atomic refresh.
LEMMA RenameMaps ==
    ASSUME IInv, ScopeInv, [Next]_vars, NEW w \in Writers, Rename(w),
           View' = View, Index' = draft[w]
    PROVE  Published!Next
<1>1. /\ draft[w] \in Snapshots /\ Truthful(draft[w])
      /\ Index \in Snapshots => Index.version <= draft[w].version
  BY DEF Rename, IInv, JobInv, SaveJob, Saving
<1>2. draft[w].root \in Roots /\ draft[w].root # NoRoot
  BY BoundsAssumption DEF Rename, ScopeInv, DraftScope, Saving
<1>3. CASE kind[w] = "index"
  <2>1. draft[w].policy # Unknown
    BY <1>3, BoundsAssumption DEF Rename, ScopeInv, DraftScope, Saving
  <2>2. Published!Rebuild(draft[w])
    BY <1>1, <1>2, <2>1 DEF Published!Rebuild, Published!Truthful, Truthful,
       Published!NotOlder, Published!Snapshots, Snapshots, View
  <2>3. QED
    BY <1>1, <2>2 DEF Published!Next, Published!Snapshots, Snapshots
<1>4. CASE kind[w] # "index"
  <2>1. RefreshJob(w)
    BY <1>4 DEF Rename, IInv, JobInv, Saving
  <2>2. Index # Malformed
    <3>1. Index \in Snapshots \union {Absent, NotOpened}
      BY <2>1 DEF RefreshJob, IInv, TypeOK
    <3>2. QED
      BY <3>1, SentinelAssumption
  <2>3. Published!Update(draft[w])
    BY <1>1, <1>2, <2>1, <2>2 DEF Published!Update, Published!Truthful, Truthful,
       Published!NotOlder, Published!Snapshots, Snapshots, View, RefreshJob, PolicyOf, RootOf
  <2>4. QED
    BY <1>1, <2>3 DEF Published!Next, Published!Snapshots, Snapshots
<1>5. QED BY <1>3, <1>4

\* A reader's own steps are its atomic reads.
LEMMA ReadMaps ==
    ASSUME IInv, NEW r \in Readers, OpenIndex(r) \/ CloseIndex(r), Index' = Index,
           \A s \in Readers : fd'[s] # NoFile /\ fd[s] # NoFile => data'[fd[s]] = data[fd[s]]
    PROVE  Published!Next
<1>1. fd \in [Readers -> Inodes \union {NoFile}]
  BY DEF IInv, TypeOK
<1>2. CASE OpenIndex(r)
  <2>1. fd[r] = NoFile /\ dest # NoFile /\ fd' = [fd EXCEPT ![r] = dest] /\ data' = data
    BY <1>2 DEF OpenIndex, fileVars
  <2>2. Index # Absent
    BY <2>1, IndexType, SentinelAssumption DEF IInv, FileInv, FilesReadable, Index
  <2>3. View' = [View EXCEPT ![r] = Index] /\ View[r] = NoView
    BY <1>1, <2>1 DEF View, Index
  <2>4. Published!BeginRead(r)
    BY <2>2, <2>3 DEF Published!BeginRead, View
  <2>5. QED BY <2>4 DEF Published!Next
<1>3. CASE CloseIndex(r)
  <2>1. fd[r] # NoFile /\ fd' = [fd EXCEPT ![r] = NoFile]
    BY <1>3 DEF CloseIndex
  <2>2. View' = [View EXCEPT ![r] = NoView]
    BY <1>1, <2>1 DEF View
  <2>3. View[r] # NoView
    BY <1>1, <2>1, NoViewAssumption DEF View, IInv, FileInv, FilesReadable
  <2>4. Published!EndRead(r)
    BY <2>2, <2>3 DEF Published!EndRead, View
  <2>5. QED BY <2>4 DEF Published!Next
<1>4. QED BY <1>2, <1>3

\* Every step is a step of AtomicIndex or a stutter.
LEMMA NextMaps ==
    IInv /\ ScopeInv /\ [Next]_vars => [Published!Next]_(Published!vars)
<1> SUFFICES ASSUME IInv, ScopeInv, [Next]_vars
             PROVE  Published!Next \/ (Index' = Index /\ View' = View)
  BY DEF Published!vars, View
<1>1. \A r \in Readers : fd'[r] # NoFile /\ fd[r] # NoFile => data'[fd[r]] = data[fd[r]]
  BY ViewFrame
<1>2. fd' = fd => View' = View
  BY <1>1 DEF View
<1>3. CASE \E r \in Readers : OpenIndex(r) \/ CloseIndex(r)
  <2>1. PICK r \in Readers : OpenIndex(r) \/ CloseIndex(r)
    BY <1>3
  <2>2. Index' = Index
    BY <2>1, ReapLemma, IndexFrame DEF OpenIndex, CloseIndex, fileVars, IInv, TypeOK
  <2>3. QED
    BY <1>1, <2>1, <2>2, ReadMaps
<1>4. CASE \E w \in Writers : Rename(w)
  <2>1. PICK w \in Writers : Rename(w)
    BY <1>4
  <2>2. View' = View
    BY <1>2, <2>1 DEF Rename
  <2>3. Index' = draft[w]
    BY <2>1, RenameIndex
  <2>4. QED
    BY <2>1, <2>2, <2>3, RenameMaps
<1>5. CASE /\ ~ \E r \in Readers : OpenIndex(r) \/ CloseIndex(r)
           /\ ~ \E w \in Writers : Rename(w)
  <2>1. fd' = fd
    <3>1. ASSUME NEW w \in Writers, Elsewhere(w)
          PROVE  fd' = fd
      BY <3>1, ElsewhereLemma
    <3>2. ASSUME NEW w \in Writers,
                 CreateTemporary(w) \/ Write(w) \/ SaveFails(w) \/ Crash(w)
          PROVE  fd' = fd
      BY <3>2 DEF CreateTemporary, Write, SaveFails, Crash
    <3>3. CASE TreeChanges \/ UNCHANGED vars
      BY <3>3 DEF TreeChanges, vars
    <3>4. QED
      BY <1>5, <3>1, <3>2, <3>3, StepCases
  <2>2. Index' = Index
    BY <1>5, QuietIndex
  <2>3. QED BY <1>2, <2>1, <2>2
<1>6. QED BY <1>3, <1>4, <1>5

\* The lock, the temporary, the rename and every failure and crash of
\* FileIndexWriter::save amount, for everybody who only sees the index file,
\* to one atomic replacement; readers keep the snapshot they opened.
THEOREM Implements == Spec => ImplementsAtomicIndex
<1>1. Init => ScopeInv
  BY DEF Init, ScopeInv, DraftScope, Saving
<1>2. IInv /\ ScopeInv /\ [Next]_vars => ScopeInv'
  BY ScopeStep
<1>3. QED
  BY <1>1, <1>2, Invariance, InitMaps, NextMaps, PTL
     DEF Spec, ImplementsAtomicIndex, Published!Spec

=============================================================================
