-------------------------- MODULE IndexPublication --------------------------
(***************************************************************************)
(* How an index file is replaced: the writer lock beside it, the scan, the *)
(* adjacent temporary file and the rename, by every kind of process that   *)
(* writes (`index`, `refresh`, a JSON-RPC server without a lock of its     *)
(* own, the managed service that keeps the lock), next to readers that     *)
(* take no lock.  A process may fail at every step and crash between any   *)
(* two.  A writer w stands for a process id: a process that starts after   *)
(* another one ended may get the same id, hence the same temporary names.  *)
(***************************************************************************)
EXTENDS Integers

CONSTANTS
    Writers,        \* process ids of writing processes
    Readers,        \* processes that load the index without a lock
    Roots, NoRoot,
    Policies, Unknown,
    DefaultPolicy,  \* no excluded names
    NoRequest,      \* a request that leaves a parameter out
    Nobody,         \* a lock without owner
    Inodes,         \* bound: files in the directory of the index
    NoFile,
    Attempts,       \* TEMPORARY_CREATE_ATTEMPTS
    MaxId,          \* bound: temporary names per process id
    MaxVersion,     \* bound: changes of the scanned tree
    ForeignNames,   \* temporary names that unrelated files may occupy
    Absent, Malformed, Partial, Free, NotOpened

ASSUME BoundsAssumption ==
    /\ MaxVersion \in Nat
    /\ MaxId \in Nat
    /\ Attempts \in 1 .. MaxId + 1
    /\ DefaultPolicy \in Policies
    /\ Unknown \notin Policies
    /\ NoRoot \notin Roots

\* A temporary is named after its process id and that process's counter.
Names == Writers \X (0 .. MaxId)

ASSUME NamesAssumption == ForeignNames \subseteq Names

Snapshots == [root : Roots \union {NoRoot}, policy : Policies \union {Unknown},
              scanRoot : Roots, scanPolicy : Policies, version : 0 .. MaxVersion]

ASSUME SentinelAssumption ==
    /\ Nobody \notin Writers
    /\ NoFile \notin Inodes
    /\ {Absent, Malformed, Partial, Free, NotOpened} \intersect Snapshots = {}
    /\ Absent \notin {Malformed, Partial, Free, NotOpened}
    /\ Malformed \notin {Partial, Free, NotOpened}
    /\ Partial \notin {Free, NotOpened}

Truthful(s) == s.policy # Unknown => s.scanPolicy = s.policy /\ s.scanRoot = s.root

VARIABLES
    lock,     \* owner of the writer lock, or Nobody
    dest,     \* inode of the index file, or NoFile
    data,     \* contents of every inode
    temps,    \* inode of every temporary name, or NoFile
    leftover, \* names whose file no running process will remove
    version,  \* version of the scanned tree
    pc, kind,
    opened,   \* the index as the writer loaded it
    draft,    \* the snapshot the writer is about to publish
    tries, nextId,
    fd        \* inode every reader has open, or NoFile

fileVars == <<dest, data, temps, leftover>>
jobVars == <<kind, opened, draft, tries, nextId>>
vars == <<lock, fileVars, version, pc, jobVars, fd>>

Kinds == {"index", "refresh", "standalone", "managed"}
Requests == [root : Roots \union {NoRequest}, policy : Policies \union {NoRequest}]

\* `index` and `refresh` take their root as a positional argument.
CliRequests == {q \in Requests : q.root # NoRequest}

TypeOK ==
    /\ lock \in Writers \union {Nobody}
    /\ dest \in Inodes \union {NoFile}
    /\ data \in [Inodes -> Snapshots \union {Malformed, Partial, Free}]
    /\ temps \in [Names -> Inodes \union {NoFile}]
    /\ leftover \subseteq Names
    /\ version \in 0 .. MaxVersion
    /\ pc \in [Writers -> {"off", "ready", "acquire", "open", "scan", "create",
                           "write", "rename", "release"}]
    /\ kind \in [Writers -> Kinds]
    /\ opened \in [Writers -> Snapshots \union {Absent, NotOpened}]
    /\ draft \in [Writers -> Snapshots \union {NotOpened}]
    /\ tries \in [Writers -> 0 .. Attempts]
    /\ nextId \in [Writers -> 0 .. MaxId + 1]
    /\ fd \in [Readers -> Inodes \union {NoFile}]

\* What a process that loads the index finds.
Index == IF dest = NoFile THEN Absent ELSE data[dest]

\* The name of the temporary a writer has just created.
OwnName(w) == <<w, nextId[w] - 1>>

\* An inode lives while a name or a descriptor refers to it.
Reap(contents, d, names, fds) ==
    [i \in Inodes |-> IF \/ i = d
                         \/ \E n \in Names : names[n] = i
                         \/ \E r \in Readers : fds[r] = i
                      THEN contents[i] ELSE Free]

Init ==
    /\ lock = Nobody
    /\ version = 0
    /\ \E foreign \in SUBSET ForeignNames :
          /\ leftover = foreign
          /\ temps \in [Names -> Inodes \union {NoFile}]
          /\ \A n \in Names : temps[n] # NoFile <=> n \in foreign
          /\ \A m, n \in foreign : temps[m] = temps[n] => m = n
    /\ dest \in Inodes \union {NoFile}
    /\ dest # NoFile => \A n \in Names : temps[n] # dest
    /\ \E s \in {t \in Snapshots : t.version = 0 /\ Truthful(t)} \union {Malformed} :
          data = [i \in Inodes |->
                     CASE i = dest -> s
                       [] \E n \in Names : temps[n] = i -> Partial
                       [] OTHER -> Free]
    /\ pc = [w \in Writers |-> "off"]
    /\ kind = [w \in Writers |-> "index"]
    /\ opened = [w \in Writers |-> NotOpened]
    /\ draft = [w \in Writers |-> NotOpened]
    /\ tries = [w \in Writers |-> 0]
    /\ nextId = [w \in Writers |-> 0]
    /\ fd = [r \in Readers |-> NoFile]

Goto(w, label) == pc' = [pc EXCEPT ![w] = label]

Running(w) == pc[w] # "off"

\* The locals of a finished request are dropped.
ForgetJob(w) ==
    /\ opened' = [opened EXCEPT ![w] = NotOpened]
    /\ draft' = [draft EXCEPT ![w] = NotOpened]
    /\ tries' = [tries EXCEPT ![w] = 0]

\* The process ends; the next one with its id counts from zero.
EndProcess(w) ==
    /\ ForgetJob(w)
    /\ Goto(w, "off")
    /\ kind' = [kind EXCEPT ![w] = "index"]
    /\ nextId' = [nextId EXCEPT ![w] = 0]
    /\ lock' = IF lock = w THEN Nobody ELSE lock

-----------------------------------------------------------------------------
(***************************************************************************)
(* Processes and their requests.                                           *)
(***************************************************************************)
StartCommand(w) ==
    /\ ~ Running(w)
    /\ \E k \in {"index", "refresh"} : kind' = [kind EXCEPT ![w] = k]
    /\ Goto(w, "acquire")
    /\ UNCHANGED <<lock, fileVars, version, opened, draft, tries, nextId, fd>>

\* The managed child takes the lock before it serves, a bare server does not.
StartServer(w) ==
    /\ ~ Running(w)
    /\ \E k \in {"standalone", "managed"} :
          /\ kind' = [kind EXCEPT ![w] = k]
          /\ Goto(w, IF k = "managed" THEN "acquire" ELSE "ready")
    /\ UNCHANGED <<lock, fileVars, version, opened, draft, tries, nextId, fd>>

ServeRefresh(w) ==
    /\ pc[w] = "ready"
    /\ nextId[w] + Attempts <= MaxId + 1
    /\ Goto(w, IF kind[w] = "managed" THEN "open" ELSE "acquire")
    /\ UNCHANGED <<lock, fileVars, version, kind, opened, draft, tries, nextId, fd>>

StopServer(w) ==
    /\ pc[w] = "ready"
    /\ EndProcess(w)
    /\ UNCHANGED <<fileVars, version, fd>>

\* Mutant: the lock file is opened but never locked.
MutantAcquire(w) ==
    /\ pc[w] = "acquire"
    /\ lock' = w
    /\ Goto(w, CASE kind[w] = "index" -> "scan"
                 [] kind[w] = "managed" -> "ready"
                 [] OTHER -> "open")
    /\ UNCHANGED <<fileVars, version, jobVars, fd>>

Acquire(w) ==
    /\ pc[w] = "acquire"
    /\ lock = Nobody
    /\ lock' = w
    /\ Goto(w, CASE kind[w] = "index" -> "scan"
                 [] kind[w] = "managed" -> "ready"
                 [] OTHER -> "open")
    /\ UNCHANGED <<fileVars, version, jobVars, fd>>

\* try_lock does not wait: the command fails, a bare server answers an error.
Busy(w) ==
    /\ pc[w] = "acquire"
    /\ lock # Nobody
    /\ IF kind[w] = "standalone"
       THEN /\ ForgetJob(w)
            /\ Goto(w, "ready")
            /\ UNCHANGED <<lock, kind, nextId>>
       ELSE EndProcess(w)
    /\ UNCHANGED <<fileVars, version, fd>>

\* Mutant: a bare server never drops the guard of its request.
MutantRelease(w) ==
    /\ pc[w] = "release"
    /\ IF kind[w] \in {"standalone", "managed"}
       THEN /\ ForgetJob(w)
            /\ Goto(w, "ready")
            /\ UNCHANGED <<lock, kind, nextId>>
       ELSE EndProcess(w)
    /\ UNCHANGED <<fileVars, version, fd>>

\* The guard is dropped, except by the managed server, which borrows it.
Release(w) ==
    /\ pc[w] = "release"
    /\ IF kind[w] \in {"standalone", "managed"}
       THEN /\ ForgetJob(w)
            /\ Goto(w, "ready")
            /\ lock' = IF kind[w] = "standalone" THEN Nobody ELSE lock
            /\ UNCHANGED <<kind, nextId>>
       ELSE EndProcess(w)
    /\ UNCHANGED <<fileVars, version, fd>>

-----------------------------------------------------------------------------
(***************************************************************************)
(* The scope of a refresh.                                                 *)
(***************************************************************************)
RootOf(s) == IF s \in Snapshots THEN s.root ELSE NoRoot
PolicyOf(s) == IF s \in Snapshots THEN s.policy ELSE Unknown

\* resolve_scan_options refuses a request that differs from a known policy.
PolicyAccepted(s, q) ==
    PolicyOf(s) # Unknown => q.policy \in {PolicyOf(s), NoRequest}

\* Mutant: a request that names no policy scans with the default one.
MutantResolvedPolicy(s, q) == IF q.policy # NoRequest THEN q.policy ELSE DefaultPolicy

ResolvedPolicy(s, q) ==
    IF PolicyOf(s) # Unknown THEN PolicyOf(s)
    ELSE IF q.policy # NoRequest THEN q.policy ELSE DefaultPolicy

\* Mutant: the root argument is taken as it comes.
MutantCliRootAccepted(s, q) == q.root \in Roots

\* The command looks at a stored root only when the policy is known ...
CliRootAccepted(s, q) == PolicyOf(s) # Unknown => RootOf(s) = q.root

\* ... a server whenever there is one.
RpcRootAccepted(s, q) ==
    IF RootOf(s) = NoRoot THEN q.root # NoRequest
    ELSE q.root \in {RootOf(s), NoRequest}

RootAccepted(k, s, q) ==
    IF k = "refresh" THEN CliRootAccepted(s, q) ELSE RpcRootAccepted(s, q)

ResolvedRoot(s, q) == IF q.root # NoRequest THEN q.root ELSE RootOf(s)

\* What a build, and what a refresh of s, makes of a scan of the current tree.
BuildDraft(q) ==
    LET policy == IF q.policy = NoRequest THEN DefaultPolicy ELSE q.policy IN
    [root |-> q.root, policy |-> policy, scanRoot |-> q.root, scanPolicy |-> policy,
     version |-> version]

\* Mutant: the writer drops the policy records.
MutantRefreshDraft(s, q) ==
    [root |-> ResolvedRoot(s, q), policy |-> Unknown,
     scanRoot |-> ResolvedRoot(s, q), scanPolicy |-> ResolvedPolicy(s, q),
     version |-> version]

RefreshDraft(s, q) ==
    [root |-> ResolvedRoot(s, q), policy |-> PolicyOf(s),
     scanRoot |-> ResolvedRoot(s, q), scanPolicy |-> ResolvedPolicy(s, q),
     version |-> version]

RequestsOf(k) == IF k \in {"index", "refresh"} THEN CliRequests ELSE Requests

\* FileIndexStore::open on behalf of a refresh, and the checks that follow it.
Open(w) ==
    /\ pc[w] = "open"
    /\ Index # Malformed
    /\ \E q \in RequestsOf(kind[w]) :
          /\ PolicyAccepted(Index, q)
          /\ RootAccepted(kind[w], Index, q)
          /\ draft' = [draft EXCEPT ![w] = RefreshDraft(Index, q)]
    /\ opened' = [opened EXCEPT ![w] = Index]
    /\ Goto(w, "scan")
    /\ UNCHANGED <<lock, fileVars, version, kind, tries, nextId, fd>>

OpenRefused(w) ==
    /\ pc[w] = "open"
    /\ \/ Index = Malformed
       \/ \E q \in RequestsOf(kind[w]) :
             ~ (PolicyAccepted(Index, q) /\ RootAccepted(kind[w], Index, q))
    /\ Goto(w, "release")
    /\ UNCHANGED <<lock, fileVars, version, jobVars, fd>>

\* A build chooses its scope here; a refresh has resolved it already.
Scan(w) ==
    /\ pc[w] = "scan"
    /\ IF kind[w] = "index"
       THEN \E q \in CliRequests : draft' = [draft EXCEPT ![w] = BuildDraft(q)]
       ELSE draft' = [draft EXCEPT ![w].version = version]
    /\ Goto(w, "create")
    /\ UNCHANGED <<lock, fileVars, version, kind, opened, tries, nextId, fd>>

\* A root that cannot be resolved or read ends the operation.
ScanFails(w) ==
    /\ pc[w] = "scan"
    /\ Goto(w, "release")
    /\ UNCHANGED <<lock, fileVars, version, jobVars, fd>>

-----------------------------------------------------------------------------
(***************************************************************************)
(* FileIndexWriter::save.                                                  *)
(***************************************************************************)
UnusedInodes ==
    {i \in Inodes : /\ i # dest
                    /\ \A n \in Names : temps[n] # i
                    /\ \A r \in Readers : fd[r] # i}

\* Mutant: create and truncate instead of create_new.
MutantCreateTemporary(w) ==
    /\ pc[w] = "create"
    /\ \E i \in IF temps[<<w, nextId[w]>>] # NoFile THEN {temps[<<w, nextId[w]>>]}
                ELSE UnusedInodes :
          /\ temps' = [temps EXCEPT ![<<w, nextId[w]>>] = i]
          /\ data' = [data EXCEPT ![i] = Partial]
    /\ nextId' = [nextId EXCEPT ![w] = @ + 1]
    /\ Goto(w, "write")
    /\ UNCHANGED <<lock, dest, leftover, version, kind, opened, draft, tries, fd>>

\* One attempt uses up one name; create_new never opens a file that exists.
CreateTemporary(w) ==
    /\ pc[w] = "create"
    /\ temps[<<w, nextId[w]>>] = NoFile
    /\ \E i \in UnusedInodes :
          /\ temps' = [temps EXCEPT ![<<w, nextId[w]>>] = i]
          /\ data' = [data EXCEPT ![i] = Partial]
    /\ nextId' = [nextId EXCEPT ![w] = @ + 1]
    /\ Goto(w, "write")
    /\ UNCHANGED <<lock, dest, leftover, version, kind, opened, draft, tries, fd>>

\* Mutant: the same name is tried until it is free.
MutantCollide(w) ==
    /\ pc[w] = "create"
    /\ temps[<<w, nextId[w]>>] # NoFile
    /\ tries' = [tries EXCEPT ![w] = (@ + 1) % Attempts]
    /\ UNCHANGED <<lock, fileVars, version, pc, kind, opened, draft, nextId, fd>>

Collide(w) ==
    /\ pc[w] = "create"
    /\ temps[<<w, nextId[w]>>] # NoFile
    /\ nextId' = [nextId EXCEPT ![w] = @ + 1]
    /\ tries' = [tries EXCEPT ![w] = @ + 1]
    /\ Goto(w, IF tries[w] + 1 < Attempts THEN "create" ELSE "release")
    /\ UNCHANGED <<lock, fileVars, version, kind, opened, draft, fd>>

CreateFails(w) ==
    /\ pc[w] = "create"
    /\ temps[<<w, nextId[w]>>] = NoFile
    /\ nextId' = [nextId EXCEPT ![w] = @ + 1]
    /\ Goto(w, "release")
    /\ UNCHANGED <<lock, fileVars, version, kind, opened, draft, tries, fd>>

\* Mutant: the rename does not wait for the last records.
MutantWrite(w) ==
    /\ pc[w] = "write"
    /\ Goto(w, "rename")
    /\ UNCHANGED <<lock, fileVars, version, jobVars, fd>>

\* Header, metadata and file records, flushed and synced.
Write(w) ==
    /\ pc[w] = "write"
    /\ data' = [data EXCEPT ![temps[OwnName(w)]] = draft[w]]
    /\ Goto(w, "rename")
    /\ UNCHANGED <<lock, dest, temps, leftover, version, jobVars, fd>>

Rename(w) ==
    /\ pc[w] = "rename"
    /\ dest' = temps[OwnName(w)]
    /\ temps' = [temps EXCEPT ![OwnName(w)] = NoFile]
    /\ data' = Reap(data, dest', temps', fd)
    /\ Goto(w, "release")
    /\ UNCHANGED <<lock, leftover, version, jobVars, fd>>

\* Mutant: remove_on_drop is cleared before the rename has succeeded.
MutantSaveFails(w) ==
    /\ pc[w] \in {"write", "rename"}
    /\ Goto(w, "release")
    /\ UNCHANGED <<lock, fileVars, version, jobVars, fd>>

\* A failed write, flush, sync or rename drops the temporary; the removal
\* itself may fail, which the code ignores.
SaveFails(w) ==
    /\ pc[w] \in {"write", "rename"}
    /\ \/ /\ temps' = [temps EXCEPT ![OwnName(w)] = NoFile]
          /\ data' = Reap(data, dest, temps', fd)
          /\ UNCHANGED leftover
       \/ /\ leftover' = leftover \union {OwnName(w)}
          /\ UNCHANGED <<temps, data>>
    /\ Goto(w, "release")
    /\ UNCHANGED <<lock, dest, version, jobVars, fd>>

\* The process is killed: the system frees its lock, its temporary stays.
Crash(w) ==
    /\ Running(w)
    /\ EndProcess(w)
    /\ leftover' = IF pc[w] \in {"write", "rename"} THEN leftover \union {OwnName(w)}
                   ELSE leftover
    /\ UNCHANGED <<dest, data, temps, version, fd>>

-----------------------------------------------------------------------------
OpenIndex(r) ==
    /\ fd[r] = NoFile
    /\ dest # NoFile
    /\ fd' = [fd EXCEPT ![r] = dest]
    /\ UNCHANGED <<lock, fileVars, version, pc, jobVars>>

\* The last record is read and the file closed.
CloseIndex(r) ==
    /\ fd[r] # NoFile
    /\ fd' = [fd EXCEPT ![r] = NoFile]
    /\ data' = Reap(data, dest, temps, fd')
    /\ UNCHANGED <<lock, dest, temps, leftover, version, pc, jobVars>>

\* Somebody adds, changes or removes files under the scanned roots.
TreeChanges ==
    /\ version < MaxVersion
    /\ version' = version + 1
    /\ UNCHANGED <<lock, fileVars, pc, jobVars, fd>>

Step(w) ==
    \/ Acquire(w) \/ Busy(w) \/ Release(w)
    \/ Open(w) \/ OpenRefused(w) \/ Scan(w) \/ ScanFails(w)
    \/ CreateTemporary(w) \/ Collide(w) \/ CreateFails(w)
    \/ Write(w) \/ Rename(w) \/ SaveFails(w)

Next ==
    \/ \E w \in Writers :
          \/ Step(w)
          \/ StartCommand(w) \/ StartServer(w) \/ ServeRefresh(w) \/ StopServer(w)
          \/ Crash(w)
    \/ \E r \in Readers : OpenIndex(r) \/ CloseIndex(r)
    \/ TreeChanges

Spec == Init /\ [][Next]_vars

\* A process that has begun an operation keeps being scheduled.
FairSpec == Spec /\ \A w \in Writers : WF_vars(Step(w))

(***************************************************************************)
(* Properties.                                                             *)
(***************************************************************************)
\* Between taking and releasing the lock.
Critical(w) ==
    \/ pc[w] \in {"open", "scan", "create", "write", "rename", "release"}
    \/ pc[w] = "ready" /\ kind[w] = "managed"

\* No two processes are between acquire and the drop of the guard, and the
\* lock is held exactly while one is, whatever failed or crashed before: a
\* guard neither leaks on an error path nor is freed under its owner.
WriterExclusion == \A w \in Writers : Critical(w) <=> lock = w

\* Loading the index never finds a half-written or an unlinked file: every
\* failure and crash of `save` leaves the destination complete.
PublishedComplete == Index \notin {Partial, Free}

\* A published index of known scope holds the records of a scan of exactly
\* that root under exactly that policy, whichever of the writers produced it.
PublishedTruthful == Index \in Snapshots => Truthful(Index)

\* Every temporary file is either the one a live writer is about to publish
\* or remove, or is known to stay behind (a crash, a failed removal, a file
\* that was there before): no error path forgets its temporary.
TemporariesAccounted ==
    \A n \in Names : temps[n] # NoFile =>
        \/ n \in leftover
        \/ \E w \in Writers : pc[w] \in {"write", "rename"} /\ n = OwnName(w)

\* A refresh replaces exactly the snapshot it loaded and compared against: no
\* publication of another process is lost under it.
NoLostUpdate ==
    [][\A w \in Writers : Rename(w) /\ kind[w] # "index" => opened[w] = Index]_vars

\* A known scan policy, and the root it belongs to, change only by an explicit
\* `index`, or when a missing or rejected file is replaced.
KnownScopeKept ==
    [][/\ Index' # Index
       /\ PolicyOf(Index) # Unknown
       /\ \A w \in Writers : ~ (kind[w] = "index" /\ pc[w] = "rename")
       => Index'.policy = Index.policy /\ Index'.root = Index.root]_vars

\* A file at a temporary name that another process, or nobody, created is
\* never overwritten, removed or renamed by a writer that meets it.
OthersTemporariesKept ==
    [][\A n \in Names : temps[n] # NoFile /\ n \in leftover =>
          temps'[n] = temps[n] /\ data'[temps[n]] = data[temps[n]]]_vars

\* Every operation comes to an end and, but for the managed server, gives the
\* lock back, whatever names are taken and whichever step fails.
OperationsEnd ==
    \A w \in Writers :
        /\ pc[w] \notin {"off", "ready"} ~> pc[w] \in {"off", "ready"}
        /\ lock = w ~> (lock # w \/ kind[w] = "managed")
=============================================================================
