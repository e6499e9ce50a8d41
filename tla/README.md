# A verification of ai-file-search in TLA+

`ai-file-search` keeps a text file with the metadata of the files under a root
directory (an *index*), which a command-line tool builds, refreshes and searches, and
which a managed per-user service serves and refreshes over a private socket. This
directory holds TLA+ models of its concurrent core, the TLC configurations that check
them, and proofs that TLAPS checks.

    tlc -workers 2 -config MCIndexWriters.cfg MCIndexPublication
    tlapm IndexPublicationProofs.tla
    tlapm ServiceLifecycleProofs.tla
    tlapm UnixEndpointProofs.tla
    tlapm StateFileProofs.tla
    tlapm ConnectionLoopProofs.tla
    tlapm FramedExchangeProofs.tla
    tlapm ScanExclusionProofs.tla
    tlapm StatusProofs.tla

`PROJECT.json` lists the components, the runs and their properties, for every property a
mutation of the code that violates it, for every definition the lines it translates, the
hazards of the code, and the theorems.

## 1. Inventory

| Part | Source (under `src/crates`) | State | Operations |
| --- | --- | --- | --- |
| Path identity | `core/src/path_id.rs` | none | normalise separators |
| Scanner | `indexer/src/scanner.rs` | none (reads the tree) | scan with excluded names, leave out the index's own artifacts |
| Index store and format | `indexer/src/store.rs` | records in memory, root, scan policy | load, resolve the scan policy, query |
| Ordered comparison | `indexer/src/comparison.rs` | none | merge two sorted snapshots into a summary |
| Index publication | `indexer/src/store.rs` | index file, temporaries beside it, a counter per process | create temporary, write, sync, rename, remove on failure |
| Writer lock | `indexer/src/writer_lock.rs` | one lock file per index | acquire without waiting, release on drop or death |
| CLI | `cli/src/lib.rs` | none of its own | `index`, `refresh` (write); `query`, `stats`, `status` (read); `search`, `bench`, `fixture` |
| JSON-RPC handlers | `daemon/src/lib.rs`, `protocol` | the guard of the process, or one per request | `refresh`, `index_status`, `search`, `stats`, `ping`, `shutdown` |
| Service lifecycle | `daemon/src/lib.rs` | see the next two rows, child processes | `service start`, `stop`, `status`, `service-run` |
| State file | `daemon/src/service.rs` | advisory JSON record of one generation | read, replace, remove if it matches |
| Startup and instance locks | `daemon/src/service_ownership.rs` | two lock files beside the state file | acquire, probe, drop |
| Bounded I/O | `daemon/src/bounded_io.rs` | a frame being read | frames with size limit and deadline |
| Unix endpoint | `daemon/src/unix_endpoint.rs` | socket, lock file with an ownership record | recover a stale socket, bind, remove on drop |
| Named pipes | `platform/src/windows.rs` | pipe instances | create with access control |
| stdio and unmanaged ipc | `daemon/src/lib.rs` | none | the same handlers on a stream |
| Automatic refresh | `daemon/src/lib.rs` | none yet | only parsed, validated, recorded and compared |

**Interaction.** The parts share files, not memory. Every writer of an index (`index`,
`refresh`, a bare server for one request, the managed service for its whole life) takes
the writer lock, which nobody waits for; readers take nothing and rely on the rename. The
lifecycle commands run as separate processes: they serialise on the startup lock, observe
the service through its instance lock, the state file and a ping, and end it with a
request that names its identity. Any client of the endpoint may ask for a shutdown too, and
need not name anybody. The service takes the index lock, the instance lock and
the endpoint, in this order, and gives them back as endpoint, index, instance.

**What is hard.** Steps of several processes in any order, decisions by values read
earlier (the state file, a probe, an answer), crashes between any two steps, requests that
time out but are executed, error paths that have to free a lock or a file, and probes that
hold the very lock they look at. Nothing of it happens inside one process: the service
handles one connection at a time.

**What makes each part correct.**

* Index publication and writer lock: one writer at a time; the index file is always one
  complete snapshot; a refresh replaces what it loaded; the metadata describes the
  records; no file of somebody else is touched; every operation ends.
* Lifecycle, state file and locks: one service per state path; the record of a live
  service is never lost; a `stop` ends only the recorded generation; what `start`, `stop`
  and `status` say is true; a failed start leaves nothing; an accepted shutdown is
  executed; every command ends.
* Unix endpoint: a socket is unlinked only by its owner or when it is provably stale; a
  clean exit leaves a free endpoint.
* Bounded I/O: exactly the bytes up to the first newline, at most the limit, never after
  the deadline; a request is executed whole or not at all, an answer is returned whole or
  not at all.
* Server loops: no client ends or blocks the managed service, a shutdown that is meant for
  it ends it, answers go to whom they belong. Pipes: the name is there as long as the
  service serves.
* State file: whole records only, changed only by a command that saw what it replaces.
* Ordered comparison: equal to the comparison by maps. Format: what is written is read
  back, and a damaged policy is refused. Scanner: the program's own files are never
  recorded, everybody else's always.

## 2. Modules

| Module | Models |
| --- | --- |
| `AtomicIndex` | abstract: an index that is replaced in one step, and readers that keep what they opened |
| `IndexPublication` | the writer lock, the four kinds of writers, load and scope checks, scan, temporary, write, rename, failures, crashes, readers |
| `MCIndexPublication` | its instances and the refinement mapping to `AtomicIndex` |
| `IndexPublicationProofs` | inductive invariant, theorems and the refinement of `AtomicIndex` |
| `UnixEndpoint` | the path of a socket, its lock file with the ownership record, managed services of several state paths and manual `ipc` servers that want it |
| `MCUnixEndpoint` | its instances |
| `UnixEndpointProofs` | inductive invariant and theorems |
| `ServiceLifecycle` | the commands `start`, `stop`, `status`, the children, both locks, the state file, the index lock, the endpoint and its connections |
| `MCServiceLifecycle` | its instances |
| `ServiceLifecycleProofs` | inductive invariant and theorems |
| `StateRecord` | abstract: one record or none, put and taken away as a whole |
| `StateFile` | the state file read, written and removed by commands, with temporaries, the size limit and the startup lock |
| `StateFileProofs` | inductive invariant, theorems and the refinement of `StateRecord` |
| `BoundedFrame` | `read_frame` under its deadline, a part of the next module |
| `FramedExchange` | one request and its answer, or a stranger on either side; both readers are instances of `BoundedFrame` |
| `FramedExchangeProofs` | the invariant of one reader, which both sides have, the inductive invariant and theorems |
| `ConnectionLoop` | the loop over connections of the managed service and of a manual `ipc` server, on Unix |
| `ConnectionLoopProofs` | inductive invariants and theorems |
| `PipeInstances` | the instances of a Windows pipe name, the same two servers, clients |
| `IndexFormat` | normalised paths, the text of an index written and read |
| `OrderedComparison` | `compare_ordered` and, as its definition, `compare` |
| `IndexStatus` | `status` and `refresh` of one process: load (`IndexFormat`), compare with a scan (`OrderedComparison`), save, load again |
| `ScanExclusion` | a scan of a tree with the program's own files in it |
| `ScanExclusionProofs` | inductive invariant and theorems |
| `StatusProofs` | inductive invariant and theorems of `status` |
| `MCStateFile`, `MCFramedExchange`, `MCConnectionLoop`, `MCPipeInstances`, `MCIndexStatus`, `MCScanExclusion` | their instances |

### IndexPublication

A writer `w` is a process id; `kind[w]` says which program runs under it and `pc[w]` where
it is. Files are inodes: `dest` is the inode of the index file, `temps` the inode of every
temporary name, `fd` what a reader has open, `data` the contents, which are abstracted to
a snapshot (root record, policy record, and which root, policy and version of the tree
were really scanned), `Partial`, `Malformed` or `Free`. One action stands for one call
that can fail or after which a crash is visible to others: `Acquire`/`Busy`
(`try_lock`), `Open`/`OpenRefused` (load, policy and root checks), `Scan`/`ScanFails`,
`CreateTemporary`/`Collide`/`CreateFails` (one attempt each), `Write`, `Rename`,
`SaveFails` (with the removal of the temporary, which may fail too), `Release` and
`Crash`. A process that starts after a crash may get the same process id and, counting
from zero, meets the temporaries of its predecessor. `leftover` is a history variable:
names whose file nobody will remove.

The scope rules are those of the code: `resolve_scan_options` lets a known policy win,
`index_root` of the CLI compares the root only when the policy is known, `index_root` of
the server whenever a root is recorded, and a refresh never records a policy.

### ServiceLifecycle

A child `g` is one generation (process id, start time, instance id), so it is also the
identity in the state file and in the answer of a ping. `childPc[g]` follows
`service_run`; `pc[c]` and `job[c]` follow the command that process `c` runs, with the
values it read earlier (`seen`, `starting`, `active`), the child it spawned and the
iteration of its wait loop. A probe is two steps, since it takes a free lock and drops it
again. A connection in `queue[g]` is a request that was sent; its client may time out or
be killed before the answer, and the request is still served. `handle_managed_connection`
refuses a shutdown only if it names another generation (`Serve`): one without
`params.service`, whose target is `AnyChild` here, ends whatever generation reads it, an
orphan too. No command of this program sends such a request, other clients may
(`AskShutdown`). A fatal error of `accept`, or of the next pipe instance, ends the loop as
well (`ServeFails`), after which the child drops its socket and its locks one by one as it does
after a shutdown. The history variable `ended` remembers what took a child out of its
loop: a stop, or anything else, a kill included. Kills free all locks and
sockets of a process at once; a killed `start` leaves its child behind. `External` is any
other writer of the index.

Commands answer through the outcome states of `pc` (`"stopped"`, `"running"`, ...), in
which what the outcome is about is kept until they return, so that properties can speak about it.

### UnixEndpoint

A server `s` is a process of the managed service; it binds for a state path `owner[s]`
(its hash in the code). `path` is what the name leads to, `listening[i]` who listens on the
socket with inode number `i`, `lock` and `record` are the lock file. The labels of `pc` are
the calls of `prepare`, the probe, `finish`, `write_record` and `EndpointGuard::drop`
between which another process may act or this one may be killed: the identity check and
the removal after it are two steps, in recovery (`Recheck`, `Unlink`) and in the drop
(`VerifyOwn`, `RemoveOwn`), and so are the truncation of the record and its write. The
order of the drops follows the declarations: a service that ends closes its listener
before its guard, a bind that fails drops the guard first, so for a moment the lock is
free and the socket still answers (`Unlock`, `Close`). An inode number is used again once
its file has no name and no listener. `mishap` remembers kills, failed writes and failed
cleanups, `recorded` the state path for which the socket at the path was recorded,
`managed` that no manual server has come yet, and `met[s]` the manual server whose socket
`s` found when it began.

### StateFile

A command `c` reads the file (`peek`), takes the startup lock, reads it again (`look`), and
then either writes the record of its child (`create`, `write`, `sync`, `rename`; on an error
`discard`) or compares and removes (`compare`, `remove`). A record is its state and the
length written so far; `Size[s]` and `Limit` give the boundary at which a record fits
without its newline and not with it. `temps` are the files beside it: `Stray` is one that no
running command has made. `StateRecord` is what the readers may rely on; the mapping takes
the record that is complete at the path, and for a reader the record it has open.

### BoundedFrame and FramedExchange

`pc`, `frame`, `chunk` and `taken` are the locals of `read_frame`; `sent` and `peer` are the
connection, `late` is the deadline. `StartRead`, `Read` and `Examine` are the parts of one
turn between which bytes may arrive or time may pass. A byte is a newline, a byte that is in
no text, a carriage return, or another one. `FramedExchange` has two of these readers,
one per direction, the two writers, a capacity for the unread bytes of a direction and the
three deadlines; closing a socket with unread bytes breaks the connection for the other
side. Either side may be a `stranger`: a process that is not this program, which sends any
bytes, stops, or ends the connection at any time.

### ConnectionLoop and PipeInstances

`current` is the connection that is served, `backlog` the ones that wait, `inbox[c]` what
`c` has sent and nobody has read. `managed` says which server it is: the managed one reads one
request per connection under a deadline and ignores errors of the stream, the manual one
reads on, waits for ever and returns the first error. Requests are the kinds the code tells
apart: a shutdown without or with this identity, one with another identity, any other
request, text that is none, one without its newline, and bytes that are no text. An answer
that cannot be written ends the manual server before it looks whether it was asked to end
(`WriteFails`); the managed one looks first.
In `PipeInstances`, `pending[s]` is the instance that waits and `serving[s]` the one
that is served. The managed service makes the next instance (`Extend`) before it serves.

### IndexFormat, OrderedComparison, IndexStatus, ScanExclusion

A text is a sequence of code points in which keywords and numbers are single characters.
A path of the operating system need not be UTF-8: the numbers `NotUtf8` stand for what is not
in the path of a root, and `Lossy` replaces them by U+FFFD as `to_string_lossy` does when the
root is saved (names of a policy and paths of records are strings before they get here).
`Saved(s)` writes the text; the actions read one line each and stand for the arms of the loop in
`from_reader`. `OrderedComparison` makes one turn of the merge loop per step; `left` and
`right` are positions in the inputs, and `NextLast` skips to the last of adjacent records.
`IndexStatus` composes the two: a text that was saved, or that something else has left at
the path, is loaded line by line, its records are compared in path order with a scan, and a
refresh saves the scan, after which the result is loaded and compared once more.
In `ScanExclusion` a path is a directory and a name, a stamp stands for what is recorded of
a file. The scan reads the names of a directory at once and looks at its entries one by one,
while others change files; `Own` are the files that it is told of. Each entry is asked for its
type before it can be passed over (`PassOver`) or recorded: where the file system lists types
with the names (`typed`) this touches nothing, and entries to be passed over are never looked
at; elsewhere it looks at the file, and fails if that has gone (`Vanished`), an artifact of the
program included.

## 3. Runs

| Run | Bounds | Shows |
| --- | --- | --- |
| `index_writers` | 2 writers, 2 roots, 2 policies, 3 inodes, 1 attempt, 1 name per process, 1 change of the tree, names taken by others | `WriterExclusion`, `PublishedComplete`, `TemporariesAccounted`, `NoLostUpdate`, `PublishedTruthful`, `KnownScopeKept` |
| `index_ends` | 2 writers, 1 reader, 1 root and policy, 2 inodes, 2 attempts, 2 names per process, fairness | `OperationsEnd`, `ImplementsAtomicIndex`, `OthersTemporariesKept` |
| `lifecycle_safety` | 2 commands, 2 generations, 2 configurations, 1 repetition of a wait loop | `OneService`, `OnlyRecordedCloses`, `StoppedMeansGone`, `LiveRecordKept`, `StaleMeansGone`, `FailedStartLeavesNothing`, `StartAnswersTruly` |
| `lifecycle_liveness` | 2 commands, 1 generation, fairness | `CommandsEnd`, `ShutdownTakesEffect` |
| `endpoint` | 3 services, 1 manual server, 2 state paths, 2 inode numbers | `ServingReachable`, `RecordedRecoverable`, `GracefulLeavesFree`, `ListenerKept`, `ForeignKept` |
| `exchange` | 6 requests and 5 answers around a limit of 3, buffer and capacity 2, up to 5 bytes of 4 kinds from a stranger, fairness | `ExecutedWhole`, `AnsweredTruly`, `RefusedJustly`, `DeadlinesKept` |
| `loop` | both servers, 2 clients, 2 requests each, of 6 kinds, fairness | `AnswersAreItsOwn`, `EndsAsAsked`, `ConnectionsEnd` |
| `scan` | 3 directories and a link, 7 paths, 2 changes while scans go on | `UsersFilesRecorded`, `QuietTreeSameScan` |
| `state_file` | 2 commands, 3 records, one of which fits without its newline only and one not at all, 2 kills, 2 attempts, fairness | `SuccessIsReadable`, `ChangesOnlyWhatItSaw`, `TemporariesHarmless`, `ImplementsStateRecord` |
| `status` | paths of up to 4, roots of up to 4, names of up to 2 characters; texts of up to 3 lines of 15 kinds after the header; 3 paths, 2 metadata values, scans of up to 4 records | `SavedIsLoaded`, `PolicyFailsClosed`, `StatusTrue` |
| `pipe` | 2 services, 1 manual server, 3 clients, fairness | `ServiceNeverAbsent` |
| `format_line_breaks` | paths of up to 4 characters with line ends | violates `UntouchedTreeUnchanged` (section 5) |

A property is often a conjunction: what one question has to say about the same steps. Type
invariants are conjuncts of the first property of their run (or, for index publication and
the lifecycle, theorems); `EndsAsAsked`, `DeadlinesKept`, `TemporariesHarmless` and
`ServiceNeverAbsent` also say that what they are about ends.

**Bounds.** Two writers are enough for every race over one lock, and reuse of a process
id makes each of them many processes one after the other. Two attempts and two names per
process cover a collision that is resolved and one that is not; the code has 32 attempts
(`Attempts`). Three inodes are the index, the file a reader keeps and a temporary. The
versions of the tree (`MaxVersion`) tell an older scan from a newer one. In the lifecycle,
the startup lock admits one start or stop at a time, so a second command is the other
contender, the status beside it, or the next one; commands repeat without bound. Two
generations are a recorded one and a new child, or an orphan and the child of the next
start; the theorems hold for any number. One `AskShutdown` waits at a
time: the service ends with it, and nothing behind it is read. `Rounds` stands for 40
iterations or 2 s of `start` and 5 s of `stop`; every wait loop may also end early, when
its deadline passes. `Backlog` is the limit of the listening socket. On an
endpoint, one service holds the lock, one is ending without it and one is the next, and
each of them starts again without bound. With two inode numbers, the socket at the path and
one that still listens without a name, a number is used again as early as it can be, which
is when a stale record is most easily mistaken. Every pair of
an index and a scan within the bound is an initial state of `status`; with four records
there are runs of duplicates before, between and after the records of the index. In the format, each snapshot
has one unusual part, since the parts of a text do not depend on each other, and texts of
two lines and a last one contain every order in which markers and names can be. Limits of a
few bytes let a frame end before, at and after the limit and the buffer; the code has
64 KiB, 1 MiB and 8 KiB. Two clients are one that is served and one that waits. Symmetry is used over
processes, generations, endpoints, state paths and inodes, never in a liveness run.

**Fairness.** `IndexPublication!FairSpec` (of `index_ends`) assumes weak fairness for every process that has
begun an operation (`Step`), nothing for beginning one, crashing or changing the tree.
`ServiceLifecycle!FairSpec` assumes it for every running command and every child. The
operating system schedules running processes, no lock is waited for, and every request
has a deadline, so this is all the code relies on. In particular nothing is assumed of the
other writer that may keep the index lock, of other clients that may ask for a shutdown, or of
errors that end a service. A frame ends because the reader is polled and
time passes: `FramedExchange!FairSpec` assumes weak fairness of the steps of the server and of
the client and of their own deadlines, one by one, and nothing of a stranger, so each side
gets through whatever is on the other.
`ConnectionLoop!FairSpec` and `PipeInstances!FairSpec` assume weak fairness of the managed
service, whose every wait for a client it has is under a deadline, and of the deadline of a client of
the pipe, never of what a client does. The manual server writes its answers without a deadline, so
`ConnectionLoop!FairSpec` assumes nothing of it while it has an answer for a client that is still
there (`AwaitsReader`), which may never read it: that a shutdown which was read ends the manual
server is promised for the other states only. `StateFile!FairSpec` assumes it of running commands.
The comparison is a loop of one thread.

## 4. Proofs

`IndexPublicationProofs` proves, for any finite or infinite sets of writers, readers,
roots, policies, names and inodes satisfying the named assumptions of `IndexPublication`
(`BoundsAssumption`, `NamesAssumption`, `SentinelAssumption`: the bounds are numbers and
the sentinels are distinct), `TypeOK`, `WriterExclusion`, `PublishedComplete`,
`PublishedTruthful`, `NoLostUpdate`, `TemporariesAccounted`, `KnownScopeKept` and
`OthersTemporariesKept`.

The invariant `IInv` has four parts. `LockInv`: a process is critical exactly when it owns
the lock. `FileInv`: no inode has two names, a named or open inode is not free, the
temporary of a writer that is about to write or rename is its own and partial or complete
according to its program counter, and leftovers exist. `JobInv`: what a writer has loaded
is still the index, since it has held the lock from then on, and its draft is a truthful
snapshot. `PublishedComplete` alone is not inductive: a rename publishes what the
temporary holds, which needs `FileInv`, which needs that nobody else writes into it, which
follows from distinct names. `NoLostUpdate` needs `JobInv`, which needs `LockInv`. Each
part has a step lemma (`TypeStep`, `LockStep`, `FileStep`, `JobStep`) with one case per
action. The other properties follow from it case by case: a step that takes a name away or
publishes a file belongs to the owner of the file (`OthersStep`, `AccountedStep`).

The same module proves that `IndexPublication` implements `AtomicIndex` under the
mapping of `MCIndexPublication`: the rename is the atomic replacement, opening and closing a
file are the reads, and every other step, all failures and crashes among them, changes
nothing that a reader can see. It needs that what is about to be published has a known root,
and a known policy after an explicit build (`ScopeInv`), and that "no view" is no snapshot
(`NoViewAssumption`).

`ServiceLifecycleProofs` proves, for any sets of commands, generations, indexes, endpoints
and configurations satisfying the assumptions of `ServiceLifecycle`, `TypeOK`,
`OneService`, `OnlyRecordedCloses`, `StoppedMeansGone`, `StaleMeansGone`,
`FailedStartLeavesNothing`, `LiveRecordKept` and `StartAnswersTruly`.
The argument is one about stale knowledge.
A generation only goes on (`Onward`): once it has served, it owns the instance lock or it
has ended, and it never takes the lock again. So an instance lock that is found free, at
whatever time after the state was read, proves that the generation read has ended
(`FreeMeansEnded`), and no later step can undo this; the answer to a ping alone proves
nothing. `IInv` says this for every command that relies on it (`SeenEnded`), together with
what the startup lock gives: a start or a stop that holds it has seen the state as it
still is (`SeenState`), since nobody else writes it. `TargetInv` follows a shutdown from
the command that sends it, possibly long dead, to the generation that executes it: a shutdown
that names a generation was sent while that one was recorded. A shutdown of another client
names nobody, or is no stop, so `OnlyRecordedCloses` is about the generations that a stop has
ended (`ended`), and `EndedInv` says that only one which has left its loop has been ended at
all. A step
of one process disturbs what is known of the others only through `Onward`, the state file
and the two locks (`CliFrame`, `CliInvKept`), so each action is treated once, for the
process that takes it.

`StartAnswersTruly` needs a second invariant on top of it, about the order of requests. A
command waits for at most one answer, at one place of one queue (`RequestInv`); queues lose
requests at the front, and a client that hangs up leaves its request behind (`Kept`). Only
who holds the startup lock asks for a shutdown, so every shutdown in a queue with the request
of a start comes before it (`Heard`), is executed before the start is answered, and a
generation that did answer is not about to be shut down by a stop (`Untouched`) until the start
lets go of the lock (`HeardStep`). It may be killed, fail or be shut down by another client
meanwhile, and the answer of the start is late then: `StartAnswersTruly` says that nothing else
can have happened to it. A start says `running` or `started` in two places only
(`StartOutcomes`), and it has such an answer in both.

`IInv` and `HeardInv` were model-checked under the bounds of `lifecycle_safety` before they
were proved.

`UnixEndpointProofs` proves `ServingReachable`, `RecordedRecoverable`, `GracefulLeavesFree`,
`ListenerKept` and `ForeignKept` for any sets of services, manual servers, state paths and
inode numbers. The lock makes the services take turns (`LockInv`), and only its holder writes
the record (`RecordInv`). So, until a manual server comes, what the holder has checked or
bound is still at the path (`PathInv`), and whoever listens there is the holder, or a
manual server that it has not met (`HolderInv`); a socket that is removed is one that the
record names. `FreeInv` adds what holds without mishaps: whatever is at the path has a holder
that will remove it.

`StateFileProofs` proves `SuccessIsReadable`, `ChangesOnlyWhatItSaw` and
`ImplementsStateRecord` for any commands, records, lengths, limit and number of attempts. What
a command has found under the startup lock is still at the path when it replaces or removes
it (`FoundInv`), and before the rename the temporary holds the whole record (`WriteInv`),
which the limit of the writer allows only for a record that the reader admits (`WholeIsRead`).
The safety part of `TemporariesHarmless` follows from what one step may do to the temporaries:
it leaves them, begins one whose name was free, goes on with one, or is done with one
(`TempsStep`). So each has a running writer or was left behind, and one left behind stays.

`ConnectionLoopProofs` proves `AnswersAreItsOwn` for any clients, requests and number of
requests. What the server has not read is the end of what was sent (`InboxInv`); it holds one
answer at a time, for the last request it took from its current client (`CurrentInv`);
who waits has not been served (`BacklogInv`); and a client that is still there has had an
answer to all that was read of it, but for the one being written (`AnsweredInv`), so a
missed answer is never replaced by a later one. The safety part of `EndsAsAsked` needs a second
invariant on top (`HaltInv`): a shutdown that is meant for the server has been read exactly if the
server has stopped with it or is on its way out (`Ending`), unless it has failed; from there no
step leads back to reading.
That a server starts with no request read rests on `BoundAssumption` of `ConnectionLoop`, which
says that `MaxRequests` is a natural number.

The last part of the module is about `PipeInstances`, with its `ServersAssumption` as a
hypothesis, and proves the safety part of `ServiceNeverAbsent` (`NameKept`), for any numbers of
servers and clients. A managed service has an instance in every state between its first one and
its end, between two clients too (`HasInstances`, `NameIsThere`), so a second service cannot
create the first instance, and no client finds the name gone.

`FramedExchangeProofs` proves `ExecutedWhole`, `AnsweredTruly`, `RefusedJustly` and the half of
`DeadlinesKept` that is no liveness, for any limits, buffer, capacity, requests, answers and
strangers. Its first part is about one `read_frame`, its state taken as one value (`Request`
for the server, `Answer` for the client), with any limit: what it has kept and what it read
last are the first bytes that the peer sent, without a newline among the kept ones and with
room for more (`KeptInv`), so a verdict is one on the first line (`ReadInv`). Its own steps
(`ReaderKeeps`) and those that the peer may take (`PeerKeeps`) keep this, and every step of the
exchange is one of these for either reader (`RequestReaderSteps`, `AnswerReaderSteps`). What
joins the two is in `EndsInv`, `ClientInv`, `ResultInv` and `ServerInv`: what either side has
sent is the beginning of one text, and a server that answers has executed what it read.

`ScanExclusionProofs` proves `UsersFilesRecorded` and `QuietTreeSameScan`, for every tree, all
names, artifacts and numbers of changes. A file that nobody has touched is recorded, among the
entries of the directory at hand, or in a directory that is still to be read (`FilesInv`); the
last means that every set with the directories on the list and closed under their children
contains it (`Awaited`), so that a walk of any depth needs no induction on it. `LastInv` says
the same of the scan before, for the comparison of the two. An entry that is one of the program's
own is among those at hand only where its type has to be asked for (`WalkInv`), which is the one
way in which it can make a scan fail. That `Parent` is a tree is
`TreeAssumption` of `ScanExclusion`: a set of directories that contains the root and, with a
directory, its children, contains all of them.

`StatusProofs` proves `PolicyFailsClosed`, for any texts, and `SavedIsLoaded` and `StatusTrue`,
for any snapshots and scans, all from two assumptions. `IndexStatus!InputsAssumption`, which TLC
evaluates, says what texts, snapshots and scans are; every path in them is one that
`PathId::from_user_path` has made, since the scanner and the loader make all of theirs with it
(`IsPath`), and a root is any sequence of characters and of what is not UTF-8. `Distinct`, a hypothesis of the theorems, since TLC cannot evaluate it, says that the
values that stand for no policy and for no snapshot are neither. What the theorems rest on:

* The order of strings is a strict total order (`BeforeIsOrder`), so the records of every
  finite map can be brought in order, in one way (`InOrderIs`).
* The merge (`MergeInv`): either side is at the last record of a path, and the counts are those
  of the comparison by maps for the paths that both sides have passed. At the end all are
  (`EndIs`). Duplicates in a row are passed at once (`NextLastIs`, `NextPasses`).
* The loader (`LoadInv`): what it knows of the policy is what the lines that start before its
  position say (`PolicyInv`). A line that is read adds exactly itself to these (`LineRead`), and
  every action of the loader is one of the meanings a line can have (`LineMeans`).
* Everything stays a text: what is escaped, read back, normalised and saved (`SavedIsText`,
  `UnescapedIsText`, `NormalizedIsText`), which is why a refresh leaves a snapshot again.
* The round trip (`SavedInv`). What `save_with` writes after the header is a list of lines, each of
  a kind and with a value (`Entries`), and the text is their sum (`SavedIsSum`). As long as all
  paths keep to their lines, the loader is at one of these sums, and has of the root, the policy
  and the records what the lines behind it say (`IsAt`, `HasRead`): it finds the next one
  (`LineThere`, `EntryThere`), only the action for its kind reads it (`EntryIsRead`), and at the
  end it has read all of them (`SavedIsRead`). A line gives back the value it was written for
  (`BodyIs`) because splitting stops after the fields (`PartsOfFields`), escaping is undone,
  character by character (`EscapedIsReadBack`), and leaves no line ends (`EscapedFits`), and
  normalisation leaves what it has made (`NormalizedTwice`): a path that is clean, without
  empty segments, single dots and slashes at an end, is put together again of its own
  segments (`CleanIsNormalized`). The root that comes back is what `to_string_lossy` has made of the
  saved one, which is a text (`LossyIsText`), and the saved root itself if that is UTF-8
  (`LossyOfUtf8`).
* `StatusInv` joins them: a comparison has the records that were loaded on one side, what
  a refresh has saved is the scan, and so nothing has changed when it is loaded again.

Numbers take the place of induction that the prover has no rule for: every set of numbers has a
least one (`LeastNumber`), so a set with 0 that goes on up to `n` has all numbers up to it
(`UpTo`), and a function can be built step by step (`Recursion`), like the sums of a list of
texts (`SumsExist`). The definitions of
`IndexFormat` that go through a text (`Normalized`, `Unescaped`) are recursive functions, and the
order of a map is chosen (`InOrder`), so that these lemmas apply.

The invariants of these modules were model-checked under the bounds of the runs before they
were proved.

Only model-checked: the liveness properties, which the prover does not handle (`ENABLED` and
fairness). They are `OperationsEnd`, `CommandsEnd`, `ShutdownTakesEffect`, `ConnectionsEnd` and the
liveness parts of `TemporariesHarmless`, `EndsAsAsked`, `DeadlinesKept` and `ServiceNeverAbsent`.
Every safety property of a passing run, and the safety part of every mixed one, is a theorem.

## 5. Findings

`format_line_breaks`: `write_metadata_record` escapes tabs, line ends and backslashes, but
`save_with` writes the path of a file as it is. A tab in it is harmless, since a record is
split at its first two tabs only. A line feed, which a file name may contain on Unix, and a
carriage return at its end are not: the line that is read is shorter, and what follows it
becomes another record. Such a tree never compares as unchanged with its own index
(`UntouchedTreeUnchanged`), although the README says that `status` reports the changes
since the index was saved. What follows the line feed may even read as metadata, a second
policy marker for one, and then the program refuses the index that it has saved itself. The proof
of `SavedIsLoaded` showed this: it promises only of snapshots whose paths keep to their lines that
they are not refused.

Without a run of its own: the design document
(`docs/superpowers/specs/2026-06-24-background-service-mvp-design.md`, line 90) says that
`service status` without state and without an owner of either lock reports `stopped`.
`probe_lock` answers whether a lock is
held by trying to take it, so for a moment the observer itself holds it, and a second
observer reports `starting` or `unresponsive` although nothing runs. By the same effect a
concurrent `start` or `stop` may answer `starting`, and a child may lose its instance
lock to a probe and make its start fail; all of it is in `ServiceLifecycle`, and no safety
property depends on it.

## 6. What is not modelled

* What `query`, `stats`, `search` and `bench` compute and print, the method catalog of the
  JSON-RPC server and the encoding of its records: functions of their input without state.
* The access control list of the pipe and its verification, and the token of the process:
  calls into the security API of the operating system.
* Manual `ipc` servers and the guarantees of the managed endpoint: a manual server replaces
  whatever is at its path without the lock, also between the identity check and the
  removal of a managed service, which then removes the manual server's socket. The
  documentation excludes manual servers, so `ServingReachable`, `ForeignKept` and
  `GracefulLeavesFree` promise the path only as long as none has come (`managed`, `mishap`);
  `ListenerKept` says what is left with one: it keeps its socket if it was there first.
* Validation of directories, of the lock files and of the state file (type, owner, mode,
  links), and their replacement while a service runs.
* Path resolution in `IndexPublication` and `ServiceLifecycle`: one lock per file is
  assumed there. `ScanExclusion` has a link to a directory.
* In the scanner: links below the root, which it does not follow, names that differ in case
  only, and errors other than of a file that has gone.
* What else follows from a path that is not UTF-8. `IndexFormat` shows what is loaded for such a
  root: another path. The checks of a later refresh then compare with that one, while
  `IndexPublication` has roots that come back as they are. Two files whose names differ only in
  what is not UTF-8 have one path in a scan; `StatusTrue` covers such duplicates.
* `fsync` and power failure: a crash is the death of a process, after which its writes are
  visible.
* Who asks for a shutdown in `ServiceLifecycle!AskShutdown`: any client but the commands, with no
  identity or with the right one. Its refused requests and its pings change nothing.
* Requests of the managed service other than `ping` and `shutdown` in `ServiceLifecycle`:
  they delay the server, which the asynchronous steps of the model already allow. A refresh
  by the managed service is a kind of writer of `IndexPublication`.
* Automatic refresh: the code has no such task yet; the interval is only parsed, passed on
  and compared, as part of a configuration.

## 7. Plan

Done: index publication, the service lifecycle, the Unix endpoint, the state file, the
server loop, the pipe instances, frames and exchanges, the scan, and `status` with the format and
the comparison, all with theorems, and the two refinements, with theorems.

1. An abstract endpoint (a name that is owned by one service, stale or free) which
   `UnixEndpoint` implements.
2. `ManagedService`: lifecycle and index publication composed, so that refreshes of the
   service and of the CLI meet through starts and stops.
