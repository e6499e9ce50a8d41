---------------------------- MODULE UnixEndpoint ----------------------------
(***************************************************************************)
(* One Unix endpoint: the path of a socket, and beside it a lock file that *)
(* is never removed and that also holds a record of the last socket bound  *)
(* under the lock and of the state path it served.  Managed services of    *)
(* any number of state paths want the endpoint; a manually started `ipc`   *)
(* server takes it without the lock.                                       *)
(*                                                                         *)
(* Sockets stands for inode numbers: a number is used again once its file  *)
(* has no name and nobody listens on it.                                   *)
(***************************************************************************)
EXTENDS Naturals

CONSTANTS
    Servers,      \* processes of the managed service
    Bares,        \* processes of the manual `ipc` server
    StatePaths,   \* canonical state paths, told apart by their hash
    Sockets,
    NoSocket, File,   \* nothing at the path, something that is no socket
    NoRecord, Torn,   \* an empty lock file, one that is no record
    Nobody, NoState

ASSUME SentinelAssumption ==
    /\ Nobody \notin Servers \union Bares
    /\ Servers \intersect Bares = {}
    /\ {NoSocket, File} \intersect Sockets = {} /\ NoSocket # File
    /\ NoState \notin StatePaths

Records == [owner : StatePaths, socket : Sockets]

ASSUME RecordAssumption == {NoRecord, Torn} \intersect Records = {} /\ NoRecord # Torn

VARIABLES
    path,       \* what the name of the endpoint leads to
    listening,  \* the process that listens on every socket
    lock, record,
    pc,
    owner,      \* the state path of every managed service
    existing,   \* the socket that it found and wants to replace
    guard,      \* the socket that its EndpointGuard removes
    recorded,   \* history: the state path that the socket at the path was recorded for
    mishap,     \* history: something happened that no drop can make good
    met,        \* history: the manual server that had the endpoint when a service began
    managed     \* history: no manual server has come so far

fileVars == <<path, listening, lock, record>>
serverVars == <<owner, existing, guard>>
history == <<recorded, mishap, met, managed>>
vars == <<fileVars, pc, serverVars, history>>

Processes == Servers \union Bares

Labels == {"off", "lock", "inspect", "probe", "recheck", "unlink", "bind", "identify", "setup",
           "truncate", "record", "confirm", "serving", "closed", "failed",
           "remove", "unlock", "close"}

TypeOK ==
    /\ path \in Sockets \union {NoSocket, File}
    /\ listening \in [Sockets -> Processes \union {Nobody}]
    /\ lock \in Servers \union {Nobody}
    /\ record \in Records \union {NoRecord, Torn}
    /\ pc \in [Processes -> Labels]
    /\ owner \in [Servers -> StatePaths \union {NoState}]
    /\ existing \in [Servers -> Sockets \union {NoSocket}]
    /\ guard \in [Servers -> Sockets \union {NoSocket}]
    /\ recorded \in StatePaths \union {NoState}
    /\ mishap \in BOOLEAN
    /\ met \in [Servers -> Bares \union {Nobody}]
    /\ managed \in BOOLEAN

Init ==
    /\ path = NoSocket
    /\ listening = [i \in Sockets |-> Nobody]
    /\ lock = Nobody
    /\ record = NoRecord
    /\ pc = [p \in Processes |-> "off"]
    /\ owner = [s \in Servers |-> NoState]
    /\ existing = [s \in Servers |-> NoSocket]
    /\ guard = [s \in Servers |-> NoSocket]
    /\ recorded = NoState
    /\ mishap = FALSE
    /\ met = [s \in Servers |-> Nobody]
    /\ managed = TRUE

Goto(p, label) == pc' = [pc EXCEPT ![p] = label]

\* What a service knew is gone with it.
Ends(s) ==
    /\ Goto(s, "off")
    /\ owner' = [owner EXCEPT ![s] = NoState]
    /\ existing' = [existing EXCEPT ![s] = NoSocket]
    /\ guard' = [guard EXCEPT ![s] = NoSocket]
    /\ met' = [met EXCEPT ![s] = Nobody]

-----------------------------------------------------------------------------
(***************************************************************************)
(* Names and sockets.                                                      *)
(***************************************************************************)
FreeSockets == {i \in Sockets : path # i /\ listening[i] = Nobody}

\* unlink(2): the name goes, a listening socket stays.
Unname == path' = NoSocket /\ recorded' = NoState

\* bind(2) and listen(2), for which the name has to be free.
Name(p) ==
    /\ path = NoSocket
    /\ \E i \in FreeSockets :
          /\ path' = i
          /\ listening' = [listening EXCEPT ![i] = p]

StopListening(p) ==
    listening' = [i \in Sockets |-> IF listening[i] = p THEN Nobody ELSE listening[i]]

\* Who answers at the endpoint.
Holder == IF path \in Sockets THEN listening[path] ELSE Nobody

\* connect(2) is refused where nobody listens, also by what is no socket.
Refused == path = File \/ (path \in Sockets /\ listening[path] = Nobody)

-----------------------------------------------------------------------------
(***************************************************************************)
(* PendingBind: prepare, probe, finish.                                    *)
(***************************************************************************)
Begin(s) ==
    /\ pc[s] = "off"
    /\ path # File
    /\ \E h \in StatePaths : owner' = [owner EXCEPT ![s] = h]
    /\ met' = [met EXCEPT ![s] = IF Holder \in Bares THEN Holder ELSE Nobody]
    /\ Goto(s, "lock")
    /\ UNCHANGED <<fileVars, existing, guard, recorded, mishap, managed>>

\* Mutant: the lock file is truncated when it is opened.
MutantTakeLock(s) ==
    /\ pc[s] = "lock"
    /\ lock = Nobody
    /\ lock' = s
    /\ record' = NoRecord
    /\ Goto(s, "inspect")
    /\ UNCHANGED <<path, listening, serverVars, history>>

TakeLock(s) ==
    /\ pc[s] = "lock"
    /\ lock = Nobody
    /\ lock' = s
    /\ Goto(s, "inspect")
    /\ UNCHANGED <<path, listening, record, serverVars, history>>

\* Mutant: the state path that the record names is not looked at.
MutantAuthorised(s, socket) ==
    /\ record \in Records
    /\ record.socket = socket

\* The record names this socket, and the state path of this service.
Authorised(s, socket) == record = [owner |-> owner[s], socket |-> socket]

Inspect(s) ==
    /\ pc[s] = "inspect"
    /\ record # Torn
    /\ path # File
    /\ path # NoSocket => Authorised(s, path)
    /\ existing' = [existing EXCEPT ![s] = path]
    /\ Goto(s, IF path = NoSocket THEN "recheck" ELSE "probe")
    /\ UNCHANGED <<fileVars, owner, guard, history>>

\* Mutant: every answer but an accepted connection is taken for a refusal.
MutantProbe(s) ==
    /\ pc[s] = "probe"
    /\ Goto(s, "recheck")
    /\ UNCHANGED <<fileVars, serverVars, history>>

\* Only a definite refusal counts.
Probe(s) ==
    /\ pc[s] = "probe"
    /\ Refused
    /\ Goto(s, "recheck")
    /\ UNCHANGED <<fileVars, serverVars, history>>

Recheck(s) ==
    /\ pc[s] = "recheck"
    /\ path = existing[s]
    /\ IF path = NoSocket THEN Goto(s, "bind")
       ELSE Authorised(s, path) /\ Goto(s, "unlink")
    /\ UNCHANGED <<fileVars, serverVars, history>>

\* remove_file takes whatever has the name now.
Unlink(s) ==
    /\ pc[s] = "unlink"
    /\ path # NoSocket
    /\ Unname
    /\ Goto(s, "bind")
    /\ UNCHANGED <<listening, lock, record, serverVars, mishap, met, managed>>

Bind(s) ==
    /\ pc[s] = "bind"
    /\ Name(s)
    /\ Goto(s, "identify")
    /\ UNCHANGED <<lock, record, serverVars, history>>

\* From here on the guard removes the socket when the bind fails.
Identify(s) ==
    /\ pc[s] = "identify"
    /\ path \in Sockets
    /\ guard' = [guard EXCEPT ![s] = path]
    /\ Goto(s, "setup")
    /\ UNCHANGED <<fileVars, owner, existing, history>>

\* Both checks of the identity around the change of the mode.
SetUp(s) ==
    /\ pc[s] = "setup"
    /\ path = guard[s]
    /\ Goto(s, "truncate")
    /\ UNCHANGED <<fileVars, serverVars, history>>

\* write_record: the old record goes before the new one is there.
Truncate(s) ==
    /\ pc[s] = "truncate"
    /\ record' = NoRecord
    /\ Goto(s, "record")
    /\ UNCHANGED <<path, listening, lock, serverVars, history>>

\* Mutant: the socket that was found is recorded, not the one that was bound.
MutantWriteRecord(s) ==
    /\ pc[s] = "record"
    /\ record' = [owner |-> owner[s], socket |-> existing[s]]
    /\ recorded' = IF path = guard[s] THEN owner[s] ELSE recorded
    /\ Goto(s, "confirm")
    /\ UNCHANGED <<path, listening, lock, serverVars, mishap, met, managed>>

WriteRecord(s) ==
    /\ pc[s] = "record"
    /\ record' = [owner |-> owner[s], socket |-> guard[s]]
    /\ recorded' = IF path = guard[s] THEN owner[s] ELSE recorded
    /\ Goto(s, "confirm")
    /\ UNCHANGED <<path, listening, lock, serverVars, mishap, met, managed>>

Confirm(s) ==
    /\ pc[s] = "confirm"
    /\ path = guard[s]
    /\ Goto(s, "serving")
    /\ UNCHANGED <<fileVars, serverVars, history>>

-----------------------------------------------------------------------------
(***************************************************************************)
(* Failures, and the end of a service.                                     *)
(***************************************************************************)
\* An error before there is a socket drops the lock.
GiveUp(s) ==
    /\ pc[s] \in {"lock", "inspect", "probe", "recheck", "unlink", "bind"}
    /\ lock' = IF lock = s THEN Nobody ELSE lock
    /\ Ends(s)
    /\ UNCHANGED <<path, listening, record, recorded, mishap, managed>>

\* An error between the bind and the guard leaves the socket where it is.
Lose(s) ==
    /\ pc[s] = "identify"
    /\ StopListening(s)
    /\ lock' = Nobody
    /\ mishap' = TRUE
    /\ Ends(s)
    /\ UNCHANGED <<path, record, recorded, managed>>

\* A write that is cut short leaves half a record.
WriteBreaks(s) ==
    IF pc[s] = "record" THEN record' \in {NoRecord, Torn} ELSE UNCHANGED record

\* Later errors drop the guard.
FailBound(s) ==
    /\ pc[s] \in {"setup", "truncate", "record", "confirm"}
    /\ WriteBreaks(s)
    /\ mishap' = (mishap \/ pc[s] = "record")
    /\ Goto(s, "failed")
    /\ UNCHANGED <<path, listening, lock, serverVars, recorded, met, managed>>

\* Mutant: the guard is forgotten.
MutantShutdown(s) ==
    /\ pc[s] = "serving"
    /\ StopListening(s)
    /\ Goto(s, "unlock")
    /\ UNCHANGED <<path, lock, record, serverVars, history>>

\* The listener is dropped before the guard.
Shutdown(s) ==
    /\ pc[s] = "serving"
    /\ StopListening(s)
    /\ Goto(s, "closed")
    /\ UNCHANGED <<path, lock, record, serverVars, history>>

\* EndpointGuard::drop: the socket goes if it is still there.
VerifyOwn(s) ==
    /\ pc[s] \in {"closed", "failed"}
    /\ Goto(s, IF path = guard[s] THEN "remove" ELSE "unlock")
    /\ UNCHANGED <<fileVars, serverVars, history>>

RemoveOwn(s) ==
    /\ pc[s] = "remove"
    /\ Unname
    /\ Goto(s, "unlock")
    /\ UNCHANGED <<listening, lock, record, serverVars, mishap, met, managed>>

\* Errors of the check and of the removal are ignored.
KeepOwn(s) ==
    /\ pc[s] \in {"closed", "failed", "remove"}
    /\ mishap' = TRUE
    /\ Goto(s, "unlock")
    /\ UNCHANGED <<fileVars, serverVars, recorded, met, managed>>

Unlock(s) ==
    /\ pc[s] = "unlock"
    /\ lock' = Nobody
    /\ Goto(s, "close")
    /\ UNCHANGED <<path, listening, record, serverVars, history>>

\* The listener of a bind that failed goes last.
Close(s) ==
    /\ pc[s] = "close"
    /\ StopListening(s)
    /\ Ends(s)
    /\ UNCHANGED <<path, lock, record, recorded, mishap, managed>>

Crash(s) ==
    /\ pc[s] # "off"
    /\ StopListening(s)
    /\ lock' = IF lock = s THEN Nobody ELSE lock
    /\ WriteBreaks(s)
    /\ mishap' = TRUE
    /\ Ends(s)
    /\ UNCHANGED <<path, recorded, managed>>

-----------------------------------------------------------------------------
(***************************************************************************)
(* serve_ipc_with_guard, and whoever puts other things at the path.        *)
(***************************************************************************)
BareUnlink(b) ==
    /\ pc[b] = "off"
    /\ Unname
    /\ mishap' = TRUE
    /\ managed' = FALSE
    /\ Goto(b, "bind")
    /\ UNCHANGED <<listening, lock, record, serverVars, met>>

BareBind(b) ==
    /\ pc[b] = "bind"
    /\ \/ Name(b) /\ Goto(b, "serving")
       \/ Goto(b, "off") /\ UNCHANGED <<path, listening>>
    /\ UNCHANGED <<lock, record, serverVars, history>>

\* A manual server that returns or is killed leaves its socket behind.
BareEnd(b) ==
    /\ pc[b] = "serving"
    /\ StopListening(b)
    /\ met' = [s \in Servers |-> IF met[s] = b THEN Nobody ELSE met[s]]
    /\ Goto(b, "off")
    /\ UNCHANGED <<path, lock, record, serverVars, recorded, mishap, managed>>

Occupy ==
    /\ path = NoSocket
    /\ path' = File
    /\ mishap' = TRUE
    /\ UNCHANGED <<listening, lock, record, pc, serverVars, recorded, met, managed>>

Vacate ==
    /\ path = File
    /\ path' = NoSocket
    /\ UNCHANGED <<listening, lock, record, pc, serverVars, history>>

-----------------------------------------------------------------------------
ServerStep(s) ==
    \/ Begin(s) \/ TakeLock(s) \/ Inspect(s) \/ Probe(s) \/ Recheck(s) \/ Unlink(s)
    \/ Bind(s) \/ Identify(s) \/ SetUp(s) \/ Truncate(s) \/ WriteRecord(s) \/ Confirm(s)
    \/ GiveUp(s) \/ Lose(s) \/ FailBound(s)
    \/ Shutdown(s) \/ VerifyOwn(s) \/ RemoveOwn(s) \/ KeepOwn(s) \/ Unlock(s) \/ Close(s)
    \/ Crash(s)

BareStep(b) == BareUnlink(b) \/ BareBind(b) \/ BareEnd(b)

Next ==
    \/ \E s \in Servers : ServerStep(s)
    \/ \E b \in Bares : BareStep(b)
    \/ Occupy \/ Vacate

Spec == Init /\ [][Next]_vars

-----------------------------------------------------------------------------
(***************************************************************************)
(* Properties.                                                             *)
(***************************************************************************)
Removes(s) == pc[s] \in {"unlink", "remove"} /\ path' # path

\* A managed service never takes the name from a socket on which another managed
\* service listens, whether it recovers a stale one or cleans up its own, nor from a
\* manual server that had the endpoint before it began, even when that one's socket
\* has the recorded inode number of one that is gone: the probe tells them apart,
\* and a path that is taken is never bound.
ListenerKept ==
    [][\A s \in Servers :
          Removes(s) => Holder \in {Nobody, s} \/ (Holder \in Bares /\ Holder # met[s])]_vars

\* remove_file never takes the socket of a service of another state path, dead or
\* alive, nor, while there are only managed services, whatever is no socket.
ForeignKept ==
    [][\A s \in Servers :
          Removes(s) =>
             /\ recorded \in {owner[s], NoState}
             /\ managed => path # File]_vars

\* When finish returned a guard, clients reach the service, and if it is killed the
\* next one of its state path will recognise what it leaves.  A manual server that
\* comes later takes the path without asking.
ServingReachable ==
    /\ TypeOK
    /\ \A s \in Servers :
          pc[s] = "serving" =>
             /\ lock = s
             /\ record = [owner |-> owner[s], socket |-> guard[s]]
             /\ managed => path = guard[s] /\ listening[path] = s

\* A socket that was recorded stays recoverable, whatever binds are tried and
\* fail and are killed after its service: nobody spoils its record.
RecordedRecoverable ==
    recorded # NoState => record = [owner |-> recorded, socket |-> path]

\* Without a crash, a failed write, a failed cleanup or a manual server, services
\* and binds that fail leave the endpoint free for any state path.
GracefulLeavesFree ==
    ~ mishap /\ lock = Nobody => path = NoSocket /\ record # Torn
=============================================================================
