------------------------ MODULE UnixEndpointProofs ------------------------
(***************************************************************************)
(* Theorems of UnixEndpoint for every number of services, manual servers,  *)
(* state paths and inode numbers.  The lock makes the managed services     *)
(* take turns, so between two of its steps the holder has to fear manual   *)
(* servers only; and a socket is removed, recovered or recorded on the     *)
(* word of the record, which only the holder writes.                       *)
(***************************************************************************)
EXTENDS UnixEndpoint, TLAPS

\* Labels of a service that holds the lock; that has found the endpoint free or
\* stale; that has bound a socket; that has its guard; whose listener is open.
Guarded == {"setup", "truncate", "record", "confirm", "serving", "closed", "failed", "remove"}
Bound == Guarded \union {"identify"}
Past == Bound \union {"recheck", "unlink", "bind", "unlock"}
Held == Past \union {"inspect", "probe"}
Listening == {"identify", "setup", "truncate", "record", "confirm", "serving"}

LockInv == \A s \in Servers : pc[s] \in Held <=> lock = s

KnowInv == \A s \in Servers :
    /\ pc[s] # "off" => owner[s] \in StatePaths
    /\ pc[s] \in Guarded => guard[s] \in Sockets

\* A manual server that has a socket, or was met, is serving.
ManualInv ==
    /\ managed => \A b \in Bares : pc[b] = "off"
    /\ \A i \in Sockets : listening[i] \in Bares => pc[listening[i]] = "serving"
    /\ \A s \in Servers : met[s] \in Bares => pc[met[s]] = "serving"

\* Without manual servers, what the holder has bound or checked is still there.
PathOf(s) ==
    /\ pc[s] \in Guarded => path = guard[s]
    /\ pc[s] \in Listening => path \in Sockets /\ listening[path] = s
    /\ pc[s] = "unlink" => path \in Sockets

PathInv == managed => \A s \in Servers : PathOf(s)

\* A recorded socket is never that of a bind in progress: nobody spoils its record.
RecordInv ==
    /\ recorded # NoState => path \in Sockets
    /\ RecordedRecoverable
    /\ \A s \in Servers :
          /\ pc[s] \in {"identify", "setup", "truncate", "record"} => recorded = NoState
          /\ pc[s] \in {"confirm", "serving"} =>
                record = [owner |-> owner[s], socket |-> guard[s]]
          /\ pc[s] \in Guarded => recorded \in {owner[s], NoState}
          /\ pc[s] = "unlink" => record = [owner |-> owner[s], socket |-> existing[s]]

\* Nobody listens at the endpoint whom the holder must not displace.
HolderInv == \A s \in Servers : pc[s] \in Past =>
    /\ Holder \in Servers => Holder = s
    /\ Holder \in Bares => Holder # met[s]

\* Without mishaps, whatever is at the path has a holder that will remove it.
FreeInv == ~ mishap =>
    /\ managed
    /\ record # Torn
    /\ path # File
    /\ path # NoSocket => \E s \in Servers : lock = s /\ pc[s] \in Bound

IInv ==
    TypeOK /\ LockInv /\ KnowInv /\ ManualInv /\ PathInv /\ RecordInv /\ HolderInv /\ FreeInv

-----------------------------------------------------------------------------
\* Ending, and closing what a process listens on, keep the types.
LEMMA EndsType ==
  ASSUME TypeOK, NEW s \in Servers, Ends(s)
  PROVE  /\ pc' \in [Processes -> Labels]
         /\ owner' \in [Servers -> StatePaths \union {NoState}]
         /\ existing' \in [Servers -> Sockets \union {NoSocket}]
         /\ guard' \in [Servers -> Sockets \union {NoSocket}]
         /\ met' \in [Servers -> Bares \union {Nobody}]
BY DEF TypeOK, Ends, Goto, Labels, Processes

LEMMA StopListeningType ==
  ASSUME TypeOK, NEW p \in Processes, StopListening(p)
  PROVE  listening' \in [Sockets -> Processes \union {Nobody}]
BY DEF TypeOK, StopListening

\* Every step keeps the types.
LEMMA TypeStep ==
  ASSUME TypeOK, KnowInv, [Next]_vars
  PROVE  TypeOK'
<1> USE SentinelAssumption, RecordAssumption DEF TypeOK, Processes, Labels, Records, KnowInv,
         Guarded
<1>1. ASSUME NEW s \in Servers, Begin(s) \/ TakeLock(s) \/ Inspect(s) \/ Probe(s) \/ Recheck(s)
      PROVE  TypeOK'
  BY <1>1 DEF Begin, TakeLock, Inspect, Probe, Recheck, Goto, Holder, Authorised, Refused,
    fileVars, serverVars, history
<1>2. ASSUME NEW s \in Servers, Unlink(s) \/ Bind(s) \/ Identify(s) \/ SetUp(s)
      PROVE  TypeOK'
  BY <1>2 DEF Unlink, Bind, Identify, SetUp, Goto, Unname, Name, FreeSockets, fileVars,
    serverVars, history
<1>3. ASSUME NEW s \in Servers, Truncate(s) \/ WriteRecord(s) \/ Confirm(s)
      PROVE  TypeOK'
  BY <1>3 DEF Truncate, WriteRecord, Confirm, Goto, fileVars, serverVars, history
<1>4. ASSUME NEW s \in Servers, GiveUp(s) \/ Lose(s) \/ Close(s)
      PROVE  TypeOK'
  <2>1. CASE GiveUp(s)
    BY <2>1, EndsType DEF GiveUp
  <2>2. CASE Lose(s)
    BY <2>2, EndsType, StopListeningType DEF Lose
  <2>3. CASE Close(s)
    BY <2>3, EndsType, StopListeningType DEF Close
  <2>4. QED BY <1>4, <2>1, <2>2, <2>3
<1>5. ASSUME NEW s \in Servers, FailBound(s)
      PROVE  TypeOK'
  BY <1>5 DEF FailBound, Goto, WriteBreaks, serverVars
<1>6. ASSUME NEW s \in Servers, Crash(s)
      PROVE  TypeOK'
  BY <1>6, EndsType, StopListeningType DEF Crash, WriteBreaks
<1>7. ASSUME NEW s \in Servers, Shutdown(s) \/ VerifyOwn(s) \/ RemoveOwn(s)
      PROVE  TypeOK'
  BY <1>7 DEF Shutdown, VerifyOwn, RemoveOwn, Goto, StopListening, Unname, fileVars, serverVars,
    history
<1>8. ASSUME NEW s \in Servers, KeepOwn(s) \/ Unlock(s)
      PROVE  TypeOK'
  BY <1>8 DEF KeepOwn, Unlock, Goto, fileVars, serverVars, history
<1>9. ASSUME NEW b \in Bares, BareUnlink(b)
      PROVE  TypeOK'
  BY <1>9 DEF BareUnlink, Goto, Unname, fileVars, serverVars, history
<1>10. ASSUME NEW b \in Bares, BareBind(b)
      PROVE  TypeOK'
  BY <1>10 DEF BareBind, Goto, Name, FreeSockets, fileVars, serverVars, history
<1>11. ASSUME NEW b \in Bares, BareEnd(b)
      PROVE  TypeOK'
  BY <1>11 DEF BareEnd, Goto, StopListening, fileVars, serverVars, history
<1>12. CASE Occupy \/ Vacate \/ UNCHANGED vars
  BY <1>12 DEF Occupy, Vacate, vars, fileVars, serverVars, history
<1> QED
  BY <1>1, <1>2, <1>3, <1>4, <1>5, <1>6, <1>7, <1>8, <1>9, <1>10, <1>11, <1>12
  DEF Next, ServerStep, BareStep

\* The lock is taken at one label and given back at the end.
LEMMA LockStep ==
  ASSUME TypeOK, LockInv, [Next]_vars
  PROVE  LockInv'
<1> USE SentinelAssumption DEF TypeOK, Processes, LockInv, Held, Past, Bound, Guarded
<1>1. ASSUME NEW s \in Servers, Begin(s) \/ TakeLock(s) \/ Inspect(s) \/ Probe(s) \/ Recheck(s)
      PROVE  LockInv'
  BY <1>1 DEF Begin, TakeLock, Inspect, Probe, Recheck, Goto, Holder, Authorised, Refused,
    fileVars, serverVars, history
<1>2. ASSUME NEW s \in Servers, Unlink(s) \/ Bind(s) \/ Identify(s) \/ SetUp(s)
      PROVE  LockInv'
  BY <1>2 DEF Unlink, Bind, Identify, SetUp, Goto, Unname, Name, FreeSockets, fileVars,
    serverVars, history
<1>3. ASSUME NEW s \in Servers, Truncate(s) \/ WriteRecord(s) \/ Confirm(s)
      PROVE  LockInv'
  BY <1>3 DEF Truncate, WriteRecord, Confirm, Goto, fileVars, serverVars, history
<1>4. ASSUME NEW s \in Servers, GiveUp(s) \/ Lose(s) \/ Close(s)
      PROVE  LockInv'
  BY <1>4 DEF GiveUp, Lose, Close, Ends, Goto, StopListening, fileVars, serverVars, history
<1>5. ASSUME NEW s \in Servers, FailBound(s) \/ Crash(s)
      PROVE  LockInv'
  BY <1>5 DEF FailBound, Crash, Goto, WriteBreaks, Ends, StopListening, fileVars, serverVars,
    history
<1>6. ASSUME NEW s \in Servers, Shutdown(s) \/ VerifyOwn(s) \/ RemoveOwn(s)
      PROVE  LockInv'
  BY <1>6 DEF Shutdown, VerifyOwn, RemoveOwn, Goto, StopListening, Unname, fileVars, serverVars,
    history
<1>7. ASSUME NEW s \in Servers, KeepOwn(s) \/ Unlock(s)
      PROVE  LockInv'
  BY <1>7 DEF KeepOwn, Unlock, Goto, fileVars, serverVars, history
<1>8. ASSUME NEW b \in Bares, BareUnlink(b)
      PROVE  LockInv'
  BY <1>8 DEF BareUnlink, Goto, Unname, fileVars, serverVars, history
<1>9. ASSUME NEW b \in Bares, BareBind(b)
      PROVE  LockInv'
  BY <1>9 DEF BareBind, Goto, Name, FreeSockets, fileVars, serverVars, history
<1>10. ASSUME NEW b \in Bares, BareEnd(b)
      PROVE  LockInv'
  BY <1>10 DEF BareEnd, Goto, StopListening, fileVars, serverVars, history
<1>11. CASE Occupy \/ Vacate \/ UNCHANGED vars
  BY <1>11 DEF Occupy, Vacate, vars, fileVars, serverVars, history
<1> QED
  BY <1>1, <1>2, <1>3, <1>4, <1>5, <1>6, <1>7, <1>8, <1>9, <1>10, <1>11 DEF Next, ServerStep,
    BareStep

\* A service knows its state path from the start and its socket from the bind.
LEMMA KnowStep ==
  ASSUME TypeOK, KnowInv, [Next]_vars
  PROVE  KnowInv'
<1> USE SentinelAssumption DEF TypeOK, Processes, KnowInv, Guarded
<1>1. ASSUME NEW s \in Servers, Begin(s) \/ TakeLock(s) \/ Inspect(s) \/ Probe(s) \/ Recheck(s)
      PROVE  KnowInv'
  BY <1>1 DEF Begin, TakeLock, Inspect, Probe, Recheck, Goto, Holder, Authorised, Refused,
    fileVars, serverVars, history
<1>2. ASSUME NEW s \in Servers, Unlink(s) \/ Bind(s) \/ Identify(s) \/ SetUp(s)
      PROVE  KnowInv'
  BY <1>2 DEF Unlink, Bind, Identify, SetUp, Goto, Unname, Name, FreeSockets, fileVars,
    serverVars, history
<1>3. ASSUME NEW s \in Servers, Truncate(s) \/ WriteRecord(s) \/ Confirm(s)
      PROVE  KnowInv'
  BY <1>3 DEF Truncate, WriteRecord, Confirm, Goto, fileVars, serverVars, history
<1>4. ASSUME NEW s \in Servers, GiveUp(s) \/ Lose(s) \/ Close(s)
      PROVE  KnowInv'
  BY <1>4 DEF GiveUp, Lose, Close, Ends, Goto, StopListening, fileVars, serverVars, history
<1>5. ASSUME NEW s \in Servers, FailBound(s) \/ Crash(s)
      PROVE  KnowInv'
  BY <1>5 DEF FailBound, Crash, Goto, WriteBreaks, Ends, StopListening, fileVars, serverVars,
    history
<1>6. ASSUME NEW s \in Servers, Shutdown(s) \/ VerifyOwn(s) \/ RemoveOwn(s)
      PROVE  KnowInv'
  BY <1>6 DEF Shutdown, VerifyOwn, RemoveOwn, Goto, StopListening, Unname, fileVars, serverVars,
    history
<1>7. ASSUME NEW s \in Servers, KeepOwn(s) \/ Unlock(s)
      PROVE  KnowInv'
  BY <1>7 DEF KeepOwn, Unlock, Goto, fileVars, serverVars, history
<1>8. ASSUME NEW b \in Bares, BareUnlink(b)
      PROVE  KnowInv'
  BY <1>8 DEF BareUnlink, Goto, Unname, fileVars, serverVars, history
<1>9. ASSUME NEW b \in Bares, BareBind(b)
      PROVE  KnowInv'
  BY <1>9 DEF BareBind, Goto, Name, FreeSockets, fileVars, serverVars, history
<1>10. ASSUME NEW b \in Bares, BareEnd(b)
      PROVE  KnowInv'
  BY <1>10 DEF BareEnd, Goto, StopListening, fileVars, serverVars, history
<1>11. CASE Occupy \/ Vacate \/ UNCHANGED vars
  BY <1>11 DEF Occupy, Vacate, vars, fileVars, serverVars, history
<1> QED
  BY <1>1, <1>2, <1>3, <1>4, <1>5, <1>6, <1>7, <1>8, <1>9, <1>10, <1>11 DEF Next, ServerStep,
    BareStep

\* A manual server keeps what it has until it ends.
LEMMA ManualStep ==
  ASSUME TypeOK, ManualInv, [Next]_vars
  PROVE  ManualInv'
<1> USE SentinelAssumption DEF TypeOK, Processes, ManualInv
<1>1. ASSUME NEW s \in Servers, Begin(s) \/ TakeLock(s) \/ Inspect(s) \/ Probe(s) \/ Recheck(s)
      PROVE  ManualInv'
  BY <1>1 DEF Begin, TakeLock, Inspect, Probe, Recheck, Goto, Holder, Authorised, Refused,
    fileVars, serverVars, history
<1>2. ASSUME NEW s \in Servers, Unlink(s) \/ Bind(s) \/ Identify(s) \/ SetUp(s)
      PROVE  ManualInv'
  BY <1>2 DEF Unlink, Bind, Identify, SetUp, Goto, Unname, Name, FreeSockets, fileVars,
    serverVars, history
<1>3. ASSUME NEW s \in Servers, Truncate(s) \/ WriteRecord(s) \/ Confirm(s)
      PROVE  ManualInv'
  BY <1>3 DEF Truncate, WriteRecord, Confirm, Goto, fileVars, serverVars, history
<1>4. ASSUME NEW s \in Servers, GiveUp(s) \/ Lose(s) \/ Close(s)
      PROVE  ManualInv'
  BY <1>4 DEF GiveUp, Lose, Close, Ends, Goto, StopListening, fileVars, serverVars, history
<1>5. ASSUME NEW s \in Servers, FailBound(s) \/ Crash(s)
      PROVE  ManualInv'
  BY <1>5 DEF FailBound, Crash, Goto, WriteBreaks, Ends, StopListening, fileVars, serverVars,
    history
<1>6. ASSUME NEW s \in Servers, Shutdown(s) \/ VerifyOwn(s) \/ RemoveOwn(s)
      PROVE  ManualInv'
  BY <1>6 DEF Shutdown, VerifyOwn, RemoveOwn, Goto, StopListening, Unname, fileVars, serverVars,
    history
<1>7. ASSUME NEW s \in Servers, KeepOwn(s) \/ Unlock(s)
      PROVE  ManualInv'
  BY <1>7 DEF KeepOwn, Unlock, Goto, fileVars, serverVars, history
<1>8. ASSUME NEW b \in Bares, BareUnlink(b)
      PROVE  ManualInv'
  BY <1>8 DEF BareUnlink, Goto, Unname, fileVars, serverVars, history
<1>9. ASSUME NEW b \in Bares, BareBind(b)
      PROVE  ManualInv'
  BY <1>9 DEF BareBind, Goto, Name, FreeSockets, fileVars, serverVars, history
<1>10. ASSUME NEW b \in Bares, BareEnd(b)
      PROVE  ManualInv'
  BY <1>10 DEF BareEnd, Goto, StopListening, fileVars, serverVars, history
<1>11. CASE Occupy \/ Vacate \/ UNCHANGED vars
  BY <1>11 DEF Occupy, Vacate, vars, fileVars, serverVars, history
<1> QED
  BY <1>1, <1>2, <1>3, <1>4, <1>5, <1>6, <1>7, <1>8, <1>9, <1>10, <1>11 DEF Next, ServerStep,
    BareStep

\* Only the holder of the lock changes the path, and nobody else closes its socket.
LEMMA PathStep ==
  ASSUME TypeOK, LockInv, KnowInv, ManualInv, PathInv, [Next]_vars
  PROVE  PathInv'
<1> SUFFICES ASSUME managed', NEW t \in Servers
             PROVE  PathOf(t)'
  BY DEF PathInv
<1>0. managed /\ PathOf(t) /\ (\A b \in Bares : pc[b] = "off")
  <2>1. managed
    BY DEF Next, ServerStep, BareStep, Begin, TakeLock, Inspect, Probe, Recheck, Unlink, Bind,
      Identify, SetUp, Truncate, WriteRecord, Confirm, GiveUp, Lose, FailBound, Shutdown,
      VerifyOwn, RemoveOwn, KeepOwn, Unlock, Close, Crash, BareUnlink, BareBind, BareEnd,
      Occupy, Vacate, Ends, vars, fileVars, serverVars, history
  <2> QED
    BY <2>1 DEF PathInv, ManualInv
<1> USE SentinelAssumption DEF TypeOK, Processes, LockInv, KnowInv, PathOf, Held, Past, Bound,
         Guarded, Listening
<1>1. ASSUME NEW s \in Servers, Begin(s) \/ TakeLock(s) \/ Inspect(s) \/ Probe(s) \/ Recheck(s)
      PROVE  PathOf(t)'
  BY <1>0, <1>1 DEF Begin, TakeLock, Inspect, Probe, Recheck, Goto, Holder, Authorised, Refused,
    fileVars, serverVars, history
<1>2. ASSUME NEW s \in Servers, Unlink(s) \/ Bind(s) \/ Identify(s) \/ SetUp(s)
      PROVE  PathOf(t)'
  BY <1>0, <1>2 DEF Unlink, Bind, Identify, SetUp, Goto, Unname, Name, FreeSockets, fileVars,
    serverVars, history
<1>3. ASSUME NEW s \in Servers, Truncate(s) \/ WriteRecord(s) \/ Confirm(s)
      PROVE  PathOf(t)'
  BY <1>0, <1>3 DEF Truncate, WriteRecord, Confirm, Goto, fileVars, serverVars, history
<1>4. ASSUME NEW s \in Servers, GiveUp(s) \/ Lose(s) \/ Close(s)
      PROVE  PathOf(t)'
  BY <1>0, <1>4 DEF GiveUp, Lose, Close, Ends, Goto, StopListening, fileVars, serverVars, history
<1>5. ASSUME NEW s \in Servers, FailBound(s) \/ Crash(s)
      PROVE  PathOf(t)'
  BY <1>0, <1>5 DEF FailBound, Crash, Goto, WriteBreaks, Ends, StopListening, fileVars, serverVars,
    history
<1>6. ASSUME NEW s \in Servers, Shutdown(s) \/ VerifyOwn(s) \/ RemoveOwn(s)
      PROVE  PathOf(t)'
  BY <1>0, <1>6 DEF Shutdown, VerifyOwn, RemoveOwn, Goto, StopListening, Unname, fileVars,
    serverVars, history
<1>7. ASSUME NEW s \in Servers, KeepOwn(s) \/ Unlock(s)
      PROVE  PathOf(t)'
  BY <1>0, <1>7 DEF KeepOwn, Unlock, Goto, fileVars, serverVars, history
<1>8. ASSUME NEW b \in Bares, BareUnlink(b)
      PROVE  PathOf(t)'
  BY <1>0, <1>8 DEF BareUnlink, Goto, Unname, fileVars, serverVars, history
<1>9. ASSUME NEW b \in Bares, BareBind(b)
      PROVE  PathOf(t)'
  BY <1>0, <1>9 DEF BareBind, Goto, Name, FreeSockets, fileVars, serverVars, history
<1>10. ASSUME NEW b \in Bares, BareEnd(b)
      PROVE  PathOf(t)'
  BY <1>0, <1>10 DEF BareEnd, Goto, StopListening, fileVars, serverVars, history
<1>11. CASE Occupy \/ Vacate \/ UNCHANGED vars
  BY <1>0, <1>11 DEF Occupy, Vacate, vars, fileVars, serverVars, history
<1> QED
  BY <1>1, <1>2, <1>3, <1>4, <1>5, <1>6, <1>7, <1>8, <1>9, <1>10, <1>11 DEF Next, ServerStep,
    BareStep

\* Only the holder of the lock writes the record.
LEMMA RecordStep ==
  ASSUME TypeOK, LockInv, KnowInv, RecordInv, [Next]_vars
  PROVE  RecordInv'
<1> USE SentinelAssumption, RecordAssumption DEF TypeOK, Processes, Records, LockInv, KnowInv,
         RecordInv, RecordedRecoverable, Held, Past, Bound, Guarded
<1>1. ASSUME NEW s \in Servers, Begin(s) \/ TakeLock(s) \/ Inspect(s) \/ Probe(s) \/ Recheck(s)
      PROVE  RecordInv'
  BY <1>1 DEF Begin, TakeLock, Inspect, Probe, Recheck, Goto, Holder, Authorised, Refused,
    fileVars, serverVars, history
<1>2. ASSUME NEW s \in Servers, Unlink(s) \/ Bind(s) \/ Identify(s) \/ SetUp(s)
      PROVE  RecordInv'
  BY <1>2 DEF Unlink, Bind, Identify, SetUp, Goto, Unname, Name, FreeSockets, fileVars,
    serverVars, history
<1>3. ASSUME NEW s \in Servers, Truncate(s) \/ WriteRecord(s) \/ Confirm(s)
      PROVE  RecordInv'
  BY <1>3 DEF Truncate, WriteRecord, Confirm, Goto, fileVars, serverVars, history
<1>4. ASSUME NEW s \in Servers, GiveUp(s) \/ Lose(s) \/ Close(s)
      PROVE  RecordInv'
  BY <1>4 DEF GiveUp, Lose, Close, Ends, Goto, StopListening, fileVars, serverVars, history
<1>5. ASSUME NEW s \in Servers, FailBound(s) \/ Crash(s)
      PROVE  RecordInv'
  BY <1>5 DEF FailBound, Crash, Goto, WriteBreaks, Ends, StopListening, fileVars, serverVars,
    history
<1>6. ASSUME NEW s \in Servers, Shutdown(s) \/ VerifyOwn(s) \/ RemoveOwn(s)
      PROVE  RecordInv'
  BY <1>6 DEF Shutdown, VerifyOwn, RemoveOwn, Goto, StopListening, Unname, fileVars, serverVars,
    history
<1>7. ASSUME NEW s \in Servers, KeepOwn(s) \/ Unlock(s)
      PROVE  RecordInv'
  BY <1>7 DEF KeepOwn, Unlock, Goto, fileVars, serverVars, history
<1>8. ASSUME NEW b \in Bares, BareUnlink(b)
      PROVE  RecordInv'
  BY <1>8 DEF BareUnlink, Goto, Unname, fileVars, serverVars, history
<1>9. ASSUME NEW b \in Bares, BareBind(b)
      PROVE  RecordInv'
  BY <1>9 DEF BareBind, Goto, Name, FreeSockets, fileVars, serverVars, history
<1>10. ASSUME NEW b \in Bares, BareEnd(b)
      PROVE  RecordInv'
  BY <1>10 DEF BareEnd, Goto, StopListening, fileVars, serverVars, history
<1>11. CASE Occupy \/ Vacate \/ UNCHANGED vars
  BY <1>11 DEF Occupy, Vacate, vars, fileVars, serverVars, history
<1> QED
  BY <1>1, <1>2, <1>3, <1>4, <1>5, <1>6, <1>7, <1>8, <1>9, <1>10, <1>11 DEF Next, ServerStep,
    BareStep

\* After the probe only a manual server can come, and one that was met has gone.
LEMMA HolderStep ==
  ASSUME TypeOK, LockInv, ManualInv, HolderInv, [Next]_vars
  PROVE  HolderInv'
<1> USE SentinelAssumption DEF TypeOK, Processes, LockInv, ManualInv, HolderInv, Holder, Held,
         Past, Bound, Guarded
<1>1. ASSUME NEW s \in Servers, Begin(s) \/ TakeLock(s) \/ Inspect(s) \/ Probe(s) \/ Recheck(s)
      PROVE  HolderInv'
  BY <1>1 DEF Begin, TakeLock, Inspect, Probe, Recheck, Goto, Holder, Authorised, Refused,
    fileVars, serverVars, history
<1>2. ASSUME NEW s \in Servers, Unlink(s) \/ Bind(s) \/ Identify(s) \/ SetUp(s)
      PROVE  HolderInv'
  BY <1>2 DEF Unlink, Bind, Identify, SetUp, Goto, Unname, Name, FreeSockets, fileVars,
    serverVars, history
<1>3. ASSUME NEW s \in Servers, Truncate(s) \/ WriteRecord(s) \/ Confirm(s)
      PROVE  HolderInv'
  BY <1>3 DEF Truncate, WriteRecord, Confirm, Goto, fileVars, serverVars, history
<1>4. ASSUME NEW s \in Servers, GiveUp(s) \/ Lose(s) \/ Close(s)
      PROVE  HolderInv'
  BY <1>4 DEF GiveUp, Lose, Close, Ends, Goto, StopListening, fileVars, serverVars, history
<1>5. ASSUME NEW s \in Servers, FailBound(s) \/ Crash(s)
      PROVE  HolderInv'
  BY <1>5 DEF FailBound, Crash, Goto, WriteBreaks, Ends, StopListening, fileVars, serverVars,
    history
<1>6. ASSUME NEW s \in Servers, Shutdown(s) \/ VerifyOwn(s) \/ RemoveOwn(s)
      PROVE  HolderInv'
  BY <1>6 DEF Shutdown, VerifyOwn, RemoveOwn, Goto, StopListening, Unname, fileVars, serverVars,
    history
<1>7. ASSUME NEW s \in Servers, KeepOwn(s) \/ Unlock(s)
      PROVE  HolderInv'
  BY <1>7 DEF KeepOwn, Unlock, Goto, fileVars, serverVars, history
<1>8. ASSUME NEW b \in Bares, BareUnlink(b)
      PROVE  HolderInv'
  BY <1>8 DEF BareUnlink, Goto, Unname, fileVars, serverVars, history
<1>9. ASSUME NEW b \in Bares, BareBind(b)
      PROVE  HolderInv'
  BY <1>9 DEF BareBind, Goto, Name, FreeSockets, fileVars, serverVars, history
<1>10. ASSUME NEW b \in Bares, BareEnd(b)
      PROVE  HolderInv'
  BY <1>10 DEF BareEnd, Goto, StopListening, fileVars, serverVars, history
<1>11. CASE Occupy \/ Vacate \/ UNCHANGED vars
  BY <1>11 DEF Occupy, Vacate, vars, fileVars, serverVars, history
<1> QED
  BY <1>1, <1>2, <1>3, <1>4, <1>5, <1>6, <1>7, <1>8, <1>9, <1>10, <1>11 DEF Next, ServerStep,
    BareStep

\* The path is taken only under the lock, and free again before it is.
LEMMA FreeStep ==
  ASSUME TypeOK, LockInv, KnowInv, ManualInv, PathInv, FreeInv, [Next]_vars
  PROVE  FreeInv'
<1> USE SentinelAssumption, RecordAssumption DEF TypeOK, Processes, Records, LockInv, KnowInv,
         ManualInv, PathInv, PathOf, FreeInv, Held, Past, Bound, Guarded, Listening
<1>1. ASSUME NEW s \in Servers, Begin(s) \/ TakeLock(s) \/ Inspect(s) \/ Probe(s) \/ Recheck(s)
      PROVE  FreeInv'
  BY <1>1 DEF Begin, TakeLock, Inspect, Probe, Recheck, Goto, Holder, Authorised, Refused,
    fileVars, serverVars, history
<1>2. ASSUME NEW s \in Servers, Unlink(s) \/ Bind(s) \/ Identify(s) \/ SetUp(s)
      PROVE  FreeInv'
  BY <1>2 DEF Unlink, Bind, Identify, SetUp, Goto, Unname, Name, FreeSockets, fileVars,
    serverVars, history
<1>3. ASSUME NEW s \in Servers, Truncate(s) \/ WriteRecord(s) \/ Confirm(s)
      PROVE  FreeInv'
  BY <1>3 DEF Truncate, WriteRecord, Confirm, Goto, fileVars, serverVars, history
<1>4. ASSUME NEW s \in Servers, GiveUp(s) \/ Lose(s) \/ Close(s)
      PROVE  FreeInv'
  BY <1>4 DEF GiveUp, Lose, Close, Ends, Goto, StopListening, fileVars, serverVars, history
<1>5. ASSUME NEW s \in Servers, FailBound(s) \/ Crash(s)
      PROVE  FreeInv'
  BY <1>5 DEF FailBound, Crash, Goto, WriteBreaks, Ends, StopListening, fileVars, serverVars,
    history
<1>6. ASSUME NEW s \in Servers, Shutdown(s) \/ VerifyOwn(s) \/ RemoveOwn(s)
      PROVE  FreeInv'
  BY <1>6 DEF Shutdown, VerifyOwn, RemoveOwn, Goto, StopListening, Unname, fileVars, serverVars,
    history
<1>7. ASSUME NEW s \in Servers, KeepOwn(s) \/ Unlock(s)
      PROVE  FreeInv'
  BY <1>7 DEF KeepOwn, Unlock, Goto, fileVars, serverVars, history
<1>8. ASSUME NEW b \in Bares, BareUnlink(b)
      PROVE  FreeInv'
  BY <1>8 DEF BareUnlink, Goto, Unname, fileVars, serverVars, history
<1>9. ASSUME NEW b \in Bares, BareBind(b)
      PROVE  FreeInv'
  BY <1>9 DEF BareBind, Goto, Name, FreeSockets, fileVars, serverVars, history
<1>10. ASSUME NEW b \in Bares, BareEnd(b)
      PROVE  FreeInv'
  BY <1>10 DEF BareEnd, Goto, StopListening, fileVars, serverVars, history
<1>11. CASE Occupy \/ Vacate \/ UNCHANGED vars
  BY <1>11 DEF Occupy, Vacate, vars, fileVars, serverVars, history
<1> QED
  BY <1>1, <1>2, <1>3, <1>4, <1>5, <1>6, <1>7, <1>8, <1>9, <1>10, <1>11 DEF Next, ServerStep,
    BareStep

-----------------------------------------------------------------------------
\* The invariant holds at the beginning, and every step keeps it.
LEMMA Initially == Init => IInv
<1> SUFFICES ASSUME Init PROVE IInv
  OBVIOUS
<1> USE SentinelAssumption DEF Init, Processes
<1>1. TypeOK
  BY DEF TypeOK, Labels
<1>2. \A s \in Servers : pc[s] = "off" /\ lock # s /\ met[s] \notin Bares
  OBVIOUS
<1>3. LockInv /\ KnowInv /\ PathInv /\ HolderInv
  BY <1>2 DEF LockInv, KnowInv, PathInv, PathOf, HolderInv, Held, Past, Bound, Guarded, Listening
<1>4. ManualInv
  BY <1>2 DEF ManualInv
<1>5. RecordInv /\ FreeInv
  BY <1>2, RecordAssumption DEF RecordInv, RecordedRecoverable, FreeInv, Guarded
<1> QED
  BY <1>1, <1>3, <1>4, <1>5 DEF IInv

LEMMA Inductive == IInv /\ [Next]_vars => IInv'
BY TypeStep, LockStep, KnowStep, ManualStep, PathStep, RecordStep, HolderStep, FreeStep DEF IInv

LEMMA Invariance == Spec => []IInv
BY Initially, Inductive, PTL DEF Spec

\* While a service serves, it holds the lock, its record is on disk and, without
\* manual servers, the path leads to its socket (finish, unix_endpoint.rs:387-405).
THEOREM Reachable == Spec => []ServingReachable
<1>1. IInv => ServingReachable
  BY DEF IInv, ServingReachable, LockInv, RecordInv, PathInv, PathOf, Held, Past, Bound,
    Guarded, Listening
<1> QED
  BY <1>1, Invariance, PTL

\* The record of a socket that was recorded stays as long as the socket's name.
THEOREM Recoverable == Spec => []RecordedRecoverable
<1>1. IInv => RecordedRecoverable
  BY DEF IInv, RecordInv
<1> QED
  BY <1>1, Invariance, PTL

\* Without a mishap an endpoint that nobody holds is free.
THEOREM LeftFree == Spec => []GracefulLeavesFree
<1>1. IInv => GracefulLeavesFree
  BY SentinelAssumption DEF IInv, FreeInv, GracefulLeavesFree
<1> QED
  BY <1>1, Invariance, PTL

\* remove_file (unix_endpoint.rs:383, 472) is called by Unlink and RemoveOwn only.
LEMMA WhoRemoves ==
  ASSUME TypeOK, NEW s \in Servers, Removes(s), [Next]_vars
  PROVE  pc[s] \in Past /\ pc[s] \in {"unlink", "remove"}
BY DEF Removes, Past, Bound, Guarded

\* No service removes the name of a socket on which another one listens, or of an
\* earlier manual server.
THEOREM ListenerSurvives == Spec => ListenerKept
<1>1. IInv /\ [Next]_vars =>
        [\A s \in Servers :
            Removes(s) => Holder \in {Nobody, s} \/ (Holder \in Bares /\ Holder # met[s])]_vars
  <2> SUFFICES ASSUME IInv, [Next]_vars, NEW s \in Servers, Removes(s)
               PROVE  Holder \in {Nobody, s} \/ (Holder \in Bares /\ Holder # met[s])
    OBVIOUS
  <2>1. Holder \in Processes \union {Nobody}
    BY DEF IInv, TypeOK, Holder
  <2>2. pc[s] \in Past
    BY WhoRemoves DEF IInv
  <2> QED
    BY <2>1, <2>2 DEF IInv, HolderInv, Processes
<1> QED
  BY <1>1, Invariance, PTL DEF Spec, ListenerKept

\* No service removes the socket of another state path, or what is no socket.
THEOREM ForeignSurvives == Spec => ForeignKept
<1>1. IInv /\ [Next]_vars =>
        [\A s \in Servers :
            Removes(s) =>
               /\ recorded \in {owner[s], NoState}
               /\ managed => path # File]_vars
  <2> SUFFICES ASSUME IInv, [Next]_vars, NEW s \in Servers, Removes(s)
               PROVE  recorded \in {owner[s], NoState} /\ (managed => path # File)
    OBVIOUS
  <2>1. pc[s] \in {"unlink", "remove"}
    BY WhoRemoves DEF IInv
  <2>2. recorded \in {owner[s], NoState}
    BY <2>1 DEF IInv, RecordInv, RecordedRecoverable, Guarded
  <2>3. managed => path # File
    BY <2>1, SentinelAssumption DEF IInv, PathInv, PathOf, KnowInv, Guarded
  <2> QED
    BY <2>2, <2>3
<1> QED
  BY <1>1, Invariance, PTL DEF Spec, ForeignKept
=============================================================================
