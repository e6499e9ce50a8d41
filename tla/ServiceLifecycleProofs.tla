----------------------- MODULE ServiceLifecycleProofs -----------------------
(***************************************************************************)
(* Theorems of ServiceLifecycle for any number of commands, generations,   *)
(* indexes, endpoints and configurations.  The argument: while a command   *)
(* holds the startup lock nobody else writes the state file, a generation  *)
(* that was ever recorded had taken the instance lock before, and it never *)
(* takes it again; so an instance lock that was found free proves that the *)
(* recorded generation has ended, and this stays true.  What a start says  *)
(* of a running service rests on the order in which requests are answered. *)
(***************************************************************************)
EXTENDS ServiceLifecycle, SequenceTheorems, TLAPS

\* A start or a stop between taking the startup lock and its answer.
Stopping == {"shutdown", "watch", "watched", "confirm", "remove"}
Starting == {"claim", "spawn", "wait", "poll", "verify", "verified", "write", "reap"}
Waiting == Starting \ {"claim", "spawn"}

Coordinates(c) ==
    \/ pc[c] \in {"reread"} \union Stopping \union Starting
    \/ pc[c] \in {"probe", "probed", "ping"} /\ job[c].cmd # "status"

\* The instance lock is held exactly where the code holds it.
InstanceInv == \A g \in Children : instance = g <=> Owns(g)

Locked(c) ==
    /\ Coordinates(c) => startup = c
    /\ pc[c] = "probeStartup" => job[c].cmd = "status"
    /\ instance = c => pc[c] \in {"probe", "verify", "watch"}

\* A generation that answered a request, was recorded or was read as recorded
\* has served, so it can only end.
Served(g) == childPc[g] \in {"serving", "closing", "releasing", "leaving", "gone"}

\* Only a generation that has served has left its serving loop.
EndedInv ==
    \A g \in Children :
       ended[g] # "none" => childPc[g] \in {"closing", "releasing", "leaving", "gone"}

Observed(c) ==
    /\ job[c].seen # NoChild => Served(job[c].seen)
    /\ reply[c] \in Children => Served(reply[c])
    /\ pc[c] \in {"verify", "verified", "write"} => Served(job[c].child)

\* The child of a start, which is gone once the start has failed.
Spawned(c) ==
    /\ pc[c] \in Waiting => job[c].child # NoChild
    /\ job[c].child # NoChild =>
          /\ childPc[job[c].child] # "unborn"
          /\ pc[c] \in Waiting \union {"started", "error"}
    /\ pc[c] = "error" /\ job[c].child # NoChild => childPc[job[c].child] = "gone"

\* A coordinating command has seen the state as it still is ...
SeenState(c) == Coordinates(c) /\ pc[c] # "reread" => job[c].seen = state

\* ... and where it takes the recorded generation for ended, it has ended.
Ended(c) == job[c].seen # NoChild => childPc[job[c].seen] = "gone"

SeenEnded(c) ==
    /\ pc[c] \in {"ping", "stale"} \union Stopping => job[c].seen # NoChild
    /\ pc[c] \in {"probed", "ping", "watched"} /\ ~ job[c].active => Ended(c)
    /\ pc[c] \in {"confirm", "remove", "stopped", "stale"} \union Starting => Ended(c)

CliInv(c) == Locked(c) /\ Observed(c) /\ Spawned(c) /\ SeenState(c) /\ SeenEnded(c)

\* A shutdown that is on its way is meant for the recorded generation.
TargetInv ==
    \A g \in Children : \A k \in DOMAIN queue[g] :
       LET h == queue[g][k].target IN
       h \in Children => h = state \/ childPc[h] = "gone"

IInv ==
    /\ TypeOK
    /\ InstanceInv
    /\ state # NoChild => Served(state)
    /\ \A c \in Clis : CliInv(c)
    /\ TargetInv
    /\ EndedInv
    /\ OnlyRecordedCloses

\* A step in which no command has a part.
ChildMoves(g) == ChildStep(g) \/ ServeFails(g) \/ ChildCrash(g) \/ AskShutdown(g)

-----------------------------------------------------------------------------
(***************************************************************************)
(* Types.                                                                  *)
(***************************************************************************)
\* What the helpers that several actions share keep of the types.
LEMMA DisconnectType ==
    ASSUME TypeOK, NEW c \in Clis, Disconnect(c)
    PROVE  queue' \in [Children -> Seq(Connections)]
<1>1. SUFFICES ASSUME NEW g \in Children
              PROVE  queue'[g] \in Seq(Connections)
    BY DEF Disconnect
<1>2. queue[g] \in Seq(Connections)
    BY DEF TypeOK
<1>3. PICK n \in Nat : DOMAIN queue[g] = 1 .. n
    BY <1>2
<1>4. \A k \in 1 .. n : queue[g][k] \in Connections
    BY <1>2, <1>3
<1>5. queue'[g] \in [1 .. n -> Connections]
    BY <1>3, <1>4 DEF Disconnect, Connections
<1>6. QED
    BY <1>5, SeqDef

\* Dropping the socket of a child clears its place, its queue and its clients.
LEMMA HangUpType ==
    ASSUME TypeOK, NEW g \in Children, HangUp(g)
    PROVE  /\ listener' \in [Endpoints -> Children \union {Nobody}]
           /\ queue' \in [Children -> Seq(Connections)]
           /\ reply' \in [Clis -> Replies \union Children]
BY DEF TypeOK, HangUp, Replies

\* The same for the end of a child, which drops its locks as well.
LEMMA EndChildType ==
    ASSUME TypeOK, NEW g \in Children, EndChild(g)
    PROVE  /\ listener' \in [Endpoints -> Children \union {Nobody}]
           /\ queue' \in [Children -> Seq(Connections)]
           /\ reply' \in [Clis -> Replies \union Children]
           /\ instance' \in Clis \union Children \union {Nobody}
           /\ index' \in [Indexes -> Clis \union Children \union {Nobody, External}]
           /\ childPc' \in [Children -> ChildLabels]
           /\ ended' \in [Children -> Causes]
<1>1. HangUp(g)
    BY DEF EndChild
<1>2. ended' \in [Children -> Causes]
    BY DEF TypeOK, EndChild, Causes
<1>3. QED
    BY <1>1, <1>2, HangUpType DEF TypeOK, EndChild, Without, ChildGoto, ChildLabels

\* A returning command.
LEMMA AnswerType ==
    ASSUME TypeOK, NEW c \in Clis, NEW outcome \in Outcomes, Answer(c, outcome)
    PROVE  /\ pc' \in [Clis -> CliLabels]
           /\ startup' \in Clis \union {Nobody}
           /\ job' \in [Clis -> Jobs]
<1>1. job[c] \in Jobs
    BY DEF TypeOK
<1>. DEFINE seen == IF outcome \in {"stopped", "stale"} THEN job[c].seen ELSE NoChild
<1>2. [job[c] EXCEPT !.starting = FALSE, !.active = FALSE, !.rounds = 0, !.seen = seen] \in Jobs
  <2>1. 0 \in 0 .. Rounds
    BY BoundsAssumption
  <2>2. QED
    BY <1>1, <2>1 DEF Jobs
<1>3. QED
    BY <1>2 DEF TypeOK, Answer, Goto, CliLabels

\* A wait loop that goes on has a round left.
LEMMA NextRoundType ==
    ASSUME TypeOK, NEW c \in Clis, NEW label \in {"watch", "wait"}, NextRound(c, label)
    PROVE  /\ pc' \in [Clis -> CliLabels]
           /\ job' \in [Clis -> Jobs]
<1>1. job[c] \in Jobs
    BY DEF TypeOK
<1>2. job[c].rounds + 1 \in 0 .. Rounds
    BY <1>1, BoundsAssumption DEF NextRound, Jobs
<1>3. [job[c] EXCEPT !.rounds = @ + 1, !.active = FALSE] \in Jobs
    BY <1>1, <1>2 DEF Jobs
<1>4. QED
    BY <1>3 DEF TypeOK, NextRound, Goto, CliLabels

\* The initial state is well typed.
LEMMA InitType == Init => TypeOK
<1>1. SUFFICES ASSUME Init PROVE TypeOK
    OBVIOUS
<1>2. NoJob \in Jobs
    BY BoundsAssumption DEF NoJob, Jobs
<1>3. queue \in [Children -> Seq(Connections)]
    BY <1>1 DEF Init
<1>4. QED
    BY <1>1, <1>2, <1>3 DEF Init, TypeOK, Replies, ChildLabels, CliLabels, Causes

\* Every step of a child keeps the types.
LEMMA ChildType ==
    ASSUME TypeOK, NEW g \in Children, ChildMoves(g)
    PROVE  TypeOK'
<1>. USE DEF TypeOK, ChildGoto, ChildLabels, EndLoop, Causes
<1>1. CASE TakeIndex(g)
  <2>. DEFINE i == config[g].index
  <2>1. index' = index \/ index' = [index EXCEPT ![i] = g]
    BY <1>1 DEF TakeIndex
  <2>. HIDE DEF i
  <2>2. index' \in [Indexes -> Clis \union Children \union {Nobody, External}]
    BY <2>1
  <2>3. childPc' \in [Children -> ChildLabels]
    BY <1>1 DEF TakeIndex
  <2>4. QED
    BY <1>1, <2>2, <2>3 DEF TakeIndex, cliVars
<1>2. CASE TakeInstance(g)
  <2>1. childPc' \in [Children -> ChildLabels]
    BY <1>2 DEF TakeInstance
  <2>2. QED
    BY <1>2, <2>1 DEF TakeInstance, cliVars
<1>3. CASE GiveUpEarly(g)
    BY <1>3 DEF GiveUpEarly, cliVars
<1>4. CASE Abandon(g)
    BY <1>4 DEF Abandon, Without, cliVars
<1>5. CASE Bind(g)
    BY <1>5 DEF Bind, lockVars, cliVars
<1>6. CASE BindFails(g)
    BY <1>6 DEF BindFails, lockVars, cliVars
<1>7. CASE Serve(g)
  <2>1. queue' \in [Children -> Seq(Connections)]
    BY <1>7 DEF Serve
  <2>2. reply' \in [Clis -> Replies \union Children]
    BY <1>7 DEF Serve, Respond, Replies
  <2>3. childPc' \in [Children -> ChildLabels] /\ ended' \in [Children -> Causes]
    BY <1>7 DEF Serve
  <2>4. QED
    BY <1>7, <2>1, <2>2, <2>3 DEF Serve, lockVars
<1>8. CASE Close(g)
    BY <1>8, HangUpType DEF Close, lockVars
<1>9. CASE ReleaseIndex(g)
    BY <1>9 DEF ReleaseIndex, Without, cliVars
<1>10. CASE ReleaseInstance(g)
    BY <1>10 DEF ReleaseInstance, cliVars
<1>11. CASE ChildCrash(g)
    BY <1>11, EndChildType DEF ChildCrash
<1>12. CASE ServeFails(g)
    BY <1>12 DEF ServeFails, lockVars, cliVars
<1>13. CASE AskShutdown(g)
  <2>. DEFINE request == [from |-> Nobody, target |-> AnyChild]
  <2>1. request \in Connections
    BY DEF Connections
  <2>2. queue' = [queue EXCEPT ![g] = Append(@, request)]
    BY <1>13 DEF AskShutdown
  <2>. HIDE DEF request
  <2>3. queue' \in [Children -> Seq(Connections)]
    BY <2>1, <2>2
  <2>4. QED
    BY <1>13, <2>3 DEF AskShutdown, lockVars, cliVars
<1>14. QED
    BY <1>1, <1>2, <1>3, <1>4, <1>5, <1>6, <1>7, <1>8, <1>9, <1>10, <1>11, <1>12, <1>13 DEF ChildMoves, ChildStep

\* What Answer and NextRound leave of a job: Answer, of what was seen, what its outcome
\* is about.
LEMMA AnswerKeeps ==
    ASSUME TypeOK, NEW c \in Clis, NEW outcome \in Outcomes, Answer(c, outcome)
    PROVE  /\ pc' = [pc EXCEPT ![c] = outcome]
           /\ \A d \in Clis \ {c} : job'[d] = job[d]
           /\ job'[c].cmd = job[c].cmd
           /\ job'[c].want = job[c].want
           /\ job'[c].seen = IF outcome \in {"stopped", "stale"} THEN job[c].seen ELSE NoChild
           /\ job'[c].child = job[c].child
           /\ startup' = startup \/ (startup = c /\ startup' = Nobody)
           /\ startup' # c
<1>1. c # Nobody
    BY SentinelAssumption
<1>2. job[c] \in Jobs
    BY DEF TypeOK
<1>3. job' = [job EXCEPT ![c] =
                 [job[c] EXCEPT !.starting = FALSE, !.active = FALSE, !.rounds = 0,
                    !.seen = IF outcome \in {"stopped", "stale"} THEN job[c].seen ELSE NoChild]]
    BY DEF Answer
<1>4. /\ job'[c].cmd = job[c].cmd
      /\ job'[c].want = job[c].want
      /\ job'[c].seen = IF outcome \in {"stopped", "stale"} THEN job[c].seen ELSE NoChild
      /\ job'[c].child = job[c].child
      /\ \A d \in Clis \ {c} : job'[d] = job[d]
    BY <1>2, <1>3 DEF TypeOK, Jobs
<1>5. /\ startup' = startup \/ (startup = c /\ startup' = Nobody)
      /\ startup' # c
  <2>1. startup' = IF startup = c THEN Nobody ELSE startup
    BY DEF Answer
  <2>2. QED
    BY <1>1, <2>1
<1>6. pc' = [pc EXCEPT ![c] = outcome]
    BY DEF Answer, Goto
<1>7. QED
    BY <1>4, <1>5, <1>6

\* A wait loop that goes on keeps what the command has learnt.
LEMMA NextRoundKeeps ==
    ASSUME TypeOK, NEW c \in Clis, NEW label \in {"watch", "wait"}, NextRound(c, label)
    PROVE  /\ pc' = [pc EXCEPT ![c] = label]
           /\ \A d \in Clis \ {c} : job'[d] = job[d]
           /\ job'[c].cmd = job[c].cmd
           /\ job'[c].want = job[c].want
           /\ job'[c].seen = job[c].seen
           /\ job'[c].child = job[c].child
BY DEF TypeOK, Jobs, NextRound, Goto

\* A connection joins a queue or is refused.
LEMMA ConnectType ==
    ASSUME TypeOK, NEW c \in Clis, Connect(c)
    PROVE  /\ queue' \in [Children -> Seq(Connections)]
           /\ reply' \in [Clis -> Replies \union Children]
<1>. DEFINE g == listener[Target(c)]
            request == [from |-> c,
                        target |-> IF pc[c] = "shutdown" THEN job[c].seen ELSE NoChild]
<1>1. CASE g = Nobody
    BY <1>1 DEF Connect, TypeOK, Respond, Replies
<1>2. CASE g # Nobody
  <2>1. request \in Connections
    BY DEF TypeOK, Jobs, Connections
  <2>2. queue' = [queue EXCEPT ![g] = Append(@, request)]
    BY <1>2 DEF Connect
  <2>3. reply' = [reply EXCEPT ![c] = "waiting"]
    BY <1>2 DEF Connect, Respond
  <2>. HIDE DEF g, request
  <2>4. \A h \in Children : Append(queue[h], request) \in Seq(Connections)
    BY <2>1 DEF TypeOK
  <2>5. queue' \in [Children -> Seq(Connections)]
    BY <2>2, <2>4 DEF TypeOK
  <2>6. QED
    BY <2>3, <2>5 DEF TypeOK, Replies
<1>3. QED
    BY <1>1, <1>2

\* The steps that read, lock, probe and ask keep the types.
LEMMA ObserveType ==
    ASSUME TypeOK, NEW c \in Clis, Observe(c)
    PROVE  TypeOK'
<1>. USE DEF TypeOK, Goto
<1>0. job[c] \in Jobs /\ "error" \in Outcomes /\ "starting" \in Outcomes
    BY DEF Outcomes
<1>1. CASE ReadState(c)
  <2>1. [job[c] EXCEPT !.seen = state] \in Jobs
    BY <1>0 DEF Jobs
  <2>2. QED
    BY <1>1, <2>1 DEF ReadState, CliLabels, lockVars, childVars
<1>2. CASE TakeStartup(c)
    BY <1>2 DEF TakeStartup, CliLabels, childVars
<1>3. CASE StartupBusy(c)
    BY <1>0, <1>3, AnswerType DEF StartupBusy, childVars
<1>4. CASE RereadState(c)
  <2>1. [job[c] EXCEPT !.seen = state] \in Jobs
    BY <1>0 DEF Jobs
  <2>2. QED
    BY <1>4, <2>1 DEF RereadState, CliLabels, lockVars, childVars
<1>5. CASE Fail(c)
    BY <1>0, <1>5, AnswerType DEF Fail, childVars
<1>6. CASE ProbeStartup(c)
  <2>1. [job[c] EXCEPT !.starting = TRUE] \in Jobs
    BY <1>0 DEF Jobs
  <2>2. pc' \in [Clis -> CliLabels] /\ startup' \in Clis \union {Nobody}
    BY <1>6 DEF ProbeStartup, CliLabels
  <2>3. job' \in [Clis -> Jobs]
    BY <1>6, <2>1 DEF ProbeStartup
  <2>4. QED
    BY <1>6, <2>2, <2>3 DEF ProbeStartup, childVars
<1>7. CASE EndProbeStartup(c)
    BY <1>7 DEF EndProbeStartup, CliLabels, childVars
<1>8. \A v \in BOOLEAN : [job[c] EXCEPT !.active = v] \in Jobs
    BY <1>0 DEF Jobs
<1>9. AfterProbe(pc[c]) \in CliLabels
    BY DEF AfterProbe, CliLabels
<1>10. CASE ProbeInstance(c)
    BY <1>10, <1>8, <1>9 DEF ProbeInstance, childVars
<1>11. CASE EndProbeInstance(c)
    BY <1>11, <1>8, <1>9 DEF EndProbeInstance, childVars
<1>12. CASE ProbeError(c)
    BY <1>12, <1>8 DEF ProbeError, CliLabels, lockVars, childVars
<1>13. CASE InspectNothing(c)
  <2>1. CASE job[c].cmd = "start" /\ ~ job[c].active
    BY <1>13, <2>1 DEF InspectNothing, CliLabels, childVars
  <2>2. CASE ~ (job[c].cmd = "start" /\ ~ job[c].active)
    <3>1. PICK outcome \in Outcomes : Answer(c, outcome)
      BY <1>13, <2>2 DEF InspectNothing, Outcomes
    <3>2. QED
      BY <1>13, <3>1, AnswerType DEF InspectNothing, childVars
  <2>3. QED
    BY <2>1, <2>2
<1>14. CASE InspectRecorded(c)
    BY <1>14 DEF InspectRecorded, CliLabels, lockVars, childVars
<1>15. CASE Connect(c)
    BY <1>15, ConnectType DEF Connect, lockVars
<1>16. CASE RequestFails(c)
    BY <1>16 DEF RequestFails, Respond, Replies, lockVars, childVars
<1>17. CASE Timeout(c)
  <2>1. queue' \in [Children -> Seq(Connections)]
    BY <1>17, DisconnectType DEF Timeout
  <2>2. reply' \in [Clis -> Replies \union Children]
    BY <1>17 DEF Timeout, Respond, Replies
  <2>3. QED
    BY <1>17, <2>1, <2>2 DEF Timeout, lockVars
<1>18. CASE IdentifyForStatus(c)
  <2>1. PICK outcome \in Outcomes : Answer(c, outcome)
    BY <1>18 DEF IdentifyForStatus, Outcomes
  <2>2. reply' \in [Clis -> Replies \union Children]
    BY <1>18 DEF IdentifyForStatus, Respond, Replies
  <2>3. QED
    BY <1>18, <2>1, <2>2, AnswerType DEF IdentifyForStatus, childVars
<1>19. QED
    BY <1>1, <1>2, <1>3, <1>4, <1>5, <1>6, <1>7, <1>10, <1>11, <1>12, <1>13, <1>14,
       <1>15, <1>16, <1>17, <1>18 DEF Observe, Exchange

\* The steps of stop keep the types.
LEMMA StopType ==
    ASSUME TypeOK, NEW c \in Clis, Stop(c)
    PROVE  TypeOK'
<1>. USE DEF TypeOK, Goto
<1>0. job[c] \in Jobs /\ {"unresponsive", "stopped", "error"} \subseteq Outcomes
    BY DEF Outcomes
<1>1. Respond(c, "none") => reply' \in [Clis -> Replies \union Children]
    BY DEF Respond, Replies
<1>2. CASE IdentifyForStop(c)
    BY <1>0, <1>1, <1>2, AnswerType DEF IdentifyForStop, CliLabels, childVars
<1>3. CASE Acknowledged(c)
    BY <1>0, <1>1, <1>3, AnswerType DEF Acknowledged, CliLabels, childVars
<1>4. CASE TakeSeenIndex(c)
  <2>. DEFINE i == SeenIndex(c)
  <2>1. index' = [index EXCEPT ![i] = c]
    BY <1>4 DEF TakeSeenIndex
  <2>. HIDE DEF i
  <2>2. index' \in [Indexes -> Clis \union Children \union {Nobody, External}]
    BY <2>1
  <2>3. QED
    BY <1>4, <2>2 DEF TakeSeenIndex, childVars, cliVars
<1>5. CASE DropSeenIndex(c)
  <2>. DEFINE i == SeenIndex(c)
  <2>1. index' = [index EXCEPT ![i] = Nobody]
    BY <1>5 DEF DropSeenIndex
  <2>. HIDE DEF i
  <2>2. index' \in [Indexes -> Clis \union Children \union {Nobody, External}]
    BY <2>1
  <2>3. QED
    BY <1>5, <2>2 DEF DropSeenIndex, CliLabels, childVars
<1>6. CASE WatchAgain(c)
    BY <1>6, NextRoundType DEF WatchAgain, lockVars, childVars
<1>7. CASE WatchEnds(c)
    BY <1>0, <1>7, AnswerType DEF WatchEnds, childVars
<1>8. CASE Confirmed(c)
    BY <1>0, <1>1, <1>8, AnswerType DEF Confirmed, CliLabels, childVars
<1>9. CASE Remove(c)
    BY <1>0, <1>9, AnswerType DEF Remove, childVars
<1>10. QED
    BY <1>2, <1>3, <1>4, <1>5, <1>6, <1>7, <1>8, <1>9 DEF Stop

\* The steps of start keep the types; only a start that has spawned reaps.
LEMMA StartType ==
    ASSUME TypeOK, NEW c \in Clis, Spawned(c), Start(c)
    PROVE  TypeOK'
<1>. USE DEF TypeOK, Goto
<1>0. job[c] \in Jobs /\ {"running", "started", "error", "unresponsive"} \subseteq Outcomes
    BY DEF Outcomes
<1>1. Respond(c, "none") => reply' \in [Clis -> Replies \union Children]
    BY DEF Respond, Replies
<1>2. CASE IdentifyForStart(c)
  <2>1. CASE Dead(c)
    BY <1>1, <1>2, <2>1 DEF IdentifyForStart, CliLabels, childVars
  <2>2. CASE ~ Dead(c)
    <3>1. PICK outcome \in Outcomes : Answer(c, outcome)
      BY <1>0, <1>2, <2>2 DEF IdentifyForStart
    <3>2. QED
      BY <1>1, <1>2, <3>1, AnswerType DEF IdentifyForStart, childVars
  <2>3. QED
    BY <2>1, <2>2
<1>3. CASE ClaimIndex(c)
  <2>. DEFINE i == job[c].want.index
  <2>1. index' = [index EXCEPT ![i] = c]
    BY <1>3 DEF ClaimIndex
  <2>. HIDE DEF i
  <2>2. index' \in [Indexes -> Clis \union Children \union {Nobody, External}]
    BY <2>1
  <2>3. QED
    BY <1>3, <2>2 DEF ClaimIndex, childVars, cliVars
<1>4. CASE ClaimBusy(c)
    BY <1>0, <1>4, AnswerType DEF ClaimBusy, childVars
<1>5. CASE Validate(c)
  <2>1. index' \in [Indexes -> Clis \union Children \union {Nobody, External}]
    BY <1>5 DEF Validate, Without
  <2>2. CASE Answer(c, "error")
    BY <1>0, <1>5, <2>1, <2>2, AnswerType DEF Validate, childVars
  <2>3. CASE ~ Answer(c, "error")
    BY <1>5, <2>1, <2>3 DEF Validate, CliLabels, childVars
  <2>4. QED
    BY <2>2, <2>3
<1>6. CASE Spawn(c)
  <2>1. PICK g \in Children :
           /\ childPc' = [childPc EXCEPT ![g] = "spawned"]
           /\ config' = [config EXCEPT ![g] = job[c].want]
           /\ job' = [job EXCEPT ![c].child = g]
    BY <1>6 DEF Spawn, ChildGoto
  <2>2. [job[c] EXCEPT !.child = g] \in Jobs /\ job[c].want \in Configs \union {NoConfig}
    BY <1>0 DEF Jobs
  <2>3. job' \in [Clis -> Jobs]
    BY <2>1, <2>2
  <2>4. config' \in [Children -> Configs \union {NoConfig}]
    BY <2>1, <2>2
  <2>5. childPc' \in [Children -> ChildLabels]
    BY <2>1 DEF ChildLabels
  <2>6. pc' \in [Clis -> CliLabels]
    BY <1>6 DEF Spawn, CliLabels
  <2>7. QED
    BY <1>6, <2>3, <2>4, <2>5, <2>6 DEF Spawn, lockVars
<1>7. CASE SpawnFails(c)
    BY <1>0, <1>7, AnswerType DEF SpawnFails, childVars
<1>8. CASE TryWait(c)
    BY <1>0, <1>8, AnswerType DEF TryWait, CliLabels, childVars
<1>9. CASE Ready(c)
    BY <1>1, <1>9 DEF Ready, CliLabels, lockVars, childVars
<1>10. CASE WaitAgain(c)
    BY <1>1, <1>10, NextRoundType DEF WaitAgain, lockVars, childVars
<1>11. CASE Verified(c)
    BY <1>11 DEF Verified, CliLabels, lockVars, childVars
<1>12. CASE Publish(c)
    BY <1>0, <1>12, AnswerType DEF Publish, Jobs, childVars
<1>13. CASE StartFails(c)
    BY <1>1, <1>13 DEF StartFails, CliLabels, lockVars, childVars
<1>14. CASE Reap(c)
  <2>1. /\ pc' \in [Clis -> CliLabels]
        /\ startup' \in Clis \union {Nobody}
        /\ job' \in [Clis -> Jobs]
    BY <1>0, <1>14, AnswerType DEF Reap
  <2>2. CASE Alive(job[c].child)
    <3>1. job[c].child \in Children
      BY <1>0, <1>14 DEF Reap, Jobs, Spawned, Waiting, Starting
    <3>2. EndChild(job[c].child) /\ UNCHANGED config
      BY <1>14, <2>2 DEF Reap
    <3>3. QED
      BY <1>14, <2>1, <3>1, <3>2, EndChildType DEF Reap
  <2>3. CASE ~ Alive(job[c].child)
    BY <1>14, <2>1, <2>3 DEF Reap, childVars
  <2>4. QED
    BY <2>2, <2>3
<1>15. QED
    BY <1>2, <1>3, <1>4, <1>5, <1>6, <1>7, <1>8, <1>9, <1>10, <1>11, <1>12, <1>13, <1>14
    DEF Start

\* Beginning, returning and being killed keep the types.
LEMMA OtherType ==
    ASSUME TypeOK, NEW c \in Clis, Begin(c) \/ Return(c) \/ CliCrash(c)
    PROVE  TypeOK'
<1>. USE DEF TypeOK, Goto
<1>0. NoJob \in Jobs
    BY BoundsAssumption DEF NoJob, Jobs
<1>1. CASE Begin(c)
  <2>1. PICK cmd \in Commands, want \in Configs :
           job' = [job EXCEPT ![c] =
                     [NoJob EXCEPT !.cmd = cmd,
                                   !.want = IF cmd = "start" THEN want ELSE NoConfig]]
    BY <1>1 DEF Begin
  <2>2. [NoJob EXCEPT !.cmd = cmd, !.want = IF cmd = "start" THEN want ELSE NoConfig] \in Jobs
    BY <1>0, BoundsAssumption DEF Jobs
  <2>3. QED
    BY <1>1, <2>1, <2>2 DEF Begin, CliLabels, lockVars, childVars
<1>2. CASE Return(c)
    BY <1>0, <1>2 DEF Return, CliLabels, lockVars, childVars
<1>3. CASE CliCrash(c)
  <2>1. queue' \in [Children -> Seq(Connections)]
    BY <1>3, DisconnectType DEF CliCrash
  <2>2. /\ reply' \in [Clis -> Replies \union Children]
        /\ pc' \in [Clis -> CliLabels]
        /\ job' \in [Clis -> Jobs]
    BY <1>0, <1>3 DEF CliCrash, Respond, Replies, CliLabels
  <2>3. QED
    BY <1>3, <2>1, <2>2 DEF CliCrash, Without
<1>4. QED
    BY <1>1, <1>2, <1>3

\* Other writers of an index keep the types.
LEMMA ExternalType ==
    ASSUME TypeOK, NEW i \in Indexes, ExternalTakes(i) \/ ExternalDrops(i)
    PROVE  TypeOK'
BY DEF TypeOK, ExternalTakes, ExternalDrops, childVars, cliVars

-----------------------------------------------------------------------------
(***************************************************************************)
(* What a step leaves alone, and what only ever goes one way.              *)
(***************************************************************************)
\* Generations only go on: they are born, serve and end once.
Onward ==
    \A g \in Children :
       /\ Served(g) => Served(g)'
       /\ childPc[g] = "gone" => childPc'[g] = "gone"
       /\ childPc[g] # "unborn" => childPc'[g] # "unborn"

\* Nothing goes back where no child moves.
LEMMA StillOnward == UNCHANGED childPc => Onward
BY DEF Onward, Served

\* The end of a child is final.
LEMMA EndOnward ==
    ASSUME TypeOK, NEW g \in Children, EndChild(g)
    PROVE  Onward /\ childPc'[g] = "gone"
BY DEF TypeOK, EndChild, ChildGoto, Onward, Served

\* A step of a child leads from one of its states to a later one.
LEMMA ChildOnward ==
    ASSUME TypeOK, NEW g \in Children, ChildMoves(g)
    PROVE  Onward
<1>. USE DEF TypeOK, ChildGoto, Onward, Served
<1>1. CASE TakeIndex(g)
    BY <1>1 DEF TakeIndex
<1>2. CASE TakeInstance(g)
    BY <1>2 DEF TakeInstance
<1>3. CASE GiveUpEarly(g) \/ Abandon(g)
    BY <1>3 DEF GiveUpEarly, Abandon
<1>4. CASE Bind(g) \/ BindFails(g)
    BY <1>4 DEF Bind, BindFails
<1>5. CASE Serve(g) \/ ServeFails(g) \/ AskShutdown(g)
    BY <1>5 DEF Serve, ServeFails, AskShutdown, EndLoop
<1>6. CASE Close(g) \/ ReleaseIndex(g) \/ ReleaseInstance(g)
    BY <1>6 DEF Close, ReleaseIndex, ReleaseInstance
<1>7. CASE ChildCrash(g)
    BY <1>7, EndOnward DEF ChildCrash
<1>8. QED
    BY <1>1, <1>2, <1>3, <1>4, <1>5, <1>6, <1>7 DEF ChildMoves, ChildStep

\* A child touches nothing of a command but its reply.
LEMMA ChildFrame ==
    ASSUME TypeOK, NEW g \in Children, ChildMoves(g)
    PROVE  /\ UNCHANGED <<state, startup, pc, job>>
           /\ \A c \in Clis, h \in Children : reply'[c] = h => reply[c] = h \/ Served(h)'
<1>0. "accepted" \notin Children /\ "failed" \notin Children
    BY RepliesAssumption DEF Replies
<1>1. CASE TakeIndex(g) \/ TakeInstance(g) \/ GiveUpEarly(g) \/ Abandon(g) \/ Bind(g)
              \/ BindFails(g) \/ ReleaseIndex(g) \/ ReleaseInstance(g) \/ ServeFails(g)
              \/ AskShutdown(g)
    BY <1>1 DEF TakeIndex, TakeInstance, GiveUpEarly, Abandon, Bind, BindFails, ReleaseIndex,
                ReleaseInstance, ServeFails, AskShutdown, lockVars, cliVars
<1>2. CASE Serve(g)
  <2>1. \/ reply' = reply
        \/ \E c \in Clis, answer \in {"accepted", "failed"} :
              reply' = [reply EXCEPT ![c] = answer]
        \/ childPc' = childPc /\ childPc[g] = "serving"
           /\ \E c \in Clis : reply' = [reply EXCEPT ![c] = g]
    BY <1>2 DEF Serve, Respond
  <2>2. \A c \in Clis, h \in Children : reply'[c] = h => reply[c] = h \/ Served(h)'
    BY <1>0, <2>1 DEF TypeOK, Served
  <2>3. QED
    BY <1>2, <2>2 DEF Serve, lockVars
<1>3. CASE Close(g)
    BY <1>0, <1>3 DEF Close, HangUp, lockVars
<1>4. CASE ChildCrash(g)
    BY <1>0, <1>4 DEF ChildCrash, EndChild, HangUp
<1>5. QED
    BY <1>1, <1>2, <1>3, <1>4 DEF ChildMoves, ChildStep

\* A child never gives a command the instance lock.
LEMMA ChildLocks ==
    ASSUME NEW g \in Children, ChildMoves(g), NEW c \in Clis, instance' = c
    PROVE  instance = c
<1>1. c # g /\ c # Nobody
    BY SentinelAssumption
<1>2. CASE TakeInstance(g) \/ GiveUpEarly(g) \/ ReleaseInstance(g) \/ ChildCrash(g)
    BY <1>1, <1>2 DEF TakeInstance, GiveUpEarly, ReleaseInstance, ChildCrash, EndChild
<1>3. CASE TakeIndex(g) \/ Abandon(g) \/ Bind(g) \/ BindFails(g) \/ Serve(g) \/ Close(g)
              \/ ReleaseIndex(g) \/ ServeFails(g) \/ AskShutdown(g)
    BY <1>3 DEF TakeIndex, Abandon, Bind, BindFails, Serve, Close, ReleaseIndex, ServeFails,
                AskShutdown, lockVars
<1>4. QED
    BY <1>2, <1>3 DEF ChildMoves, ChildStep

CliMoves(c) == Begin(c) \/ CliStep(c) \/ CliCrash(c)

\* A command starts at most one generation and ends at most its own.
LEMMA CliOnward ==
    ASSUME TypeOK, NEW c \in Clis, Spawned(c), CliMoves(c)
    PROVE  Onward
<1>1. CASE Spawn(c)
    BY <1>1 DEF Spawn, ChildGoto, TypeOK, Onward, Served
<1>2. CASE Reap(c)
  <2>1. job[c].child \in Children
    BY <1>2 DEF TypeOK, Jobs, Reap, Spawned, Waiting, Starting
  <2>2. CASE Alive(job[c].child)
    BY <1>2, <2>1, <2>2, EndOnward DEF Reap
  <2>3. CASE ~ Alive(job[c].child)
    BY <1>2, <2>3, StillOnward DEF Reap, childVars
  <2>4. QED
    BY <2>2, <2>3
<1>3. CASE Observe(c)
    BY <1>3, StillOnward DEF Observe, Exchange, ReadState, TakeStartup, StartupBusy, RereadState,
       Fail, ProbeStartup, EndProbeStartup, ProbeInstance, EndProbeInstance, ProbeError,
       InspectNothing, InspectRecorded, Connect, RequestFails, Timeout, IdentifyForStatus, childVars
<1>4. CASE Stop(c)
    BY <1>4, StillOnward DEF Stop, IdentifyForStop, Acknowledged, TakeSeenIndex, DropSeenIndex,
       WatchAgain, WatchEnds, Confirmed, Remove, childVars
<1>5. CASE Start(c) /\ ~ Spawn(c) /\ ~ Reap(c)
    BY <1>5, StillOnward DEF Start, IdentifyForStart, ClaimIndex, ClaimBusy, Validate, SpawnFails,
       TryWait, Ready, WaitAgain, Verified, Publish, StartFails, childVars
<1>6. CASE Begin(c) \/ Return(c) \/ CliCrash(c)
    BY <1>6, StillOnward DEF Begin, Return, CliCrash, childVars
<1>7. QED
    BY <1>1, <1>2, <1>3, <1>4, <1>5, <1>6 DEF CliMoves, CliStep

\* A command touches nothing of another one, except that a failed start may
\* end the generation that the other one is talking to.
OthersKept(c) ==
    \A d \in Clis \ {c} :
       /\ pc'[d] = pc[d]
       /\ job'[d] = job[d]
       /\ reply'[d] \in {reply[d], "failed"}
       /\ startup = d => startup' = d
       /\ instance' = d => instance = d

\* Every step of a command leaves the other commands alone in this sense.
LEMMA CliFrame ==
    ASSUME TypeOK, NEW c \in Clis, Locked(c), CliMoves(c)
    PROVE  OthersKept(c)
<1>. USE DEF TypeOK, OthersKept, Goto, Respond
<1>0. "error" \in Outcomes /\ "starting" \in Outcomes /\ "unresponsive" \in Outcomes
      /\ "stopped" \in Outcomes /\ "started" \in Outcomes
    BY DEF Outcomes
<1>1. \A outcome \in Outcomes : Answer(c, outcome) =>
          \A d \in Clis \ {c} : /\ pc'[d] = pc[d]
                                /\ job'[d] = job[d]
                                /\ startup = d => startup' = d
    BY AnswerKeeps
<1>2. \A label \in {"watch", "wait"} : NextRound(c, label) =>
          \A d \in Clis \ {c} : pc'[d] = pc[d] /\ job'[d] = job[d]
    BY NextRoundKeeps
<1>3. CASE Begin(c)
    BY <1>3 DEF Begin, lockVars, childVars
<1>4. CASE Return(c) \/ CliCrash(c)
    BY <1>4, SentinelAssumption DEF Return, CliCrash, lockVars, childVars
<1>5. CASE Observe(c)
  <2>1. CASE ReadState(c) \/ TakeStartup(c) \/ RereadState(c)
    BY <2>1, SentinelAssumption DEF ReadState, TakeStartup, RereadState, lockVars
  <2>2. CASE StartupBusy(c) \/ Fail(c)
    BY <1>0, <1>1, <2>2 DEF StartupBusy, Fail
  <2>3. CASE ProbeStartup(c) \/ EndProbeStartup(c)
    BY <2>3, SentinelAssumption DEF ProbeStartup, EndProbeStartup, Probing, Locked
  <2>4. CASE ProbeInstance(c) \/ EndProbeInstance(c) \/ ProbeError(c)
    BY <2>4, SentinelAssumption DEF ProbeInstance, EndProbeInstance, ProbeError, lockVars
  <2>5. CASE InspectNothing(c)
    BY <1>0, <1>1, <2>5 DEF InspectNothing
  <2>6. CASE InspectRecorded(c) \/ Connect(c) \/ RequestFails(c) \/ Timeout(c)
    BY <2>6 DEF InspectRecorded, Connect, RequestFails, Timeout, lockVars
  <2>7. CASE IdentifyForStatus(c)
    <3>1. PICK outcome \in Outcomes : Answer(c, outcome)
      BY <2>7 DEF IdentifyForStatus, Outcomes
    <3>2. QED
      BY <1>1, <2>7, <3>1 DEF IdentifyForStatus
  <2>8. QED
    BY <1>5, <2>1, <2>2, <2>3, <2>4, <2>5, <2>6, <2>7 DEF Observe, Exchange
<1>6. CASE Stop(c)
  <2>1. CASE IdentifyForStop(c) \/ Acknowledged(c) \/ Confirmed(c)
    BY <1>0, <1>1, <2>1 DEF IdentifyForStop, Acknowledged, Confirmed
  <2>2. CASE TakeSeenIndex(c) \/ DropSeenIndex(c)
    BY <2>2 DEF TakeSeenIndex, DropSeenIndex, cliVars
  <2>3. CASE WatchAgain(c) \/ WatchEnds(c)
    BY <1>0, <1>1, <1>2, <2>3 DEF WatchAgain, WatchEnds, lockVars
  <2>4. CASE Remove(c)
    BY <1>0, <1>1, <2>4 DEF Remove
  <2>5. QED
    BY <1>6, <2>1, <2>2, <2>3, <2>4 DEF Stop
<1>7. CASE Start(c)
  <2>1. CASE IdentifyForStart(c)
    <3>1. (\E outcome \in Outcomes : Answer(c, outcome)) \/ (Goto(c, "claim") /\ UNCHANGED <<startup, job>>)
      BY <2>1 DEF IdentifyForStart, Outcomes
    <3>2. QED
      BY <1>1, <2>1, <3>1 DEF IdentifyForStart
  <2>2. CASE ClaimIndex(c) \/ ClaimBusy(c) \/ Validate(c)
    BY <1>0, <1>1, <2>2 DEF ClaimIndex, ClaimBusy, Validate, cliVars
  <2>3. CASE Spawn(c) \/ SpawnFails(c) \/ TryWait(c)
    BY <1>0, <1>1, <2>3 DEF Spawn, SpawnFails, TryWait, lockVars
  <2>4. CASE Ready(c) \/ Verified(c) \/ StartFails(c) \/ WaitAgain(c)
    BY <1>2, <2>4 DEF Ready, Verified, StartFails, WaitAgain, lockVars
  <2>5. CASE Publish(c)
    BY <1>0, <1>1, <2>5 DEF Publish, childVars
  <2>6. CASE Reap(c)
    BY <1>0, <1>1, <2>6, SentinelAssumption DEF Reap, EndChild, HangUp, childVars
  <2>7. QED
    BY <1>7, <2>1, <2>2, <2>3, <2>4, <2>5, <2>6 DEF Start
<1>8. QED
    BY <1>3, <1>4, <1>5, <1>6, <1>7 DEF CliMoves, CliStep

\* What is known of a command outlives a step in which it has no part.
LEMMA CliInvKept ==
    ASSUME TypeOK, NEW d \in Clis, CliInv(d), Onward,
           pc'[d] = pc[d], job'[d] = job[d],
           \A h \in Children : reply'[d] = h => reply[d] = h \/ Served(h)',
           startup = d => startup' = d,
           instance' = d => instance = d,
           state' = state \/ startup # d
    PROVE  CliInv(d)'
<1>1. job[d].seen \in Children \union {NoChild} /\ job[d].child \in Children \union {NoChild}
    BY DEF TypeOK, Jobs
<1>2. Locked(d)' /\ SeenState(d)'
    BY DEF CliInv, Locked, SeenState, Coordinates
<1>3. Observed(d)'
  <2>1. job[d].seen # NoChild => Served(job[d].seen)'
    BY <1>1 DEF CliInv, Observed, Onward
  <2>2. \A h \in Children : reply'[d] = h => Served(h)'
    BY DEF CliInv, Observed, Onward
  <2>3. pc[d] \in {"verify", "verified", "write"} => Served(job[d].child)'
    BY <1>1 DEF CliInv, Observed, Spawned, Waiting, Starting, Onward
  <2>4. QED
    BY <2>1, <2>2, <2>3 DEF CliInv, Observed, Served
<1>4. Spawned(d)'
    BY <1>1 DEF CliInv, Spawned, Onward
<1>5. SeenEnded(d)'
    BY <1>1 DEF CliInv, SeenEnded, Ended, Onward
<1>6. QED
    BY <1>2, <1>3, <1>4, <1>5 DEF CliInv

-----------------------------------------------------------------------------
(***************************************************************************)
(* The instance lock.                                                      *)
(***************************************************************************)
\* The end of a child frees the lock it owns.
LEMMA EndInstance ==
    ASSUME TypeOK, InstanceInv, NEW g \in Children, EndChild(g)
    PROVE  InstanceInv'
BY SentinelAssumption DEF TypeOK, InstanceInv, Owns, EndChild, ChildGoto

\* Children take and drop the instance lock together with their states.
LEMMA ChildInstance ==
    ASSUME TypeOK, InstanceInv, NEW g \in Children, ChildMoves(g)
    PROVE  InstanceInv'
<1>. USE SentinelAssumption DEF TypeOK, InstanceInv, Owns, ChildGoto
<1>1. CASE TakeIndex(g)
    BY <1>1 DEF TakeIndex
<1>2. CASE TakeInstance(g)
    BY <1>2 DEF TakeInstance
<1>3. CASE GiveUpEarly(g)
    BY <1>3 DEF GiveUpEarly
<1>4. CASE Abandon(g)
    BY <1>4 DEF Abandon
<1>5. CASE Bind(g) \/ BindFails(g)
    BY <1>5 DEF Bind, BindFails, lockVars
<1>6. CASE Serve(g) \/ ServeFails(g) \/ AskShutdown(g)
    BY <1>6 DEF Serve, ServeFails, AskShutdown, EndLoop, lockVars
<1>7. CASE Close(g) \/ ReleaseIndex(g)
    BY <1>7 DEF Close, ReleaseIndex, lockVars
<1>8. CASE ReleaseInstance(g)
    BY <1>8 DEF ReleaseInstance
<1>9. CASE ChildCrash(g)
    BY <1>9, EndInstance DEF ChildCrash
<1>10. QED
    BY <1>1, <1>2, <1>3, <1>4, <1>5, <1>6, <1>7, <1>8, <1>9 DEF ChildMoves, ChildStep

\* Commands hold the instance lock only while nobody owns the instance.
LEMMA CliInstance ==
    ASSUME TypeOK, InstanceInv, NEW c \in Clis, Spawned(c), CliMoves(c)
    PROVE  InstanceInv'
<1>0. c \notin Children /\ Nobody \notin Children
    BY SentinelAssumption
<1>1. UNCHANGED <<instance, childPc>> => InstanceInv'
    BY DEF InstanceInv, Owns
<1>2. CASE ProbeInstance(c) \/ EndProbeInstance(c) \/ CliCrash(c)
    BY <1>0, <1>2 DEF InstanceInv, Owns, ProbeInstance, EndProbeInstance, Probing, CliCrash, childVars
<1>3. CASE Spawn(c)
    BY <1>3 DEF TypeOK, InstanceInv, Owns, Spawn, ChildGoto, lockVars
<1>4. CASE Reap(c)
  <2>1. job[c].child \in Children
    BY <1>4 DEF TypeOK, Jobs, Reap, Spawned, Waiting, Starting
  <2>2. QED
    BY <1>1, <1>4, <2>1, EndInstance DEF Reap, childVars
<1>5. CASE Observe(c) /\ ~ ProbeInstance(c) /\ ~ EndProbeInstance(c)
    BY <1>1, <1>5 DEF Observe, Exchange, ReadState, TakeStartup, StartupBusy, RereadState,
       Fail, ProbeStartup, EndProbeStartup, ProbeError, InspectNothing, InspectRecorded,
       Connect, RequestFails, Timeout, IdentifyForStatus, lockVars, childVars
<1>6. CASE Stop(c)
    BY <1>1, <1>6 DEF Stop, IdentifyForStop, Acknowledged, TakeSeenIndex, DropSeenIndex,
       WatchAgain, WatchEnds, Confirmed, Remove, lockVars, childVars
<1>7. CASE Start(c) /\ ~ Spawn(c) /\ ~ Reap(c)
    BY <1>1, <1>7 DEF Start, IdentifyForStart, ClaimIndex, ClaimBusy, Validate, SpawnFails,
       TryWait, Ready, WaitAgain, Verified, Publish, StartFails, lockVars, childVars
<1>8. CASE Begin(c) \/ Return(c)
    BY <1>1, <1>8 DEF Begin, Return, lockVars, childVars
<1>9. QED
    BY <1>2, <1>3, <1>4, <1>5, <1>6, <1>7, <1>8 DEF CliMoves, CliStep

\* The generations that have served and do not own the instance have ended.
LEMMA FreeMeansEnded ==
    ASSUME InstanceInv, instance \notin Children, NEW g \in Children, Served(g)
    PROVE  childPc[g] = "gone"
BY DEF InstanceInv, Owns, Served

-----------------------------------------------------------------------------
(***************************************************************************)
(* What is known of a command outlives its own steps.                      *)
(***************************************************************************)
\* A command that returns keeps what it has learnt, and its outcome is entitled to it.
LEMMA AnswerInv ==
    ASSUME TypeOK, NEW c \in Clis, NEW outcome \in Outcomes, CliInv(c), Onward,
           Answer(c, outcome), instance # c, instance' = instance \/ instance' = Nobody,
           \A h \in Children : reply'[c] = h => reply[c] = h,
           job[c].child # NoChild => outcome \in {"started", "error"},
           job[c].child # NoChild /\ outcome = "error" => childPc'[job[c].child] = "gone",
           outcome \in {"stopped", "stale"} => Ended(c),
           outcome = "stale" => job[c].seen # NoChild
    PROVE  CliInv(c)'
<1>1. job[c].seen \in Children \union {NoChild} /\ job[c].child \in Children \union {NoChild}
    BY DEF TypeOK, Jobs
<1>2. /\ pc'[c] = outcome
      /\ job'[c].seen = IF outcome \in {"stopped", "stale"} THEN job[c].seen ELSE NoChild
      /\ job'[c].child = job[c].child
    BY AnswerKeeps DEF TypeOK
<1>3. outcome \in {"running", "started", "stopped", "starting", "stale", "unresponsive", "error"}
    BY DEF Outcomes
<1>4. Locked(c)' /\ SeenState(c)'
    BY <1>2, <1>3, SentinelAssumption DEF Locked, SeenState, Coordinates, Stopping, Starting
<1>5. Observed(c)'
  <2>1. (job[c].seen # NoChild => Served(job[c].seen))'
    BY <1>1, <1>2 DEF CliInv, Observed, Onward, Served
  <2>2. \A h \in Children : reply'[c] = h => Served(h)'
    BY DEF CliInv, Observed, Onward
  <2>3. QED
    BY <1>2, <1>3, <2>1, <2>2 DEF Observed, Served
<1>6. Spawned(c)'
    BY <1>1, <1>2, <1>3 DEF CliInv, Spawned, Onward, Waiting, Starting
<1>7. SeenEnded(c)'
    BY <1>1, <1>2, <1>3 DEF SeenEnded, Ended, Onward, Stopping, Starting
<1>8. QED
    BY <1>4, <1>5, <1>6, <1>7 DEF CliInv

\* The steps that read, lock, probe and ask: a free instance lock at the end of a
\* probe proves that the generation seen has ended.
LEMMA ObserveInv ==
    ASSUME TypeOK, InstanceInv, state # NoChild => Served(state),
           NEW c \in Clis, CliInv(c), Observe(c), Onward
    PROVE  CliInv(c)'
<1>. USE DEF CliInv, Goto, Stopping, Starting, Waiting
<1>0. /\ job[c] \in Jobs
      /\ {"error", "starting", "stopped", "unresponsive", "running", "stale"} \subseteq Outcomes
      /\ state \in Children \union {NoChild}
      /\ Nobody # c /\ c \notin Children
    BY SentinelAssumption DEF TypeOK, Outcomes
<1>1. \A h \in Children : h \notin {"none", "waiting", "failed", "unavailable"}
    BY RepliesAssumption DEF Replies
<1>2. CASE ReadState(c)
    BY <1>0, <1>2 DEF ReadState, TypeOK, Jobs, Locked, Observed, Spawned, SeenState, SeenEnded, Ended,
       Coordinates, Served, lockVars, childVars
<1>3. CASE TakeStartup(c)
    BY <1>0, <1>3 DEF TakeStartup, TypeOK, Jobs, Locked, Observed, Spawned, SeenState, SeenEnded, Ended,
       Coordinates, Served, childVars
<1>4. CASE StartupBusy(c)
    BY <1>0, <1>4, AnswerInv DEF StartupBusy, Locked, Spawned
<1>5. CASE RereadState(c)
    BY <1>0, <1>5 DEF RereadState, TypeOK, Jobs, Locked, Observed, Spawned, SeenState, SeenEnded, Ended,
       Coordinates, Served, lockVars, childVars
<1>6. CASE Fail(c)
    BY <1>0, <1>6, AnswerInv DEF Fail, Probing, Spawned
<1>7. CASE ProbeStartup(c)
  <2>1. CASE startup = Nobody
    BY <1>0, <1>7, <2>1, CliInvKept DEF ProbeStartup, childVars
  <2>2. CASE startup # Nobody
    <3>1. job' = [job EXCEPT ![c].starting = TRUE] /\ pc' = [pc EXCEPT ![c] = "probe"]
      BY <1>7, <2>2 DEF ProbeStartup
    <3>2. pc[c] = "probeStartup" /\ UNCHANGED <<state, startup, instance, childPc, reply>>
      BY <1>7, <2>2 DEF ProbeStartup, childVars
    <3>3. instance # c
      BY <1>7 DEF ProbeStartup, Probing
    <3>4. QED
      BY <1>0, <3>1, <3>2, <3>3 DEF TypeOK, Jobs, Locked, Observed, Spawned, SeenState,
         SeenEnded, Ended, Coordinates, Served
  <2>3. QED
    BY <2>1, <2>2
<1>8. CASE EndProbeStartup(c)
    BY <1>0, <1>8 DEF EndProbeStartup, Probing, TypeOK, Jobs, Locked, Observed, Spawned, SeenState,
       SeenEnded, Ended, Coordinates, Served, childVars
<1>9. CASE ProbeInstance(c)
  <2>1. CASE instance = Nobody
    BY <1>0, <1>9, <2>1 DEF ProbeInstance, Locked, Observed, Spawned, SeenState, SeenEnded, Ended,
       Coordinates, Served, childVars
  <2>2. CASE instance # Nobody
    <3>1. /\ job' = [job EXCEPT ![c].active = TRUE]
          /\ pc' = [pc EXCEPT ![c] = AfterProbe(pc[c])]
          /\ pc[c] \in {"probe", "verify", "watch"}
      BY <1>9, <2>2 DEF ProbeInstance
    <3>2. UNCHANGED <<state, startup, instance, childPc, reply>> /\ instance # c
      BY <1>9, <2>2 DEF ProbeInstance, Probing, childVars
    <3>3. QED
      BY <1>0, <3>1, <3>2 DEF AfterProbe, TypeOK, Jobs, Locked, Observed, Spawned, SeenState,
         SeenEnded, Ended, Coordinates, Served
  <2>3. QED
    BY <2>1, <2>2
<1>10. CASE EndProbeInstance(c)
    BY <1>0, <1>10, FreeMeansEnded DEF EndProbeInstance, Probing, AfterProbe, TypeOK, Jobs, Locked,
       Observed, Spawned, SeenState, SeenEnded, Ended, Coordinates, Served, childVars
<1>11. CASE ProbeError(c)
    BY <1>0, <1>11 DEF ProbeError, Probing, TypeOK, Jobs, Locked, Observed, Spawned, SeenState,
       SeenEnded, Ended, Coordinates, Served, lockVars, childVars
<1>12. CASE InspectNothing(c)
  <2>1. CASE job[c].cmd = "start" /\ ~ job[c].active
    BY <1>0, <1>12, <2>1 DEF InspectNothing, TypeOK, Jobs, Locked, Observed, Spawned, SeenState,
       SeenEnded, Ended, Coordinates, Served, childVars
  <2>2. CASE ~ (job[c].cmd = "start" /\ ~ job[c].active)
    <3>1. PICK outcome \in {"starting", "unresponsive", "stopped"} : Answer(c, outcome)
      BY <1>12, <2>2 DEF InspectNothing
    <3>2. QED
      BY <1>0, <1>12, <3>1, AnswerInv DEF InspectNothing, Locked, Spawned, Ended
  <2>3. QED
    BY <2>1, <2>2
<1>13. CASE InspectRecorded(c)
    BY <1>0, <1>13 DEF InspectRecorded, TypeOK, Jobs, Locked, Observed, Spawned, SeenState,
       SeenEnded, Ended, Coordinates, Served, lockVars, childVars
<1>14. CASE Connect(c) \/ RequestFails(c) \/ Timeout(c)
  <2>1. \A h \in Children : reply'[c] = h => reply[c] = h
    BY <1>1, <1>14 DEF Connect, RequestFails, Timeout, Respond, TypeOK
  <2>2. UNCHANGED <<state, startup, instance, pc, job>>
    BY <1>14 DEF Connect, RequestFails, Timeout, lockVars
  <2>3. QED
    BY <2>1, <2>2, CliInvKept DEF CliInv
<1>15. CASE IdentifyForStatus(c)
  <2>1. PICK outcome \in {"running", "stale", "unresponsive"} :
           Answer(c, outcome) /\ (outcome = "stale" => Dead(c))
    BY <1>15 DEF IdentifyForStatus
  <2>2. \A h \in Children : reply'[c] # h
    BY <1>1, <1>15 DEF IdentifyForStatus, Respond, TypeOK
  <2>3. QED
    BY <1>0, <1>15, <2>1, <2>2, AnswerInv DEF IdentifyForStatus, Dead, Locked, Spawned, SeenEnded
<1>16. QED
    BY <1>2, <1>3, <1>4, <1>5, <1>6, <1>7, <1>8, <1>9, <1>10, <1>11, <1>12, <1>13, <1>14, <1>15
    DEF Observe, Exchange

\* The steps of stop.
LEMMA StopInv ==
    ASSUME TypeOK, NEW c \in Clis, CliInv(c), Stop(c), Onward
    PROVE  CliInv(c)'
<1>. USE DEF CliInv, Goto, Stopping, Starting, Waiting
<1>0. /\ job[c] \in Jobs
      /\ {"error", "stopped", "unresponsive"} \subseteq Outcomes
      /\ Nobody # c /\ c \notin Children
    BY SentinelAssumption DEF TypeOK, Outcomes
<1>1. \A h \in Children : h \notin {"none", "waiting", "failed", "unavailable", "accepted"}
    BY RepliesAssumption DEF Replies
<1>2. Respond(c, "none") => \A h \in Children : reply'[c] # h
    BY <1>1 DEF Respond, TypeOK
<1>3. CASE IdentifyForStop(c)
  <2>1. CASE Answer(c, "unresponsive")
    BY <1>0, <1>2, <1>3, <2>1, AnswerInv DEF IdentifyForStop, Locked, Spawned
  <2>2. CASE Matches(c) /\ pc' = [pc EXCEPT ![c] = "shutdown"]
    BY <1>0, <1>2, <1>3, <2>2 DEF IdentifyForStop, TypeOK, Jobs, Locked, Observed,
       Spawned, SeenState, SeenEnded, Ended, Coordinates, Served, childVars
  <2>3. CASE Dead(c) /\ pc' = [pc EXCEPT ![c] = "remove"]
    BY <1>0, <1>2, <1>3, <2>3 DEF IdentifyForStop, TypeOK, Jobs, Dead, Matches, Locked, Observed,
       Spawned, SeenState, SeenEnded, Ended, Coordinates, Served, childVars
  <2>4. QED
    BY <1>3, <2>1, <2>2, <2>3 DEF IdentifyForStop
<1>4. CASE Acknowledged(c)
  <2>1. CASE reply[c] # "accepted"
    BY <1>0, <1>2, <1>4, <2>1, AnswerInv DEF Acknowledged, Locked, Spawned
  <2>2. CASE reply[c] = "accepted"
    <3>1. pc' = [pc EXCEPT ![c] = "watch"] /\ UNCHANGED <<state, startup, instance, job, childPc>>
      BY <1>4, <2>2 DEF Acknowledged, childVars
    <3>2. pc[c] = "shutdown" /\ \A h \in Children : reply'[c] # h
      BY <1>2, <1>4 DEF Acknowledged
    <3>3. QED
      BY <1>0, <3>1, <3>2 DEF TypeOK, Jobs, Locked, Observed, Spawned, SeenState, SeenEnded,
         Ended, Coordinates, Served
  <2>3. QED
    BY <1>4, <2>1, <2>2 DEF Acknowledged
<1>5. CASE TakeSeenIndex(c)
    BY <1>5, CliInvKept DEF TakeSeenIndex, childVars, cliVars
<1>6. CASE DropSeenIndex(c)
    BY <1>0, <1>6 DEF DropSeenIndex, TypeOK, Jobs, Locked, Observed, Spawned, SeenState,
       SeenEnded, Ended, Coordinates, Served, childVars
<1>7. CASE WatchAgain(c)
    BY <1>0, <1>7, NextRoundKeeps DEF WatchAgain, TypeOK, Jobs, Locked, Observed, Spawned, SeenState,
       SeenEnded, Ended, Coordinates, Served, lockVars, childVars
<1>8. CASE WatchEnds(c)
    BY <1>0, <1>8, AnswerInv DEF WatchEnds, Locked, Spawned
<1>9. CASE Confirmed(c)
  <2>1. CASE reply[c] # "unavailable"
    BY <1>0, <1>2, <1>9, <2>1, AnswerInv DEF Confirmed, Locked, Spawned
  <2>2. CASE reply[c] = "unavailable"
    <3>1. pc' = [pc EXCEPT ![c] = "remove"] /\ UNCHANGED <<state, startup, instance, job, childPc>>
      BY <1>9, <2>2 DEF Confirmed, childVars
    <3>2. pc[c] = "confirm" /\ \A h \in Children : reply'[c] # h
      BY <1>2, <1>9 DEF Confirmed
    <3>3. QED
      BY <1>0, <3>1, <3>2 DEF TypeOK, Jobs, Locked, Observed, Spawned, SeenState, SeenEnded,
         Ended, Coordinates, Served
  <2>3. QED
    BY <1>9, <2>1, <2>2 DEF Confirmed
<1>10. CASE Remove(c)
    BY <1>0, <1>10, AnswerInv DEF Remove, Locked, Spawned, SeenEnded
<1>11. QED
    BY <1>3, <1>4, <1>5, <1>6, <1>7, <1>8, <1>9, <1>10 DEF Stop

\* The steps of start.
LEMMA StartInv ==
    ASSUME TypeOK, NEW c \in Clis, CliInv(c), Start(c), Onward
    PROVE  CliInv(c)'
<1>. USE DEF CliInv, Goto, Stopping, Starting, Waiting
<1>0. /\ job[c] \in Jobs
      /\ {"error", "started", "running", "unresponsive"} \subseteq Outcomes
      /\ Nobody # c /\ c \notin Children
    BY SentinelAssumption DEF TypeOK, Outcomes
<1>1. \A h \in Children : h \notin {"none", "waiting", "failed", "unavailable", "accepted"}
    BY RepliesAssumption DEF Replies
<1>2. Respond(c, "none") => \A h \in Children : reply'[c] # h
    BY <1>1 DEF Respond, TypeOK
<1>3. CASE IdentifyForStart(c)
  <2>1. CASE Dead(c)
    <3>1. /\ pc' = [pc EXCEPT ![c] = "claim"]
          /\ UNCHANGED <<state, startup, instance, job, childPc>>
      BY <1>3, <2>1 DEF IdentifyForStart, childVars
    <3>2. /\ pc[c] = "ping" /\ job[c].cmd = "start" /\ ~ job[c].active
          /\ \A h \in Children : reply'[c] # h
      BY <1>2, <1>3, <2>1 DEF IdentifyForStart, Dead
    <3>3. QED
      BY <1>0, <3>1, <3>2 DEF TypeOK, Jobs, Locked, Observed, Spawned, SeenState, SeenEnded,
         Ended, Coordinates, Served
  <2>2. CASE ~ Dead(c)
    <3>1. PICK outcome \in {"running", "error", "unresponsive"} : Answer(c, outcome)
      BY <1>3, <2>2 DEF IdentifyForStart
    <3>2. QED
      BY <1>0, <1>2, <1>3, <3>1, AnswerInv DEF IdentifyForStart, Locked, Spawned
  <2>3. QED
    BY <2>1, <2>2
<1>4. CASE ClaimIndex(c)
    BY <1>4, CliInvKept DEF ClaimIndex, childVars, cliVars
<1>5. CASE ClaimBusy(c)
    BY <1>0, <1>5, AnswerInv DEF ClaimBusy, Locked, Spawned
<1>6. CASE Validate(c)
  <2>1. CASE Answer(c, "error")
    BY <1>0, <1>6, <2>1, AnswerInv DEF Validate, Locked, Spawned
  <2>2. CASE pc' = [pc EXCEPT ![c] = "spawn"] /\ UNCHANGED <<startup, job>>
    BY <1>0, <1>6, <2>2 DEF Validate, TypeOK, Jobs, Locked, Observed, Spawned, SeenState,
       SeenEnded, Ended, Coordinates, Served, childVars
  <2>3. QED
    BY <1>6, <2>1, <2>2 DEF Validate
<1>7. CASE Spawn(c)
  <2>1. PICK g \in Children :
           childPc' = [childPc EXCEPT ![g] = "spawned"] /\ job' = [job EXCEPT ![c].child = g]
    BY <1>7 DEF Spawn, ChildGoto
  <2>2. /\ pc' = [pc EXCEPT ![c] = "wait"] /\ pc[c] = "spawn"
        /\ UNCHANGED <<state, startup, instance, reply>>
    BY <1>7 DEF Spawn, lockVars
  <2>3. /\ pc'[c] = "wait"
        /\ job'[c].seen = job[c].seen
        /\ job'[c].child = g
        /\ childPc'[g] = "spawned"
    BY <1>0, <2>1, <2>2 DEF TypeOK, Jobs
  <2>4. (job[c].seen # NoChild => Served(job[c].seen)' /\ Ended(c)')
    BY <1>0, <2>2, <2>3 DEF Jobs, Observed, Onward, Served, SeenEnded, Ended
  <2>5. \A h \in Children : reply[c] = h => Served(h)'
    BY DEF Observed, Onward
  <2>6. NoChild \notin Children
    BY SentinelAssumption
  <2>7. QED
    BY <1>0, <2>2, <2>3, <2>4, <2>5, <2>6 DEF Locked, Observed, Spawned, SeenState, SeenEnded, Ended,
       Coordinates, Served
<1>8. CASE SpawnFails(c)
    BY <1>0, <1>8, AnswerInv DEF SpawnFails, Locked, Spawned
<1>9. CASE TryWait(c)
  <2>1. CASE Alive(job[c].child)
    <3>1. /\ pc' = [pc EXCEPT ![c] = "poll"] /\ pc[c] = "wait"
          /\ UNCHANGED <<state, startup, instance, job, childPc, reply>>
      BY <1>9, <2>1 DEF TryWait, childVars
    <3>2. QED
      BY <1>0, <3>1 DEF TypeOK, Jobs, Locked, Observed, Spawned, SeenState, SeenEnded,
         Ended, Coordinates, Served
  <2>2. CASE ~ Alive(job[c].child)
    BY <1>0, <1>9, <2>2, AnswerInv DEF TryWait, Alive, Locked, Spawned, childVars
  <2>3. QED
    BY <2>1, <2>2
<1>10. CASE Ready(c)
    BY <1>0, <1>2, <1>10 DEF Ready, TypeOK, Jobs, Locked, Observed, Spawned, SeenState,
       SeenEnded, Ended, Coordinates, Served, lockVars, childVars
<1>11. CASE WaitAgain(c)
  <2>1. /\ pc' = [pc EXCEPT ![c] = "wait"]
        /\ job'[c].cmd = job[c].cmd
        /\ job'[c].seen = job[c].seen
        /\ job'[c].child = job[c].child
    BY <1>11, NextRoundKeeps DEF WaitAgain
  <2>2. /\ pc[c] \in {"poll", "verified"}
        /\ UNCHANGED <<state, startup, instance, childPc>>
        /\ \A h \in Children : reply'[c] # h
    BY <1>2, <1>11 DEF WaitAgain, NotReady, lockVars, childVars
  <2>3. QED
    BY <1>0, <2>1, <2>2 DEF TypeOK, Jobs, Locked, Observed, Spawned, SeenState, SeenEnded,
       Ended, Coordinates, Served
<1>12. CASE Verified(c)
    BY <1>0, <1>12 DEF Verified, TypeOK, Jobs, Locked, Observed, Spawned, SeenState,
       SeenEnded, Ended, Coordinates, Served, lockVars, childVars
<1>13. CASE Publish(c)
    BY <1>0, <1>13, AnswerInv DEF Publish, Locked, Spawned
<1>14. CASE StartFails(c)
  <2>1. /\ pc' = [pc EXCEPT ![c] = "reap"] /\ pc[c] \in {"wait", "poll", "verified", "write"}
        /\ UNCHANGED <<state, startup, instance, job, childPc>>
        /\ \A h \in Children : reply'[c] # h
    BY <1>2, <1>14 DEF StartFails, NotReady, lockVars, childVars
  <2>2. QED
    BY <1>0, <2>1 DEF TypeOK, Jobs, Locked, Observed, Spawned, SeenState, SeenEnded,
       Ended, Coordinates, Served
<1>15. CASE Reap(c)
  <2>1. job[c].child \in Children /\ childPc[job[c].child] # "unborn" /\ instance # c
    BY <1>0, <1>15 DEF Reap, Jobs, Locked, Spawned
  <2>2. childPc'[job[c].child] = "gone"
    BY <1>15, <2>1, EndOnward DEF Reap, Alive, childVars
  <2>3. instance' = instance \/ instance' = Nobody
    BY <1>15 DEF Reap, EndChild
  <2>4. \A h \in Children : reply'[c] = h => reply[c] = h
    BY <1>1, <1>15 DEF Reap, EndChild, HangUp, childVars
  <2>5. QED
    BY <1>0, <1>15, <2>2, <2>1, <2>3, <2>4, AnswerInv DEF Reap
<1>16. QED
    BY <1>3, <1>4, <1>5, <1>6, <1>7, <1>8, <1>9, <1>10, <1>11, <1>12, <1>13, <1>14, <1>15
    DEF Start

\* Beginning, returning and being killed.
LEMMA OtherInv ==
    ASSUME TypeOK, NEW c \in Clis, CliInv(c), Begin(c) \/ Return(c) \/ CliCrash(c), Onward
    PROVE  CliInv(c)'
<1>. USE DEF CliInv, Goto, Stopping, Starting, Waiting
<1>0. /\ NoJob.seen = NoChild /\ NoJob.child = NoChild
      /\ Nobody # c /\ NoChild \notin Children
      /\ \A h \in Children : h # "none"
    BY SentinelAssumption, RepliesAssumption DEF NoJob, Replies
<1>1. CASE Begin(c)
  <2>1. /\ pc' = [pc EXCEPT ![c] = "read"] /\ pc[c] = "idle"
        /\ UNCHANGED <<state, startup, instance, childPc, reply>>
    BY <1>1 DEF Begin, lockVars, childVars
  <2>2. job'[c].seen = NoChild /\ job'[c].child = NoChild
    <3>1. PICK cmd, want :
             job' = [job EXCEPT ![c] = [NoJob EXCEPT !.cmd = cmd, !.want = want]]
      BY <1>1 DEF Begin
    <3>2. QED
      BY <3>1 DEF NoJob, TypeOK
  <2>3. \A h \in Children : reply[c] = h => Served(h)'
    BY DEF Observed, Onward
  <2>4. QED
    BY <1>0, <2>1, <2>2, <2>3 DEF TypeOK, Locked, Observed, Spawned, SeenState, SeenEnded, Ended,
       Coordinates, Served
<1>2. CASE Return(c)
  <2>1. /\ pc' = [pc EXCEPT ![c] = "idle"] /\ pc[c] \in Outcomes
        /\ job' = [job EXCEPT ![c] = NoJob]
        /\ UNCHANGED <<state, startup, instance, childPc, reply>>
    BY <1>2 DEF Return, lockVars, childVars
  <2>2. QED
    BY <1>0, <2>1 DEF TypeOK, Outcomes, Locked, Observed, Spawned, SeenState, SeenEnded, Ended,
       Coordinates, Served
<1>3. CASE CliCrash(c)
  <2>1. /\ pc' = [pc EXCEPT ![c] = "idle"]
        /\ job' = [job EXCEPT ![c] = NoJob]
        /\ reply' = [reply EXCEPT ![c] = "none"]
        /\ instance' # c
    BY <1>0, <1>3 DEF CliCrash, Respond
  <2>2. QED
    BY <1>0, <2>1 DEF TypeOK, Locked, Observed, Spawned, SeenState, SeenEnded, Ended,
       Coordinates, Served
<1>4. QED
    BY <1>1, <1>2, <1>3

-----------------------------------------------------------------------------
(***************************************************************************)
(* The record, and the requests that are on their way.                     *)
(***************************************************************************)
\* The state file is written by the holder of the startup lock, and only when
\* the generation it records has ended.
LEMMA CliRecord ==
    ASSUME TypeOK, NEW c \in Clis, CliInv(c), CliMoves(c), state' # state
    PROVE  /\ startup = c
           /\ state # NoChild => childPc[state] = "gone"
           /\ state' # NoChild => Served(state')
           /\ UNCHANGED childPc
<1>1. Remove(c) \/ Publish(c)
  <2>1. CASE Observe(c)
    BY <2>1 DEF Observe, Exchange, ReadState, TakeStartup, StartupBusy, RereadState,
       Fail, ProbeStartup, EndProbeStartup, ProbeInstance, EndProbeInstance, ProbeError,
       InspectNothing, InspectRecorded, Connect, RequestFails, Timeout, IdentifyForStatus
  <2>2. CASE Stop(c)
    BY <2>2 DEF Stop, IdentifyForStop, Acknowledged, TakeSeenIndex, DropSeenIndex,
       WatchAgain, WatchEnds, Confirmed
  <2>3. CASE Start(c)
    BY <2>3 DEF Start, IdentifyForStart, ClaimIndex, ClaimBusy, Validate, Spawn, SpawnFails,
       TryWait, Ready, WaitAgain, Verified, StartFails, Reap
  <2>4. CASE Begin(c) \/ Return(c) \/ CliCrash(c)
    BY <2>4 DEF Begin, Return, CliCrash
  <2>5. QED
    BY <2>1, <2>2, <2>3, <2>4 DEF CliMoves, CliStep
<1>2. pc[c] \in {"remove", "write"} /\ state' \in {NoChild, job[c].child} /\ UNCHANGED childPc
    BY <1>1 DEF Remove, Publish, childVars
<1>3. pc[c] # "write" => state' = NoChild
    BY <1>1 DEF Remove, Publish
<1>4. startup = c /\ job[c].seen = state
    BY <1>2 DEF CliInv, Locked, SeenState, Coordinates, Stopping, Starting
<1>5. state # NoChild => childPc[state] = "gone"
    BY <1>2, <1>4 DEF CliInv, SeenEnded, Ended, Starting
<1>6. state' # NoChild => Served(state')
    BY <1>2, <1>3 DEF CliInv, Observed
<1>7. QED
    BY <1>2, <1>4, <1>5, <1>6

\* Where the shutdowns of a queue that name a generation come from.
SameTargets(h) ==
    \A k \in DOMAIN queue'[h] : queue'[h][k].target \in Children =>
       \E j \in DOMAIN queue[h] : queue'[h][k].target = queue[h][j].target

\* Requests that were on their way stay meant for the record.
LEMMA TargetKept ==
    ASSUME TypeOK, TargetInv, Onward, state' = state \/ (state # NoChild => childPc[state] = "gone"),
           \A h \in Children : SameTargets(h)
    PROVE  TargetInv'
<1>1. SUFFICES ASSUME NEW g \in Children, NEW k \in DOMAIN queue'[g],
                      queue'[g][k].target \in Children
               PROVE  queue'[g][k].target = state' \/ childPc'[queue'[g][k].target] = "gone"
    BY DEF TargetInv
<1>2. PICK j \in DOMAIN queue[g] : queue'[g][k].target = queue[g][j].target
    BY <1>1 DEF SameTargets
<1>3. queue[g][j].target = state \/ childPc[queue[g][j].target] = "gone"
    BY <1>1, <1>2 DEF TargetInv
<1>4. QED
    BY <1>1, <1>2, <1>3, SentinelAssumption DEF Onward

\* A queue that is dropped has no targets.
LEMMA HangUpTargets ==
    ASSUME TypeOK, NEW g \in Children, HangUp(g)
    PROVE  \A h \in Children : SameTargets(h)
<1>1. \A h \in Children : queue'[h] = queue[h] \/ queue'[h] = <<>>
    BY DEF TypeOK, HangUp
<1>2. QED
    BY <1>1 DEF SameTargets

\* A client that hangs up leaves the target of its request.
LEMMA DisconnectTargets ==
    ASSUME NEW c \in Clis, Disconnect(c)
    PROVE  \A h \in Children : SameTargets(h)
BY DEF Disconnect, SameTargets

\* Children only take requests from the queues.
LEMMA ChildTargets ==
    ASSUME TypeOK, NEW g \in Children, ChildMoves(g)
    PROVE  \A h \in Children : SameTargets(h)
<1>1. UNCHANGED queue => \A h \in Children : SameTargets(h)
    BY DEF SameTargets
<1>2. CASE Serve(g)
  <2>1. queue[g] \in Seq(Connections) /\ queue[g] # <<>>
    BY <1>2 DEF TypeOK, Serve
  <2>2. queue'[g] = Tail(queue[g]) /\ \A h \in Children \ {g} : queue'[h] = queue[h]
    BY <1>2 DEF TypeOK, Serve
  <2>3. \A k \in DOMAIN Tail(queue[g]) :
           k + 1 \in DOMAIN queue[g] /\ Tail(queue[g])[k] = queue[g][k + 1]
    BY <2>1
  <2>4. SameTargets(g)
    BY <2>2, <2>3 DEF SameTargets
  <2>5. \A h \in Children \ {g} : SameTargets(h)
    BY <2>2 DEF SameTargets
  <2>6. QED
    BY <2>4, <2>5
<1>3. CASE Close(g)
    BY <1>3, HangUpTargets DEF Close
<1>4. CASE ChildCrash(g)
    BY <1>4, HangUpTargets DEF ChildCrash, EndChild
<1>5. CASE TakeIndex(g) \/ TakeInstance(g) \/ GiveUpEarly(g) \/ Abandon(g) \/ Bind(g)
              \/ BindFails(g) \/ ReleaseIndex(g) \/ ReleaseInstance(g) \/ ServeFails(g)
    BY <1>1, <1>5 DEF TakeIndex, TakeInstance, GiveUpEarly, Abandon, Bind, BindFails, ReleaseIndex,
       ReleaseInstance, ServeFails
<1>6. CASE AskShutdown(g)
  <2>. DEFINE request == [from |-> Nobody, target |-> AnyChild]
  <2>1. /\ queue[g] \in Seq(Connections) /\ queue'[g] = Append(queue[g], request)
        /\ \A h \in Children \ {g} : queue'[h] = queue[h]
    BY <1>6 DEF TypeOK, AskShutdown
  <2>2. request.target \notin Children
    BY SentinelAssumption
  <2>. HIDE DEF request
  <2>3. \A k \in DOMAIN queue'[g] :
           queue'[g][k] = request \/ (k \in DOMAIN queue[g] /\ queue'[g][k] = queue[g][k])
    BY <2>1
  <2>4. QED
    BY <2>1, <2>2, <2>3 DEF SameTargets
<1>7. QED
    BY <1>2, <1>3, <1>4, <1>5, <1>6 DEF ChildMoves, ChildStep

\* A stop asks for the end of the generation that is recorded when it connects.
LEMMA ConnectTarget ==
    ASSUME TypeOK, TargetInv, NEW c \in Clis, CliInv(c), Connect(c)
    PROVE  TargetInv'
<1>. DEFINE g == listener[Target(c)]
            target == IF pc[c] = "shutdown" THEN job[c].seen ELSE NoChild
<1>1. UNCHANGED <<state, childPc>>
    BY DEF Connect
<1>2. target = NoChild \/ target = state
    BY DEF CliInv, SeenState, Coordinates, Stopping
<1>3. \/ UNCHANGED queue
      \/ queue' = [queue EXCEPT ![g] = Append(@, [from |-> c, target |-> target])]
    BY DEF Connect
<1>. HIDE DEF g, target
<1>4. CASE UNCHANGED queue
    BY <1>1, <1>4 DEF TargetInv
<1>5. CASE queue' = [queue EXCEPT ![g] = Append(@, [from |-> c, target |-> target])]
  <2>1. SUFFICES ASSUME NEW h \in Children, NEW k \in DOMAIN queue'[h],
                        queue'[h][k].target \in Children
                 PROVE  queue'[h][k].target = state \/ childPc[queue'[h][k].target] = "gone"
    BY <1>1 DEF TargetInv
  <2>2. CASE h # g
    BY <1>5, <2>1, <2>2 DEF TypeOK, TargetInv
  <2>3. CASE h = g
    <3>1. queue[g] \in Seq(Connections)
      BY <2>3 DEF TypeOK
    <3>2. queue'[g] = Append(queue[g], [from |-> c, target |-> target])
      BY <1>5, <2>3 DEF TypeOK
    <3>3. CASE k = Len(queue[g]) + 1
      BY <1>2, <2>1, <2>3, <3>1, <3>2, <3>3, SentinelAssumption
    <3>4. CASE k # Len(queue[g]) + 1
      <4>1. k \in DOMAIN queue[g] /\ queue'[g][k] = queue[g][k]
        BY <2>3, <3>1, <3>2, <3>4
      <4>2. QED
        BY <2>1, <2>3, <4>1 DEF TargetInv
    <3>5. QED
      BY <3>3, <3>4
  <2>4. QED
    BY <2>2, <2>3
<1>6. QED
    BY <1>3, <1>4, <1>5

\* Of the steps of a command, only connecting adds a request.
LEMMA CliTargets ==
    ASSUME TypeOK, NEW c \in Clis, CliInv(c), CliMoves(c), ~ Connect(c)
    PROVE  \A h \in Children : SameTargets(h)
<1>1. UNCHANGED queue => \A h \in Children : SameTargets(h)
    BY DEF SameTargets
<1>2. CASE Timeout(c) \/ CliCrash(c)
    BY <1>2, DisconnectTargets DEF Timeout, CliCrash
<1>3. CASE Reap(c)
  <2>1. job[c].child \in Children
    BY <1>3 DEF TypeOK, Jobs, CliInv, Reap, Spawned, Waiting, Starting
  <2>2. QED
    BY <1>1, <1>3, <2>1, HangUpTargets DEF Reap, EndChild, childVars
<1>4. CASE Observe(c) /\ ~ Timeout(c)
    BY <1>1, <1>4 DEF Observe, Exchange, ReadState, TakeStartup, StartupBusy, RereadState,
       Fail, ProbeStartup, EndProbeStartup, ProbeInstance, EndProbeInstance, ProbeError,
       InspectNothing, InspectRecorded, RequestFails, IdentifyForStatus, childVars
<1>5. CASE Stop(c)
    BY <1>1, <1>5 DEF Stop, IdentifyForStop, Acknowledged, TakeSeenIndex, DropSeenIndex,
       WatchAgain, WatchEnds, Confirmed, Remove, childVars
<1>6. CASE Start(c) /\ ~ Reap(c)
    BY <1>1, <1>6 DEF Start, IdentifyForStart, ClaimIndex, ClaimBusy, Validate, Spawn, SpawnFails,
       TryWait, Ready, WaitAgain, Verified, Publish, StartFails, childVars
<1>7. CASE Begin(c) \/ Return(c)
    BY <1>1, <1>7 DEF Begin, Return, childVars
<1>8. QED
    BY <1>2, <1>3, <1>4, <1>5, <1>6, <1>7 DEF CliMoves, CliStep

\* Only a child that serves leaves its loop, and never comes back to it.
LEMMA ChildEnded ==
    ASSUME TypeOK, EndedInv, NEW g \in Children, ChildMoves(g)
    PROVE  EndedInv'
<1>. USE DEF TypeOK, EndedInv, ChildGoto
<1>1. CASE Serve(g)
  <2>1. \/ UNCHANGED <<childPc, ended>>
        \/ /\ childPc' = [childPc EXCEPT ![g] = "closing"]
           /\ \A h \in Children \ {g} : ended'[h] = ended[h]
    BY <1>1 DEF Serve, EndLoop
  <2>2. QED
    BY <2>1
<1>2. CASE ServeFails(g)
    BY <1>2 DEF ServeFails, EndLoop
<1>3. CASE TakeIndex(g) \/ TakeInstance(g) \/ GiveUpEarly(g) \/ Abandon(g)
    BY <1>3 DEF TakeIndex, TakeInstance, GiveUpEarly, Abandon
<1>4. CASE Bind(g) \/ BindFails(g) \/ Close(g) \/ ReleaseIndex(g) \/ ReleaseInstance(g)
    BY <1>4 DEF Bind, BindFails, Close, ReleaseIndex, ReleaseInstance
<1>5. CASE ChildCrash(g) \/ AskShutdown(g)
    BY <1>5 DEF ChildCrash, EndChild, AskShutdown
<1>6. QED
    BY <1>1, <1>2, <1>3, <1>4, <1>5 DEF ChildMoves, ChildStep

\* No command takes a child out of its loop otherwise than by killing its own, which
\* is no stop.
LEMMA CliEnded ==
    ASSUME TypeOK, EndedInv, NEW c \in Clis, CliMoves(c)
    PROVE  /\ EndedInv'
           /\ \A g \in Children : ended'[g] = "stop" => ended[g] = "stop"
<1>. DEFINE NoneStopped == \A g \in Children : ended'[g] = "stop" => ended[g] = "stop"
<1>1. UNCHANGED <<childPc, ended>> => EndedInv' /\ NoneStopped
    BY DEF EndedInv
<1>2. CASE Spawn(c)
    BY <1>2 DEF TypeOK, EndedInv, Spawn, ChildGoto
<1>3. CASE Reap(c)
    BY <1>1, <1>3 DEF TypeOK, EndedInv, Reap, EndChild, ChildGoto, childVars
<1>4. CASE Observe(c)
    BY <1>1, <1>4 DEF Observe, Exchange, ReadState, TakeStartup, StartupBusy, RereadState,
       Fail, ProbeStartup, EndProbeStartup, ProbeInstance, EndProbeInstance, ProbeError,
       InspectNothing, InspectRecorded, Connect, RequestFails, Timeout, IdentifyForStatus, childVars
<1>5. CASE Stop(c)
    BY <1>1, <1>5 DEF Stop, IdentifyForStop, Acknowledged, TakeSeenIndex, DropSeenIndex,
       WatchAgain, WatchEnds, Confirmed, Remove, childVars
<1>6. CASE Start(c) /\ ~ Spawn(c) /\ ~ Reap(c)
    BY <1>1, <1>6 DEF Start, IdentifyForStart, ClaimIndex, ClaimBusy, Validate, SpawnFails,
       TryWait, Ready, WaitAgain, Verified, Publish, StartFails, childVars
<1>7. CASE Begin(c) \/ Return(c) \/ CliCrash(c)
    BY <1>1, <1>7 DEF Begin, Return, CliCrash, childVars
<1>8. QED
    BY <1>2, <1>3, <1>4, <1>5, <1>6, <1>7 DEF CliMoves, CliStep

\* A shutdown that names the generation which executes it was sent while that one
\* was recorded; other causes of its end are no stop.
LEMMA ChildCloses ==
    ASSUME TypeOK, TargetInv, OnlyRecordedCloses, Onward,
           NEW g \in Children, ChildMoves(g), UNCHANGED state
    PROVE  OnlyRecordedCloses'
<1>1. ASSUME \A h \in Children : ended'[h] = "stop" => ended[h] = "stop" \/ h = state
      PROVE  OnlyRecordedCloses'
    BY <1>1 DEF OnlyRecordedCloses, Onward
<1>2. CASE Serve(g)
  <2>1. queue[g] \in Seq(Connections) /\ queue[g] # <<>>
    BY <1>2 DEF TypeOK, Serve
  <2>2. 1 \in DOMAIN queue[g] /\ Head(queue[g]) = queue[g][1]
    BY <2>1
  <2>3. Head(queue[g]).target = g => state = g
    BY <1>2, <2>2 DEF TargetInv, Serve
  <2>4. \/ UNCHANGED ended
        \/ Head(queue[g]).target = g /\ ended' = [ended EXCEPT ![g] = "stop"]
        \/ ended' = [ended EXCEPT ![g] = "other"]
    BY <1>2 DEF Serve, EndLoop
  <2>5. QED
    BY <1>1, <2>3, <2>4 DEF TypeOK
<1>3. CASE ServeFails(g)
    BY <1>1, <1>3 DEF TypeOK, ServeFails, EndLoop
<1>4. CASE TakeIndex(g) \/ TakeInstance(g) \/ GiveUpEarly(g) \/ Abandon(g)
    BY <1>1, <1>4 DEF TakeIndex, TakeInstance, GiveUpEarly, Abandon
<1>5. CASE Bind(g) \/ BindFails(g) \/ Close(g) \/ ReleaseIndex(g) \/ ReleaseInstance(g)
    BY <1>1, <1>5 DEF Bind, BindFails, Close, ReleaseIndex, ReleaseInstance
<1>6. CASE ChildCrash(g) \/ AskShutdown(g)
    BY <1>1, <1>6 DEF TypeOK, ChildCrash, EndChild, AskShutdown
<1>7. QED
    BY <1>2, <1>3, <1>4, <1>5, <1>6 DEF ChildMoves, ChildStep

\* No command takes away the record of a generation that goes down.
LEMMA CliCloses ==
    ASSUME TypeOK, EndedInv, OnlyRecordedCloses, Onward, NEW c \in Clis, CliInv(c), CliMoves(c)
    PROVE  OnlyRecordedCloses'
<1>1. \A g \in Children : ended'[g] = "stop" => ended[g] = "stop"
    BY CliEnded
<1>2. state' # state /\ state # NoChild => childPc[state] = "gone"
    BY CliRecord
<1>3. \A g \in Children : g # NoChild
    BY SentinelAssumption
<1>4. QED
    BY <1>1, <1>2, <1>3 DEF OnlyRecordedCloses, Onward

-----------------------------------------------------------------------------
(***************************************************************************)
(* The inductive invariant.                                                *)
(***************************************************************************)
\* The initial state satisfies it.
LEMMA InitInv == Init => IInv
<1>1. SUFFICES ASSUME Init PROVE IInv
    OBVIOUS
<1>2. TypeOK
    BY <1>1, InitType
<1>3. InstanceInv /\ EndedInv /\ OnlyRecordedCloses
    BY <1>1, SentinelAssumption DEF Init, InstanceInv, Owns, EndedInv, OnlyRecordedCloses
<1>4. TargetInv
    BY <1>1 DEF Init, TargetInv
<1>5. \A c \in Clis : CliInv(c)
  <2>1. NoJob.seen = NoChild /\ NoJob.child = NoChild
    BY DEF NoJob
  <2>2. "none" \notin Children /\ \A c \in Clis : c # Nobody
    BY RepliesAssumption, SentinelAssumption DEF Replies
  <2>3. QED
    BY <1>1, <2>1, <2>2 DEF Init, CliInv, Locked, Observed, Spawned, SeenState, SeenEnded, Ended,
       Coordinates, Stopping, Starting, Waiting
<1>6. QED
    BY <1>1, <1>2, <1>3, <1>4, <1>5 DEF Init, IInv

\* Every step of a child preserves the invariant.
LEMMA ChildInv ==
    ASSUME IInv, NEW g \in Children, ChildMoves(g)
    PROVE  IInv'
<1>. USE DEF IInv
<1>1. TypeOK'
    BY ChildType
<1>2. Onward
    BY ChildOnward
<1>3. InstanceInv'
    BY ChildInstance
<1>4. /\ UNCHANGED <<state, startup, pc, job>>
      /\ \A c \in Clis, h \in Children : reply'[c] = h => reply[c] = h \/ Served(h)'
    BY ChildFrame
<1>5. (state # NoChild => Served(state))'
    BY <1>2, <1>4 DEF TypeOK, Onward, Served
<1>6. \A c \in Clis : instance' = c => instance = c
    BY ChildLocks
<1>7. \A c \in Clis : CliInv(c)'
    BY <1>2, <1>4, <1>6, CliInvKept
<1>8. TargetInv'
    BY <1>2, <1>4, ChildTargets, TargetKept
<1>9. OnlyRecordedCloses'
    BY <1>2, <1>4, ChildCloses
<1>10. EndedInv'
    BY ChildEnded
<1>11. QED
    BY <1>1, <1>3, <1>5, <1>7, <1>8, <1>9, <1>10

\* Every step of a command preserves the invariant.
LEMMA CliMoveInv ==
    ASSUME IInv, NEW c \in Clis, CliMoves(c)
    PROVE  IInv'
<1>. USE DEF IInv
<1>0. CliInv(c) /\ Spawned(c) /\ Locked(c)
    BY DEF CliInv
<1>1. TypeOK'
    BY <1>0, ObserveType, StopType, StartType, OtherType DEF CliMoves, CliStep
<1>2. Onward
    BY <1>0, CliOnward
<1>3. InstanceInv'
    BY <1>0, CliInstance
<1>4. (state # NoChild => Served(state))'
  <2>1. CASE state' = state
    BY <1>2, <2>1 DEF TypeOK, Onward, Served
  <2>2. CASE state' # state
    BY <1>0, <2>2, CliRecord DEF Served
  <2>3. QED
    BY <2>1, <2>2
<1>5. CliInv(c)'
    BY <1>0, <1>2, ObserveInv, StopInv, StartInv, OtherInv DEF CliMoves, CliStep
<1>6. ASSUME NEW d \in Clis \ {c}
      PROVE  CliInv(d)'
  <2>1. /\ pc'[d] = pc[d]
        /\ job'[d] = job[d]
        /\ reply'[d] \in {reply[d], "failed"}
        /\ startup = d => startup' = d
        /\ instance' = d => instance = d
    BY <1>0, CliFrame DEF OthersKept
  <2>2. "failed" \notin Children
    BY RepliesAssumption DEF Replies
  <2>3. state' = state \/ startup # d
    BY <1>0, CliRecord
  <2>4. CliInv(d)
    OBVIOUS
  <2>5. QED
    BY <1>2, <2>1, <2>2, <2>3, <2>4, CliInvKept
<1>7. TargetInv'
  <2>1. CASE Connect(c)
    BY <1>0, <2>1, ConnectTarget
  <2>2. CASE ~ Connect(c)
    BY <1>0, <1>2, <2>2, CliTargets, CliRecord, TargetKept
  <2>3. QED
    BY <2>1, <2>2
<1>8. OnlyRecordedCloses'
    BY <1>0, <1>2, CliCloses
<1>9. EndedInv'
    BY CliEnded
<1>10. QED
    BY <1>1, <1>3, <1>4, <1>5, <1>6, <1>7, <1>8, <1>9

\* Other writers of an index preserve the invariant.
LEMMA ExternalInv ==
    ASSUME IInv, NEW i \in Indexes, ExternalTakes(i) \/ ExternalDrops(i)
    PROVE  IInv'
<1>1. TypeOK'
    BY ExternalType DEF IInv
<1>2. UNCHANGED <<state, startup, instance, childVars, cliVars>>
    BY DEF ExternalTakes, ExternalDrops
<1>3. QED
    BY <1>1, <1>2 DEF IInv, InstanceInv, Owns, TargetInv, EndedInv, OnlyRecordedCloses, CliInv,
       Locked, Observed, Spawned, SeenState, SeenEnded, Ended, Coordinates, Served, childVars, cliVars

\* So does a step in which nothing happens.
LEMMA StutterInv == IInv /\ UNCHANGED vars => IInv'
BY DEF vars, IInv, TypeOK, InstanceInv, Owns, TargetInv, EndedInv, OnlyRecordedCloses, CliInv,
   Locked, Observed, Spawned, SeenState, SeenEnded, Ended, Coordinates, Served,
   lockVars, childVars, cliVars

\* Every step preserves the invariant.
LEMMA StepInv == IInv /\ [Next]_vars => IInv'
BY ChildInv, CliMoveInv, ExternalInv, StutterInv DEF Next, CliMoves, ChildMoves

\* The invariant holds of every run.
THEOREM Invariance == Spec => []IInv
BY InitInv, StepInv, PTL DEF Spec

-----------------------------------------------------------------------------
(***************************************************************************)
(* The properties.                                                         *)
(***************************************************************************)
\* The types of the model, among them that no wait loop outlives its deadline.
THEOREM TypeCorrect == Spec => []TypeOK
<1>1. IInv => TypeOK
    BY DEF IInv
<1>2. QED
    BY <1>1, Invariance, PTL

\* However many starts and stops overlap and are killed, two generations never
\* own the instance at a time: both would be the owner of its lock.
THEOREM InstanceOwnedOnce == Spec => []OneService
<1>1. IInv => OneService
    BY DEF IInv, InstanceInv, OneService
<1>2. QED
    BY <1>1, Invariance, PTL

\* A generation that executes the shutdown of a stop is the one in the state file,
\* and stays so until it has ended, whatever other clients ask for meanwhile.
THEOREM ShutdownMeetsItsTarget == Spec => []OnlyRecordedCloses
<1>1. IInv => OnlyRecordedCloses
    BY DEF IInv
<1>2. QED
    BY <1>1, Invariance, PTL

\* A stop that reports success leaves no generation that it had read.
THEOREM StopIsComplete == Spec => []StoppedMeansGone
<1>1. IInv => StoppedMeansGone
    BY DEF IInv, CliInv, SeenEnded, Ended, StoppedMeansGone
<1>2. QED
    BY <1>1, Invariance, PTL

\* "stale" is said of ended generations only.
THEOREM StaleIsDead == Spec => []StaleMeansGone
<1>1. IInv => StaleMeansGone
    BY DEF IInv, CliInv, SeenEnded, Ended, StaleMeansGone
<1>2. QED
    BY <1>1, Invariance, PTL

\* The child of a failed start has ended when the start reports the failure.
THEOREM FailedStartReaps == Spec => []FailedStartLeavesNothing
<1>1. IInv => FailedStartLeavesNothing
    BY DEF IInv, CliInv, Spawned, FailedStartLeavesNothing
<1>2. QED
    BY <1>1, Invariance, PTL

\* No step of anyone removes or replaces the record of a living generation.
THEOREM RecordOutlivesService == Spec => LiveRecordKept
<1>1. ASSUME IInv, [Next]_vars, state' # state
      PROVE  state = NoChild \/ childPc[state] = "gone"
  <2>1. PICK c \in Clis : CliMoves(c)
    BY <1>1, ChildFrame DEF Next, CliMoves, ChildMoves, IInv, ExternalTakes, ExternalDrops, vars
  <2>2. QED
    BY <1>1, <2>1, CliRecord DEF IInv
<1>2. IInv /\ [Next]_vars => [state' # state => state = NoChild \/ childPc[state] = "gone"]_vars
    BY <1>1
<1>3. QED
    BY <1>2, Invariance, PTL DEF Spec, LiveRecordKept

-----------------------------------------------------------------------------
(***************************************************************************)
(* What a start may conclude from an answer.  Requests are answered in the *)
(* order of their arrival, and only the holder of the startup lock asks    *)
(* for a shutdown; so who holds it and is answered by a generation knows   *)
(* that no shutdown of an earlier holder is still before it.               *)
(***************************************************************************)
Requesting == {"ping", "poll", "confirm", "shutdown"}

\* A command waits for the answer to at most one request, at one place of a queue.
RequestInv ==
    \A c \in Clis :
       /\ reply[c] # "none" => pc[c] \in Requesting
       /\ \A g \in Children : \A k \in DOMAIN queue[g] : queue[g][k].from = c =>
             /\ reply[c] = "waiting"
             /\ \A h \in Children : \A l \in DOMAIN queue[h] :
                   queue[h][l].from = c => h = g /\ l = k

\* No stop has ended the generation, which has come to serve, ...
Unended(g) == childPc[g] = "serving" \/ ended[g] = "other"

\* ... and none is about to.
Untouched(g) ==
    /\ Unended(g)
    /\ \A k \in DOMAIN queue[g] : queue[g][k].target # g

\* What a start or a stop knows until it asks for a shutdown itself: who answered it
\* is not ended by a stop, and a shutdown of another stop comes before its request.
Heard(c) ==
    Coordinates(c) /\ pc[c] # "shutdown" =>
       /\ reply[c] \in Children => Untouched(reply[c])
       /\ pc[c] \in {"verify", "verified", "write"} => Untouched(job[c].child)
       /\ pc[c] \in Waiting => config[job[c].child] = job[c].want
       /\ \A g \in Children : \A k, l \in DOMAIN queue[g] :
             queue[g][k].from = c /\ queue[g][l].target = g => l < k

HeardInv == RequestInv /\ \A c \in Clis : Heard(c)

\* The queues lose requests at their fronts, s[g] of that of g, and clients that hang up.
Kept(s) ==
    /\ s \in [Children -> Nat]
    /\ \A g \in Children : \A k \in DOMAIN queue'[g] :
          /\ k \in Nat /\ k + s[g] \in DOMAIN queue[g]
          /\ queue'[g][k].target = queue[g][k + s[g]].target
          /\ \A d \in Clis : queue'[g][k].from = d => queue[g][k + s[g]].from = d

Still == [g \in Children |-> 0]

LEMMA QueueDomain ==
    ASSUME TypeOK, NEW g \in Children
    PROVE  /\ queue[g] \in Seq(Connections) /\ Len(queue[g]) \in Nat
           /\ DOMAIN queue[g] = 1 .. Len(queue[g])
BY DEF TypeOK

\* Nothing is lost where no queue changes.
LEMMA StillKept ==
    ASSUME TypeOK, UNCHANGED queue
    PROVE  Kept(Still)
<1>1. \A g \in Children : \A k \in DOMAIN queue[g] : k \in Nat /\ k + 0 = k
    BY QueueDomain
<1>2. QED
    BY <1>1 DEF Kept, Still

LEMMA HangUpKept ==
    ASSUME TypeOK, NEW g \in Children, HangUp(g)
    PROVE  Kept(Still)
<1>1. \A h \in Children : \A k \in DOMAIN queue[h] : k \in Nat /\ k + 0 = k
    BY QueueDomain
<1>2. queue'[g] = <<>> /\ \A h \in Children \ {g} : queue'[h] = queue[h]
    BY DEF TypeOK, HangUp
<1>3. DOMAIN queue'[g] = {}
    BY <1>2
<1>4. QED
    BY <1>1, <1>2, <1>3 DEF Kept, Still

LEMMA DisconnectKept ==
    ASSUME TypeOK, NEW c \in Clis, Disconnect(c)
    PROVE  /\ Kept(Still)
           /\ \A g \in Children : \A k \in DOMAIN queue'[g] : queue'[g][k].from # c
<1>1. \A h \in Children : \A k \in DOMAIN queue[h] : k \in Nat /\ k + 0 = k
    BY QueueDomain
<1>2. Nobody \notin Clis
    BY SentinelAssumption
<1>3. \A g \in Children :
         /\ DOMAIN queue'[g] = DOMAIN queue[g]
         /\ \A k \in DOMAIN queue[g] :
               /\ queue'[g][k].target = queue[g][k].target
               /\ queue'[g][k].from = IF queue[g][k].from = c THEN Nobody ELSE queue[g][k].from
    BY DEF Disconnect
<1>4. QED
    BY <1>1, <1>2, <1>3 DEF Kept, Still

\* Requests stay at one place each when some are lost.
LEMMA RequestsKept ==
    ASSUME TypeOK, RequestInv, NEW s, Kept(s),
           \A c \in Clis : reply'[c] # "none" => pc'[c] \in Requesting,
           \A c \in Clis, g \in Children : \A k \in DOMAIN queue'[g] :
              queue'[g][k].from = c => reply'[c] = "waiting"
    PROVE  RequestInv'
<1>1. SUFFICES ASSUME NEW c \in Clis, NEW g \in Children, NEW h \in Children,
                      NEW k \in DOMAIN queue'[g], NEW l \in DOMAIN queue'[h],
                      queue'[g][k].from = c, queue'[h][l].from = c
               PROVE  h = g /\ l = k
    BY DEF RequestInv
<1>2. /\ k + s[g] \in DOMAIN queue[g] /\ queue[g][k + s[g]].from = c
      /\ l + s[h] \in DOMAIN queue[h] /\ queue[h][l + s[h]].from = c
      /\ k \in Nat /\ l \in Nat /\ s[g] \in Nat /\ s[h] \in Nat
    BY <1>1 DEF Kept
<1>3. h = g /\ l + s[h] = k + s[g]
    BY <1>2 DEF RequestInv
<1>4. QED
    BY <1>2, <1>3

\* What a command has heard outlives a step in which it has no part.
LEMMA HeardKept ==
    ASSUME TypeOK, NEW c \in Clis, Spawned(c), Heard(c), NEW s, Kept(s),
           pc'[c] = pc[c], job'[c] = job[c],
           \A g \in Children : Untouched(g) => Unended(g)',
           \A g \in Children : childPc[g] # "unborn" => config'[g] = config[g],
           \A h \in Children : reply'[c] = h => reply[c] = h \/ Untouched(h)'
    PROVE  Heard(c)'
<1>1. SUFFICES ASSUME Coordinates(c), pc[c] # "shutdown"
               PROVE  /\ \A h \in Children : reply'[c] = h => Untouched(h)'
                      /\ pc[c] \in {"verify", "verified", "write"} => Untouched(job[c].child)'
                      /\ pc[c] \in Waiting => config'[job[c].child] = job[c].want
                      /\ \A g \in Children : \A k, l \in DOMAIN queue'[g] :
                            queue'[g][k].from = c /\ queue'[g][l].target = g => l < k
  <2>1. Coordinates(c)' <=> Coordinates(c)
    BY DEF Coordinates
  <2>2. QED
    BY <2>1 DEF Heard, Untouched, Unended
<1>2. \A g \in Children : Untouched(g) => Untouched(g)'
    BY DEF Kept, Untouched
<1>3. job[c].child \in Children \union {NoChild}
    BY DEF TypeOK, Jobs
<1>4. pc[c] \in Waiting => job[c].child \in Children /\ childPc[job[c].child] # "unborn"
    BY <1>3 DEF Spawned
<1>5. pc[c] \in {"verify", "verified", "write"} => Untouched(job[c].child)'
    BY <1>1, <1>2, <1>4 DEF Heard, Waiting, Starting
<1>6. pc[c] \in Waiting => config'[job[c].child] = job[c].want
    BY <1>1, <1>4 DEF Heard
<1>7. ASSUME NEW g \in Children, NEW k \in DOMAIN queue'[g], NEW l \in DOMAIN queue'[g],
             queue'[g][k].from = c, queue'[g][l].target = g
      PROVE  l < k
  <2>1. /\ k + s[g] \in DOMAIN queue[g] /\ queue[g][k + s[g]].from = c
        /\ l + s[g] \in DOMAIN queue[g] /\ queue[g][l + s[g]].target = g
        /\ k \in Nat /\ l \in Nat /\ s[g] \in Nat
    BY <1>7 DEF Kept
  <2>2. l + s[g] < k + s[g]
    BY <1>1, <2>1 DEF Heard
  <2>3. QED
    BY <2>1, <2>2
<1>8. \A h \in Children : reply'[c] = h => Untouched(h)'
    BY <1>1, <1>2 DEF Heard
<1>9. QED
    BY <1>5, <1>6, <1>7, <1>8

\* A socket that goes away fails the clients in its queue and no others.
LEMMA HangUpRequests ==
    ASSUME TypeOK, RequestInv, NEW g \in Children, HangUp(g)
    PROVE  /\ \A c \in Clis : reply[c] = "none" => reply'[c] = "none"
           /\ \A c \in Clis, h \in Children : reply'[c] = h => reply[c] = h
           /\ \A c \in Clis, h \in Children : \A k \in DOMAIN queue'[h] :
                 queue'[h][k].from = c => reply'[c] = "waiting"
<1>1. "failed" \notin Children
    BY RepliesAssumption DEF Replies
<1>2. \A c \in Clis : \/ reply'[c] = reply[c] /\ \A k \in DOMAIN queue[g] : queue[g][k].from # c
                      \/ reply'[c] = "failed" /\ \E k \in DOMAIN queue[g] : queue[g][k].from = c
    BY DEF HangUp
<1>3. \A c \in Clis : reply[c] = "none" => reply'[c] = "none"
    BY <1>2 DEF RequestInv
<1>4. ASSUME NEW c \in Clis, NEW h \in Children, NEW k \in DOMAIN queue'[h],
             queue'[h][k].from = c
      PROVE  reply'[c] = "waiting"
  <2>1. h # g /\ queue'[h] = queue[h]
    <3>1. queue'[g] = <<>> /\ \A i \in Children \ {g} : queue'[i] = queue[i]
      BY DEF TypeOK, HangUp
    <3>2. DOMAIN queue'[g] = {}
      BY <3>1
    <3>3. QED
      BY <1>4, <3>1, <3>2
  <2>2. reply[c] = "waiting" /\ \A l \in DOMAIN queue[g] : queue[g][l].from # c
    BY <1>4, <2>1 DEF RequestInv
  <2>3. QED
    BY <1>2, <2>2
<1>5. QED
    BY <1>1, <1>2, <1>3, <1>4

\* A child that answers nobody keeps what the commands have heard.
LEMMA QuietChildHeard ==
    ASSUME IInv, HeardInv, NEW g \in Children, UNCHANGED <<config, pc, job>>,
           \A h \in Children : Unended(h) => Unended(h)',
           UNCHANGED <<queue, reply>> \/ HangUp(g)
    PROVE  HeardInv'
<1>1. TypeOK /\ RequestInv /\ \A c \in Clis : Spawned(c) /\ Heard(c)
    BY DEF IInv, CliInv, HeardInv
<1>2. /\ Kept(Still)
      /\ \A c \in Clis : reply'[c] # "none" => pc'[c] \in Requesting
      /\ \A c \in Clis, h \in Children : reply'[c] = h => reply[c] = h
      /\ \A c \in Clis, h \in Children : \A k \in DOMAIN queue'[h] :
            queue'[h][k].from = c => reply'[c] = "waiting"
  <2>1. CASE UNCHANGED <<queue, reply>>
    BY <1>1, <2>1, StillKept DEF RequestInv
  <2>2. CASE HangUp(g)
    BY <1>1, <2>2, HangUpKept, HangUpRequests DEF RequestInv
  <2>3. QED
    BY <2>1, <2>2
<1>3. RequestInv'
    BY <1>1, <1>2, RequestsKept
<1>4. ASSUME NEW c \in Clis
      PROVE  Heard(c)'
    BY <1>1, <1>2, HeardKept DEF Untouched
<1>5. QED
    BY <1>3, <1>4 DEF HeardInv

\* The first request of a queue is answered: no shutdown was before it.
LEMMA ServeHeard ==
    ASSUME IInv, HeardInv, NEW g \in Children, Serve(g)
    PROVE  HeardInv'
<1>. DEFINE s == [h \in Children |-> IF h = g THEN 1 ELSE 0]
            first == queue[g][1]
<1>0. TypeOK /\ RequestInv /\ \A c \in Clis : Spawned(c) /\ Heard(c)
    BY DEF IInv, CliInv, HeardInv
<1>1. /\ queue[g] \in Seq(Connections) /\ queue[g] # <<>> /\ childPc[g] = "serving"
      /\ queue'[g] = Tail(queue[g]) /\ \A h \in Children \ {g} : queue'[h] = queue[h]
      /\ UNCHANGED <<config, pc, job>>
    BY <1>0 DEF TypeOK, Serve
<1>2. /\ 1 \in DOMAIN queue[g] /\ Head(queue[g]) = first
      /\ \A k \in DOMAIN queue'[g] :
            k \in Nat \ {0} /\ k + 1 \in DOMAIN queue[g] /\ queue'[g][k] = queue[g][k + 1]
    BY <1>1
<1>3. Kept(s)
  <2>1. \A h \in Children : \A k \in DOMAIN queue[h] : k \in Nat /\ k + 0 = k
    BY <1>0, QueueDomain
  <2>2. \A h \in Children : \A k \in DOMAIN queue'[h] :
           k \in Nat /\ k + s[h] \in DOMAIN queue[h] /\ queue'[h][k] = queue[h][k + s[h]]
    BY <1>1, <1>2, <2>1
  <2>3. s \in [Children -> Nat]
    OBVIOUS
  <2>. HIDE DEF s
  <2>4. QED
    BY <2>2, <2>3 DEF Kept
<1>4. /\ \A c \in Clis : c # first.from => reply'[c] = reply[c]
      /\ \A h \in Children \ {g} : childPc'[h] = childPc[h] /\ ended'[h] = ended[h]
      /\ \/ first.target = NoChild /\ UNCHANGED <<childPc, ended>>
            /\ (first.from \in Clis => reply'[first.from] = g)
         \/ UNCHANGED <<childPc, ended>>
            /\ (first.from \in Clis => reply'[first.from] = "failed")
         \/ (first.target = g \/ ended'[g] = "other")
            /\ (first.from \in Clis => reply'[first.from] = "accepted")
  <2>1. /\ \A c \in Clis : c # first.from => reply'[c] = reply[c]
        /\ \A h \in Children \ {g} : childPc'[h] = childPc[h] /\ ended'[h] = ended[h]
    BY <1>0, <1>2 DEF TypeOK, Serve, EndLoop, Respond, ChildGoto
  <2>2. CASE first.target = NoChild
    BY <1>0, <1>2, <2>1, <2>2, SentinelAssumption DEF TypeOK, Serve, Respond
  <2>3. CASE first.target \in {g, AnyChild}
    BY <1>0, <1>2, <2>1, <2>3, SentinelAssumption DEF TypeOK, Serve, EndLoop, Respond
  <2>4. CASE first.target \notin {NoChild, g, AnyChild}
    BY <1>0, <1>2, <2>1, <2>4 DEF TypeOK, Serve, Respond
  <2>5. QED
    BY <2>2, <2>3, <2>4
<1>5. \A c \in Clis, h \in Children : \A k \in DOMAIN queue'[h] :
         queue'[h][k].from = c => c # first.from /\ reply[c] = "waiting"
  <2>1. SUFFICES ASSUME NEW c \in Clis, NEW h \in Children, NEW k \in DOMAIN queue'[h],
                        queue'[h][k].from = c
                 PROVE  c # first.from /\ reply[c] = "waiting"
    OBVIOUS
  <2>2. CASE h = g
    <3>1. k + 1 \in DOMAIN queue[g] /\ queue[g][k + 1].from = c /\ k + 1 # 1
      BY <1>2, <2>1, <2>2
    <3>2. QED
      BY <1>0, <1>2, <3>1 DEF RequestInv
  <2>3. CASE h # g
    BY <1>0, <1>1, <1>2, <2>1, <2>3 DEF RequestInv
  <2>4. QED
    BY <2>2, <2>3
<1>6. RequestInv'
  <2>1. \A c \in Clis : reply'[c] # "none" => pc'[c] \in Requesting
    BY <1>0, <1>1, <1>2, <1>4 DEF RequestInv
  <2>2. \A c \in Clis, h \in Children : \A k \in DOMAIN queue'[h] :
           queue'[h][k].from = c => reply'[c] = "waiting"
    BY <1>4, <1>5
  <2>. HIDE DEF s
  <2>3. QED
    BY <1>0, <1>3, <2>1, <2>2, RequestsKept
<1>7. ASSUME NEW c \in Clis
      PROVE  Heard(c)'
  <2>1. \A h \in Children : Untouched(h) => Unended(h)'
    <3>1. Untouched(g) => first.target # g
      BY <1>2 DEF Untouched
    <3>2. Untouched(g) => Unended(g)'
      BY <1>4, <3>1 DEF Untouched, Unended
    <3>3. \A h \in Children \ {g} : Untouched(h) => Unended(h)'
      BY <1>4 DEF Untouched, Unended
    <3>4. QED
      BY <3>2, <3>3
  <2>2. CASE Coordinates(c) /\ pc[c] # "shutdown"
    <3>1. ASSUME NEW h \in Children, reply'[c] = h, reply[c] # h
          PROVE  Untouched(h)'
      <4>1. /\ first.from = c /\ h = g /\ UNCHANGED <<childPc, ended>>
        <5>1. "failed" \notin Children /\ "accepted" \notin Children
          BY RepliesAssumption DEF Replies
        <5>2. first.from = c /\ first.from \in Clis
          BY <1>4, <3>1
        <5>3. reply'[first.from] \notin {"failed", "accepted"}
          BY <3>1, <5>1, <5>2
        <5>4. QED
          BY <1>4, <3>1, <5>2, <5>3
      <4>2. \A l \in DOMAIN queue[g] : queue[g][l].target = g => l < 1
        BY <1>0, <1>2, <2>2, <4>1 DEF Heard
      <4>3. \A k \in DOMAIN queue'[g] : queue'[g][k].target # g
        <5>1. \A k \in DOMAIN queue'[g] : ~ (k + 1 < 1)
          BY <1>2
        <5>2. QED
          BY <1>2, <4>2, <5>1
      <4>4. Unended(g)'
        BY <1>1, <4>1 DEF IInv, EndedInv, Unended
      <4>5. QED
        BY <4>1, <4>3, <4>4 DEF Untouched
    <3>. HIDE DEF s
    <3>2. QED
      BY <1>0, <1>1, <1>3, <2>1, <3>1, HeardKept
  <2>3. CASE ~ (Coordinates(c) /\ pc[c] # "shutdown")
    BY <1>1, <2>3 DEF Heard, Coordinates
  <2>4. QED
    BY <2>2, <2>3
<1>8. QED
    BY <1>6, <1>7 DEF HeardInv

\* A request joins its queue behind the shutdowns that are in it, and is itself one of
\* a stop only if nobody else coordinates.
LEMMA JoinHeard ==
    ASSUME IInv, HeardInv, NEW g \in Children, NEW request,
           queue' = [queue EXCEPT ![g] = Append(queue[g], request)],
           UNCHANGED <<childPc, config, ended, pc, job>>,
           \A c \in Clis : Coordinates(c) /\ pc[c] # "shutdown" => request.target # g,
           \A c \in Clis : c # request.from => reply'[c] = reply[c],
           request.from \in Clis =>
              /\ reply[request.from] = "none" /\ pc[request.from] \in Requesting
              /\ reply'[request.from] = "waiting"
    PROVE  HeardInv'
<1>. DEFINE n == Len(queue[g])
<1>0. /\ TypeOK /\ RequestInv /\ \A c \in Clis : Spawned(c) /\ Heard(c)
      /\ "none" \notin Children /\ "waiting" \notin Children
    BY RepliesAssumption DEF IInv, CliInv, HeardInv, Replies
<1>1. /\ \A c \in Clis : c # request.from => reply'[c] = reply[c]
      /\ \A c \in Clis : c = request.from =>
            /\ reply[c] = "none" /\ pc[c] \in Requesting /\ reply'[c] = "waiting"
            /\ \A h \in Children : \A k \in DOMAIN queue[h] : queue[h][k].from # c
    BY <1>0 DEF RequestInv
<1>2. /\ queue[g] \in Seq(Connections) /\ n \in Nat /\ DOMAIN queue[g] = 1 .. n
      /\ queue'[g] = Append(queue[g], request)
      /\ \A h \in Children \ {g} : queue'[h] = queue[h]
    BY <1>0, QueueDomain DEF TypeOK
<1>3. /\ DOMAIN queue'[g] = 1 .. n + 1 /\ queue'[g][n + 1] = request
      /\ \A k \in 1 .. n : queue'[g][k] = queue[g][k]
    BY <1>2
<1>. HIDE DEF n
<1>4. ASSUME NEW h \in Children, NEW k \in DOMAIN queue'[h]
      PROVE  \/ k \in DOMAIN queue[h] /\ queue'[h][k] = queue[h][k]
             \/ h = g /\ k = n + 1 /\ queue'[h][k] = request
  <2>1. CASE h = g
    <3>1. k \in 1 .. n + 1
      BY <1>3, <1>4, <2>1
    <3>2. k = n + 1 \/ k \in 1 .. n
      BY <1>2, <3>1
    <3>3. QED
      BY <1>2, <1>3, <2>1, <3>2
  <2>2. CASE h # g
    BY <1>2, <1>4, <2>2
  <2>3. QED
    BY <2>1, <2>2
<1>5. RequestInv'
  <2>1. ASSUME NEW c \in Clis, NEW h \in Children, NEW k \in DOMAIN queue'[h],
               queue'[h][k].from = c
        PROVE  /\ reply'[c] = "waiting"
               /\ \A i \in Children : \A l \in DOMAIN queue'[i] :
                     queue'[i][l].from = c => i = h /\ l = k
    <3>1. CASE c = request.from
      BY <1>1, <1>4, <2>1, <3>1
    <3>2. CASE c # request.from
      BY <1>0, <1>1, <1>4, <2>1, <3>2 DEF RequestInv
    <3>3. QED
      BY <3>1, <3>2
  <2>2. \A c \in Clis : reply'[c] # "none" => pc'[c] \in Requesting
    BY <1>0, <1>1 DEF RequestInv
  <2>3. QED
    BY <2>1, <2>2 DEF RequestInv
<1>6. ASSUME NEW c \in Clis
      PROVE  Heard(c)'
  <2>1. SUFFICES ASSUME Coordinates(c), pc[c] # "shutdown"
                 PROVE  /\ \A h \in Children : reply'[c] = h => Untouched(h)'
                        /\ pc[c] \in {"verify", "verified", "write"} =>
                              Untouched(job[c].child)'
                        /\ pc[c] \in Waiting => config[job[c].child] = job[c].want
                        /\ \A h \in Children : \A k, l \in DOMAIN queue'[h] :
                              queue'[h][k].from = c /\ queue'[h][l].target = h => l < k
    BY DEF Heard, Coordinates, Untouched, Unended
  <2>2. request.target # g
    BY <2>1
  <2>3. \A h \in Children : Untouched(h) => Untouched(h)'
    BY <1>4, <2>2 DEF Untouched, Unended
  <2>4. pc[c] \in Waiting => job[c].child \in Children
    BY <1>0 DEF TypeOK, Jobs, Spawned
  <2>5. ASSUME NEW h \in Children, NEW k \in DOMAIN queue'[h], NEW l \in DOMAIN queue'[h],
               queue'[h][k].from = c, queue'[h][l].target = h
        PROVE  l < k
    <3>1. l \in DOMAIN queue[h] /\ queue[h][l].target = h
      BY <1>4, <2>2, <2>5
    <3>2. CASE k \in DOMAIN queue[h] /\ queue'[h][k] = queue[h][k]
      BY <1>0, <2>1, <2>5, <3>1, <3>2 DEF Heard
    <3>3. CASE h = g /\ k = n + 1
      BY <1>2, <3>1, <3>3
    <3>4. QED
      BY <1>4, <3>2, <3>3
  <2>6. \A h \in Children : reply'[c] = h => Untouched(h)'
    BY <1>0, <1>1, <2>1, <2>3 DEF Heard
  <2>7. pc[c] \in {"verify", "verified", "write"} => Untouched(job[c].child)'
    <3>1. pc[c] \in {"verify", "verified", "write"} =>
             job[c].child \in Children /\ Untouched(job[c].child)
      BY <1>0, <2>1, <2>4 DEF Heard, Waiting, Starting
    <3>2. QED
      BY <2>3, <3>1
  <2>8. pc[c] \in Waiting => config[job[c].child] = job[c].want
    BY <1>0, <2>1 DEF Heard
  <2>9. QED
    BY <2>5, <2>6, <2>7, <2>8
<1>7. QED
    BY <1>5, <1>6 DEF HeardInv

\* Every step of a child keeps what the commands have heard.
LEMMA ChildHeard ==
    ASSUME IInv, HeardInv, NEW g \in Children, ChildMoves(g)
    PROVE  HeardInv'
<1>. USE DEF ChildGoto, lockVars, cliVars
<1>0. TypeOK /\ EndedInv
    BY DEF IInv
<1>1. CASE TakeIndex(g) \/ TakeInstance(g) \/ GiveUpEarly(g) \/ Abandon(g) \/ Bind(g)
              \/ BindFails(g) \/ ReleaseIndex(g) \/ ReleaseInstance(g)
  <2>1. UNCHANGED <<config, ended, pc, job, queue, reply>>
    BY <1>1 DEF TakeIndex, TakeInstance, GiveUpEarly, Abandon, Bind, BindFails, ReleaseIndex,
                ReleaseInstance
  <2>2. /\ childPc[g] \notin {"serving", "gone"}
        /\ \A h \in Children \ {g} : childPc'[h] = childPc[h]
    BY <1>0, <1>1 DEF TypeOK, TakeIndex, TakeInstance, GiveUpEarly, Abandon, Bind, BindFails,
                      ReleaseIndex, ReleaseInstance
  <2>3. \A h \in Children : Unended(h) => Unended(h)'
    BY <2>1, <2>2 DEF Unended
  <2>4. QED
    BY <2>1, <2>3, QuietChildHeard
<1>2. CASE Close(g) \/ ChildCrash(g)
  <2>1. HangUp(g) /\ UNCHANGED <<config, pc, job>>
    BY <1>2 DEF Close, ChildCrash, EndChild
  <2>2. /\ childPc[g] = "serving" => ended'[g] = "other"
        /\ ended[g] = "other" => ended'[g] = "other"
        /\ \A h \in Children \ {g} : childPc'[h] = childPc[h] /\ ended'[h] = ended[h]
    BY <1>0, <1>2 DEF TypeOK, Close, ChildCrash, EndChild
  <2>3. \A h \in Children : Unended(h) => Unended(h)'
    BY <2>1, <2>2 DEF Unended
  <2>4. QED
    BY <2>1, <2>3, QuietChildHeard
<1>3. CASE ServeFails(g)
  <2>1. UNCHANGED <<config, pc, job, queue, reply>>
    BY <1>3 DEF ServeFails
  <2>2. /\ ended'[g] = "other"
        /\ \A h \in Children \ {g} : childPc'[h] = childPc[h] /\ ended'[h] = ended[h]
    BY <1>0, <1>3 DEF TypeOK, ServeFails, EndLoop
  <2>3. \A h \in Children : Unended(h) => Unended(h)'
    BY <2>2 DEF Unended
  <2>4. QED
    BY <2>1, <2>3, QuietChildHeard
<1>4. CASE Serve(g)
    BY <1>4, ServeHeard
<1>5. CASE AskShutdown(g)
  <2>. DEFINE request == [from |-> Nobody, target |-> AnyChild]
  <2>1. /\ queue' = [queue EXCEPT ![g] = Append(queue[g], request)]
        /\ UNCHANGED <<childPc, config, ended, pc, job, reply>>
    BY <1>5 DEF AskShutdown
  <2>2. request.from \notin Clis /\ request.target # g
    BY SentinelAssumption
  <2>. HIDE DEF request
  <2>3. QED
    BY <2>1, <2>2, JoinHeard
<1>6. QED
    BY <1>1, <1>2, <1>3, <1>4, <1>5 DEF ChildMoves, ChildStep

\* Of the steps of a command, only connecting sends a request; every other one ends what
\* the command has sent before, and at most the one that ends a child hangs up on others.
CliQuiet(c) ==
    /\ \/ /\ reply[c] # "waiting" /\ UNCHANGED queue
          /\ \E v \in {"none", "failed"} : reply' = [reply EXCEPT ![c] = v]
       \/ /\ Disconnect(c)
          /\ \E v \in {"none", "failed"} : reply' = [reply EXCEPT ![c] = v]
       \/ reply[c] = "none" /\ \E g \in Children : HangUp(g)
    /\ reply'[c] # "none" => pc'[c] \in Requesting
    /\ \A g \in Children : Unended(g) => Unended(g)'
    /\ \A g \in Children : childPc[g] # "unborn" => config'[g] = config[g]

LEMMA CliReplies ==
    ASSUME IInv, RequestInv, NEW c \in Clis, CliMoves(c), ~ Connect(c)
    PROVE  CliQuiet(c)
<1>. USE DEF Goto, Respond, childVars, lockVars, cliVars
<1>0. /\ TypeOK /\ CliInv(c) /\ reply \in [Clis -> Replies \union Children]
      /\ pc[c] \notin Requesting => reply[c] = "none"
      /\ reply = [reply EXCEPT ![c] = reply[c]]
    BY DEF IInv, TypeOK, RequestInv
<1>1. ASSUME UNCHANGED <<queue, childPc, config, ended>>, reply[c] # "waiting",
             NEW v \in {"none", "failed"}, reply' = [reply EXCEPT ![c] = v],
             v = "failed" => pc'[c] \in Requesting
      PROVE  CliQuiet(c)
    BY <1>0, <1>1 DEF CliQuiet, Unended
<1>2. ASSUME UNCHANGED <<queue, childPc, config, ended, reply>>, pc[c] \notin Requesting
      PROVE  CliQuiet(c)
    BY <1>0, <1>1, <1>2 DEF Requesting
<1>3. ASSUME UNCHANGED <<queue, childPc, config, ended>>, reply[c] # "waiting",
             reply' = [reply EXCEPT ![c] = "none"]
      PROVE  CliQuiet(c)
    BY <1>1, <1>3
<1>4. CASE Begin(c) \/ Return(c)
    BY <1>2, <1>4 DEF Begin, Return, Requesting, Outcomes
<1>5. CASE CliCrash(c)
  <2>1. reply' = [reply EXCEPT ![c] = "none"] /\ Disconnect(c) /\ UNCHANGED <<childPc, config, ended>>
    BY <1>5 DEF CliCrash
  <2>2. reply'[c] = "none"
    BY <1>0, <2>1
  <2>3. QED
    BY <2>1, <2>2 DEF CliQuiet, Unended
<1>6. CASE Observe(c)
  <2>1. CASE ReadState(c) \/ TakeStartup(c) \/ StartupBusy(c) \/ RereadState(c) \/ Fail(c)
    BY <1>2, <2>1 DEF ReadState, TakeStartup, StartupBusy, RereadState, Fail, Requesting
  <2>2. CASE ProbeStartup(c) \/ EndProbeStartup(c) \/ ProbeInstance(c) \/ EndProbeInstance(c)
                \/ ProbeError(c) \/ InspectNothing(c) \/ InspectRecorded(c)
    BY <1>2, <2>2 DEF ProbeStartup, EndProbeStartup, ProbeInstance, EndProbeInstance,
       ProbeError, InspectNothing, InspectRecorded, Requesting
  <2>3. CASE RequestFails(c)
    <3>1. /\ UNCHANGED <<queue, childPc, config, ended>> /\ reply[c] # "waiting"
          /\ reply' = [reply EXCEPT ![c] = "failed"] /\ pc'[c] \in Requesting
      BY <2>3 DEF RequestFails, Requesting
    <3>2. QED
      BY <1>1, <3>1
  <2>4. CASE Timeout(c)
    <3>1. /\ UNCHANGED <<childPc, config, ended>> /\ Disconnect(c)
          /\ reply' = [reply EXCEPT ![c] = "failed"] /\ pc'[c] = pc[c] /\ reply[c] = "waiting"
      BY <2>4 DEF Timeout
    <3>2. pc'[c] \in Requesting
      BY <1>0, <3>1
    <3>3. QED
      BY <3>1, <3>2 DEF CliQuiet, Unended
  <2>5. CASE IdentifyForStatus(c)
    BY <1>3, <2>5 DEF IdentifyForStatus, Answered
  <2>6. QED
    BY <1>6, <2>1, <2>2, <2>3, <2>4, <2>5 DEF Observe, Exchange
<1>7. CASE Stop(c)
  <2>1. CASE IdentifyForStop(c) \/ Acknowledged(c) \/ Confirmed(c)
    BY <1>3, <2>1 DEF IdentifyForStop, Acknowledged, Confirmed, Answered
  <2>2. CASE TakeSeenIndex(c) \/ DropSeenIndex(c) \/ WatchAgain(c) \/ WatchEnds(c) \/ Remove(c)
    BY <1>2, <2>2 DEF TakeSeenIndex, DropSeenIndex, WatchAgain, WatchEnds, Remove, Requesting
  <2>3. QED
    BY <1>7, <2>1, <2>2 DEF Stop
<1>8. CASE Start(c)
  <2>1. CASE IdentifyForStart(c)
    BY <1>3, <2>1 DEF IdentifyForStart, Answered
  <2>2. CASE ClaimIndex(c) \/ ClaimBusy(c) \/ Validate(c) \/ SpawnFails(c) \/ TryWait(c)
                \/ Verified(c) \/ Publish(c)
    BY <1>2, <2>2 DEF ClaimIndex, ClaimBusy, Validate, SpawnFails, TryWait, Verified, Publish,
       Requesting
  <2>3. CASE Spawn(c)
    <3>1. PICK g \in Children : /\ childPc[g] = "unborn"
                                /\ childPc' = [childPc EXCEPT ![g] = "spawned"]
                                /\ config' = [config EXCEPT ![g] = job[c].want]
      BY <2>3 DEF Spawn, ChildGoto
    <3>2. UNCHANGED <<queue, ended, reply>> /\ reply[c] = "none"
      BY <1>0, <2>3 DEF Spawn, Requesting
    <3>3. \A h \in Children : /\ childPc[h] \in {"serving", "gone"} => childPc'[h] = childPc[h]
                              /\ childPc[h] # "unborn" => config'[h] = config[h]
      BY <1>0, <3>1 DEF TypeOK
    <3>4. QED
      BY <1>0, <3>2, <3>3 DEF CliQuiet, Unended
  <2>4. CASE Ready(c) \/ WaitAgain(c) \/ StartFails(c)
    <3>1. reply[c] # "waiting"
      <4>1. job[c].child # "waiting"
        BY <1>0, RepliesAssumption DEF TypeOK, Jobs, Replies
      <4>2. CASE pc[c] \in {"wait", "write", "verified"}
        BY <1>0, <4>2 DEF Requesting
      <4>3. QED
        BY <2>4, <4>1, <4>2 DEF Ready, WaitAgain, StartFails, NotReady, Answered
    <3>2. UNCHANGED <<queue, childPc, config, ended>> /\ reply' = [reply EXCEPT ![c] = "none"]
      BY <2>4 DEF Ready, WaitAgain, StartFails
    <3>3. QED
      BY <1>3, <3>1, <3>2
  <2>5. CASE Reap(c)
    <3>1. reply[c] = "none" /\ job[c].child \in Children
      BY <1>0, <2>5 DEF TypeOK, Jobs, CliInv, Reap, Spawned, Waiting, Starting, Requesting
    <3>2. CASE Alive(job[c].child)
      <4>. DEFINE child == job[c].child
      <4>1. /\ HangUp(child) /\ UNCHANGED config
            /\ childPc' = [childPc EXCEPT ![child] = "gone"]
            /\ ended' = [ended EXCEPT ![child] =
                             IF childPc[child] = "serving" THEN "other" ELSE ended[child]]
        BY <2>5, <3>2 DEF Reap, EndChild, ChildGoto
      <4>2. reply'[c] = "none"
        BY <1>0, <3>1, <4>1, HangUpRequests
      <4>3. \A g \in Children : Unended(g) => Unended(g)'
        BY <1>0, <3>1, <4>1 DEF TypeOK, Unended
      <4>4. QED
        BY <3>1, <4>1, <4>2, <4>3 DEF CliQuiet
    <3>3. CASE ~ Alive(job[c].child)
      BY <1>2, <2>5, <3>3 DEF Reap, Requesting
    <3>4. QED
      BY <3>2, <3>3
  <2>6. QED
    BY <1>8, <2>1, <2>2, <2>3, <2>4, <2>5 DEF Start
<1>9. QED
    BY <1>4, <1>5, <1>6, <1>7, <1>8 DEF CliMoves, CliStep

\* How a start comes to know its child: it has spawned it with what it was asked for,
\* and before it looks for the lock the child has answered.
Knows(c) ==
    /\ pc'[c] \in {"verify", "verified", "write"} =>
          /\ job'[c].child = job[c].child
          /\ pc[c] \in {"verify", "verified"} \/ (pc[c] = "poll" /\ reply[c] = job[c].child)
    /\ pc'[c] \in Waiting =>
          \/ /\ pc[c] \in Waiting
             /\ job'[c].child = job[c].child /\ job'[c].want = job[c].want
          \/ job'[c].child \in Children /\ config'[job'[c].child] = job'[c].want

LEMMA CliKnows ==
    ASSUME TypeOK, RequestInv, NEW c \in Clis, CliMoves(c)
    PROVE  Knows(c)
<1>. USE DEF Goto
<1>0. pc \in [Clis -> CliLabels] /\ job \in [Clis -> Jobs] /\ childPc \in [Children -> ChildLabels]
    BY DEF TypeOK
<1>1. ASSUME pc'[c] \notin Waiting
      PROVE  Knows(c)
    BY <1>1 DEF Knows, Waiting, Starting
<1>2. ASSUME NEW outcome \in Outcomes, Answer(c, outcome)
      PROVE  Knows(c)
    BY <1>0, <1>1, <1>2 DEF Answer, Outcomes, Waiting, Starting
<1>3. ASSUME UNCHANGED <<job>>, pc'[c] \in {"poll", "wait", "reap"}, pc[c] \in Waiting
      PROVE  Knows(c)
    BY <1>3 DEF Knows
<1>4. CASE Begin(c) \/ Return(c) \/ CliCrash(c)
    BY <1>0, <1>1, <1>4 DEF Begin, Return, CliCrash, Waiting, Starting
<1>5. CASE Observe(c)
  <2>1. CASE ReadState(c) \/ TakeStartup(c) \/ RereadState(c) \/ ProbeStartup(c)
                \/ EndProbeStartup(c) \/ InspectRecorded(c)
    <3>1. pc'[c] \notin Waiting
      BY <1>0, <2>1 DEF ReadState, TakeStartup, RereadState, ProbeStartup,
                        EndProbeStartup, InspectRecorded, Waiting, Starting
    <3>2. QED
      BY <1>1, <3>1
  <2>2. CASE StartupBusy(c) \/ Fail(c) \/ IdentifyForStatus(c)
    <3>1. \E outcome \in Outcomes : Answer(c, outcome)
      BY <2>2 DEF StartupBusy, Fail, IdentifyForStatus, Outcomes
    <3>2. QED
      BY <1>2, <3>1
  <2>3. CASE ProbeInstance(c) \/ EndProbeInstance(c) \/ ProbeError(c)
    <3>1. /\ pc[c] \in {"probe", "verify", "watch"} /\ pc'[c] \in {pc[c], AfterProbe(pc[c])}
          /\ job'[c].child = job[c].child /\ job'[c].want = job[c].want
      BY <1>0, <2>3 DEF ProbeInstance, EndProbeInstance, ProbeError, AfterProbe, Jobs
    <3>2. QED
      BY <3>1 DEF AfterProbe, Knows, Waiting, Starting
  <2>4. CASE InspectNothing(c)
    <3>1. pc'[c] = "claim" \/ \E outcome \in Outcomes : Answer(c, outcome)
      BY <1>0, <2>4 DEF InspectNothing, Outcomes
    <3>2. QED
      BY <1>1, <1>2, <3>1 DEF Waiting, Starting
  <2>5. CASE Exchange(c)
    <3>1. UNCHANGED <<pc, job>> /\ pc[c] \in Requesting
      BY <2>5 DEF Exchange, Connect, RequestFails, Timeout, Requesting, RequestInv
    <3>2. QED
      BY <3>1 DEF Knows, Requesting
  <2>6. QED
    BY <1>5, <2>1, <2>2, <2>3, <2>4, <2>5 DEF Observe
<1>6. CASE Stop(c)
  <2>1. CASE IdentifyForStop(c) \/ Acknowledged(c) \/ WatchEnds(c) \/ Confirmed(c) \/ Remove(c)
    <3>1. pc'[c] \in Stopping \/ \E outcome \in Outcomes : Answer(c, outcome)
      BY <1>0, <2>1 DEF IdentifyForStop, Acknowledged, WatchEnds, Confirmed, Remove,
                        Stopping, Outcomes
    <3>2. QED
      BY <1>1, <1>2, <3>1 DEF Stopping, Waiting, Starting
  <2>2. CASE TakeSeenIndex(c) \/ DropSeenIndex(c) \/ WatchAgain(c)
    <3>1. pc'[c] \notin Waiting
      BY <1>0, <2>2 DEF TakeSeenIndex, DropSeenIndex, WatchAgain, NextRound, Waiting, Starting,
                        cliVars
    <3>2. QED
      BY <1>1, <3>1
  <2>3. QED
    BY <1>6, <2>1, <2>2 DEF Stop
<1>7. CASE Start(c)
  <2>1. CASE IdentifyForStart(c) \/ ClaimIndex(c) \/ ClaimBusy(c) \/ Validate(c) \/ SpawnFails(c)
                \/ Publish(c) \/ Reap(c)
    <3>1. pc'[c] \notin Waiting \/ \E outcome \in Outcomes : Answer(c, outcome)
      BY <1>0, <2>1 DEF IdentifyForStart, ClaimIndex, ClaimBusy, Validate, SpawnFails, Publish,
                        Reap, Outcomes, Waiting, Starting, cliVars
    <3>2. QED
      BY <1>1, <1>2, <3>1
  <2>2. CASE Spawn(c)
    <3>1. PICK g \in Children : /\ config' = [config EXCEPT ![g] = job[c].want]
                                /\ job' = [job EXCEPT ![c].child = g]
                                /\ pc' = [pc EXCEPT ![c] = "wait"]
      BY <2>2 DEF Spawn
    <3>2. job'[c].child = g /\ job'[c].want = job[c].want /\ pc'[c] = "wait"
      BY <1>0, <3>1 DEF Jobs
    <3>3. config'[g] = job[c].want
      BY <3>1 DEF TypeOK
    <3>4. QED
      BY <3>2, <3>3 DEF Knows
  <2>3. CASE TryWait(c)
    <3>1. \/ \E outcome \in Outcomes : Answer(c, outcome)
          \/ UNCHANGED <<job>> /\ pc'[c] = "poll" /\ pc[c] = "wait"
      BY <1>0, <2>3 DEF TryWait, Outcomes
    <3>2. QED
      BY <1>2, <1>3, <3>1 DEF Waiting, Starting
  <2>4. CASE Ready(c)
    BY <1>0, <2>4 DEF Ready, Knows, Waiting, Starting
  <2>5. CASE WaitAgain(c)
    <3>1. pc[c] \in {"poll", "verified"} /\ NextRound(c, "wait")
      BY <2>5 DEF WaitAgain, NotReady
    <3>2. /\ pc'[c] = "wait" /\ pc[c] \in Waiting
          /\ job'[c].child = job[c].child /\ job'[c].want = job[c].want
      BY <1>0, <3>1, NextRoundKeeps DEF Waiting, Starting
    <3>3. QED
      BY <3>2 DEF Knows
  <2>6. CASE Verified(c)
    BY <1>0, <2>6 DEF Verified, Knows, Waiting, Starting
  <2>7. CASE StartFails(c)
    <3>1. pc[c] \in Waiting /\ pc'[c] = "reap" /\ UNCHANGED <<job>>
      BY <1>0, <2>7 DEF StartFails, NotReady, Waiting, Starting
    <3>2. QED
      BY <1>3, <3>1
  <2>8. QED
    BY <1>7, <2>1, <2>2, <2>3, <2>4, <2>5, <2>6, <2>7 DEF Start
<1>8. QED
    BY <1>4, <1>5, <1>6, <1>7 DEF CliMoves, CliStep

\* Every step of a command but connecting keeps what the commands have heard.
LEMMA CliHeard ==
    ASSUME IInv, HeardInv, NEW c \in Clis, CliMoves(c), ~ Connect(c)
    PROVE  HeardInv'
<1>0. /\ TypeOK /\ RequestInv /\ \A d \in Clis : Spawned(d) /\ Heard(d)
      /\ "none" \notin Children /\ "failed" \notin Children
    BY RepliesAssumption DEF IInv, CliInv, HeardInv, Replies
<1>1. CliQuiet(c) /\ Knows(c) /\ OthersKept(c)
    BY <1>0, CliReplies, CliKnows, CliFrame DEF IInv, CliInv
<1>2. /\ Kept(Still)
      /\ \A g \in Children : \A k \in DOMAIN queue'[g] : queue'[g][k].from # c
      /\ \A d \in Clis \ {c} : reply[d] = "none" => reply'[d] = "none"
      /\ \A d \in Clis, h \in Children : reply'[d] = h => reply[d] = h /\ d # c
      /\ \A d \in Clis, h \in Children : \A k \in DOMAIN queue'[h] :
            queue'[h][k].from = d => reply'[d] = "waiting"
  <2>1. ASSUME Kept(Still), reply[c] # "waiting"
        PROVE  \A g \in Children : \A k \in DOMAIN queue'[g] : queue'[g][k].from # c
    <3>1. \A g \in Children : \A k \in DOMAIN queue'[g] : k + Still[g] = k
      BY <2>1 DEF Kept, Still
    <3>2. QED
      BY <1>0, <2>1, <3>1 DEF Kept, RequestInv
  <2>2. ASSUME \E v \in {"none", "failed"} : reply' = [reply EXCEPT ![c] = v]
        PROVE  reply'[c] \notin Children /\ \A d \in Clis \ {c} : reply'[d] = reply[d]
    BY <1>0, <2>2 DEF TypeOK
  <2>3. ASSUME Kept(Still), NEW d \in Clis, NEW h \in Children, NEW k \in DOMAIN queue'[h],
               queue'[h][k].from = d
        PROVE  reply[d] = "waiting"
    BY <1>0, <2>3 DEF Kept, RequestInv
  <2>4. CASE reply[c] # "waiting" /\ UNCHANGED queue
             /\ \E v \in {"none", "failed"} : reply' = [reply EXCEPT ![c] = v]
    <3>1. Kept(Still)
      BY <1>0, <2>4, StillKept
    <3>2. \A g \in Children : \A k \in DOMAIN queue'[g] : queue'[g][k].from # c
      BY <2>1, <2>4, <3>1
    <3>3. reply'[c] \notin Children /\ \A d \in Clis \ {c} : reply'[d] = reply[d]
      BY <2>2, <2>4
    <3>4. QED
      BY <2>3, <3>1, <3>2, <3>3
  <2>5. CASE Disconnect(c) /\ \E v \in {"none", "failed"} : reply' = [reply EXCEPT ![c] = v]
    <3>1. Kept(Still) /\ \A g \in Children : \A k \in DOMAIN queue'[g] : queue'[g][k].from # c
      BY <1>0, <2>5, DisconnectKept
    <3>2. reply'[c] \notin Children /\ \A d \in Clis \ {c} : reply'[d] = reply[d]
      BY <2>2, <2>5
    <3>3. QED
      BY <2>3, <3>1, <3>2
  <2>6. CASE reply[c] = "none" /\ \E g \in Children : HangUp(g)
    <3>1. PICK g \in Children : HangUp(g)
      BY <2>6
    <3>2. Kept(Still)
      BY <1>0, <3>1, HangUpKept
    <3>3. /\ \A d \in Clis : reply[d] = "none" => reply'[d] = "none"
          /\ \A d \in Clis, h \in Children : reply'[d] = h => reply[d] = h
          /\ \A d \in Clis, h \in Children : \A k \in DOMAIN queue'[h] :
                queue'[h][k].from = d => reply'[d] = "waiting"
      BY <1>0, <3>1, HangUpRequests
    <3>4. \A g2 \in Children : \A k \in DOMAIN queue'[g2] : queue'[g2][k].from # c
      BY <2>1, <2>6, <3>2
    <3>5. QED
      BY <1>0, <2>6, <3>2, <3>3, <3>4
  <2>7. QED
    BY <1>1, <2>4, <2>5, <2>6 DEF CliQuiet
<1>3. RequestInv'
  <2>1. \A d \in Clis : reply'[d] # "none" => pc'[d] \in Requesting
    BY <1>0, <1>1, <1>2 DEF CliQuiet, OthersKept, RequestInv
  <2>2. QED
    BY <1>0, <1>2, <2>1, RequestsKept
<1>4. ASSUME NEW d \in Clis \ {c}
      PROVE  Heard(d)'
  <2>1. pc'[d] = pc[d] /\ job'[d] = job[d]
    BY <1>1 DEF OthersKept
  <2>2. \A g \in Children : Untouched(g) => Unended(g)'
    BY <1>1 DEF CliQuiet, Untouched
  <2>3. \A g \in Children : childPc[g] # "unborn" => config'[g] = config[g]
    BY <1>1 DEF CliQuiet
  <2>4. QED
    BY <1>0, <1>2, <2>1, <2>2, <2>3, HeardKept
<1>5. Heard(c)'
  <2>1. \A g \in Children : Untouched(g) => Untouched(g)'
    BY <1>1, <1>2 DEF CliQuiet, Kept, Untouched
  <2>2. pc[c] \in Waiting =>
           /\ job[c].child \in Children /\ childPc[job[c].child] # "unborn"
           /\ Coordinates(c) /\ pc[c] # "shutdown"
    BY <1>0 DEF TypeOK, Jobs, Spawned, Coordinates, Waiting, Starting
  <2>3. ASSUME pc'[c] \in {"verify", "verified", "write"}, NEW h \in Children,
               job'[c].child = h
        PROVE  Untouched(h)'
    <3>1. pc[c] \in Waiting /\ job[c].child = h
      BY <1>1, <2>3 DEF Knows, Waiting, Starting
    <3>2. Untouched(h)
      BY <1>0, <1>1, <2>2, <2>3, <3>1 DEF Knows, Heard
    <3>3. QED
      BY <2>1, <3>2
  <2>4. pc'[c] \in Waiting => config'[job'[c].child] = job'[c].want
    BY <1>0, <1>1, <2>2 DEF Knows, Heard, CliQuiet
  <2>5. pc'[c] \in {"verify", "verified", "write"} => job'[c].child \in Children
    BY <1>1, <2>2 DEF Knows, Waiting, Starting
  <2>6. /\ \A h \in Children : reply'[c] # h
        /\ \A h \in Children : \A k \in DOMAIN queue'[h] : queue'[h][k].from # c
    BY <1>2
  <2>7. QED
    BY <2>3, <2>4, <2>5, <2>6 DEF Heard, Untouched, Unended
<1>6. QED
    BY <1>3, <1>4, <1>5 DEF HeardInv

\* A command asks for a shutdown only while nobody else coordinates.
LEMMA ConnectHeard ==
    ASSUME IInv, HeardInv, NEW c \in Clis, Connect(c)
    PROVE  HeardInv'
<1>. DEFINE g == listener[Target(c)]
            request == [from |-> c,
                        target |-> IF pc[c] = "shutdown" THEN job[c].seen ELSE NoChild]
<1>0. /\ TypeOK /\ RequestInv /\ \A d \in Clis : Spawned(d) /\ Locked(d) /\ Heard(d)
      /\ {"none", "unavailable", "waiting"} \intersect Children = {}
    BY RepliesAssumption DEF IInv, CliInv, HeardInv, Replies
<1>1. /\ UNCHANGED <<childPc, config, ended, pc, job>>
      /\ reply[c] = "none" /\ pc[c] \in Requesting
      /\ \E v \in {"unavailable", "waiting"} : reply' = [reply EXCEPT ![c] = v]
    BY DEF Connect, Respond, Requesting
<1>2. /\ reply'[c] \in {"unavailable", "waiting"}
      /\ \A d \in Clis \ {c} : reply'[d] = reply[d]
      /\ \A h \in Children : \A k \in DOMAIN queue[h] : queue[h][k].from # c
    BY <1>0, <1>1 DEF TypeOK, RequestInv
<1>3. \A d \in Clis : reply'[d] # "none" => pc'[d] \in Requesting
    BY <1>0, <1>1, <1>2 DEF RequestInv
<1>4. CASE UNCHANGED queue
  <2>1. Kept(Still)
    BY <1>0, <1>4, StillKept
  <2>2. \A d \in Clis, h \in Children : \A k \in DOMAIN queue'[h] :
           queue'[h][k].from = d => reply'[d] = "waiting"
    BY <1>0, <1>2, <1>4 DEF RequestInv
  <2>3. RequestInv'
    BY <1>0, <1>3, <2>1, <2>2, RequestsKept
  <2>4. ASSUME NEW d \in Clis
        PROVE  Heard(d)'
    <3>1. \A h \in Children : reply'[d] = h => reply[d] = h
      BY <1>0, <1>2
    <3>2. QED
      BY <1>0, <1>1, <2>1, <3>1, HeardKept DEF Untouched, Unended
  <2>5. QED
    BY <2>3, <2>4 DEF HeardInv
<1>5. CASE g \in Children /\ ~ UNCHANGED queue
  <2>1. /\ queue' = [queue EXCEPT ![g] = Append(queue[g], request)]
        /\ reply'[c] = "waiting"
    BY <1>0, <1>5 DEF Connect, Respond, TypeOK
  <2>2. \A d \in Clis : Coordinates(d) /\ pc[d] # "shutdown" => request.target # g
    <3>1. ASSUME NEW d \in Clis, Coordinates(d), pc[d] # "shutdown"
          PROVE  request.target = NoChild
      BY <1>0, <3>1 DEF Locked, Coordinates, Stopping
    <3>2. QED
      BY <1>5, <3>1, SentinelAssumption
  <2>3. request.from = c
    OBVIOUS
  <2>. HIDE DEF g, request
  <2>4. /\ \A d \in Clis : d # request.from => reply'[d] = reply[d]
        /\ request.from \in Clis =>
              /\ reply[request.from] = "none" /\ pc[request.from] \in Requesting
              /\ reply'[request.from] = "waiting"
    BY <1>1, <1>2, <2>1, <2>3
  <2>5. g \in Children /\ queue' = [queue EXCEPT ![g] = Append(queue[g], request)]
    BY <1>5, <2>1
  <2>6. QED
    BY <1>1, <2>2, <2>4, <2>5, JoinHeard
<1>6. CASE g \notin Children
  <2>1. UNCHANGED queue \/ queue' = [queue EXCEPT ![g] = Append(queue[g], request)]
    BY DEF Connect
  <2>. HIDE DEF g, request
  <2>2. UNCHANGED queue
    BY <1>0, <1>6, <2>1 DEF TypeOK
  <2>3. QED
    BY <1>4, <2>2
<1>7. QED
    BY <1>4, <1>5, <1>6

\* Other writers of an index, and nothing at all, leave it as it is.
LEMMA IdleHeard ==
    HeardInv /\ UNCHANGED <<config, childPc, ended, queue, pc, job, reply>> => HeardInv'
BY DEF HeardInv, RequestInv, Heard, Coordinates, Untouched, Unended

LEMMA HeardInit == Init => HeardInv
<1>1. SUFFICES ASSUME Init PROVE HeardInv
    OBVIOUS
<1>2. \A g \in Children : DOMAIN queue[g] = {}
    BY <1>1 DEF Init
<1>3. QED
    BY <1>1, <1>2 DEF Init, HeardInv, RequestInv, Heard, Coordinates, Stopping, Starting

LEMMA HeardStep == IInv /\ HeardInv /\ [Next]_vars => HeardInv'
<1>1. SUFFICES ASSUME IInv, HeardInv, [Next]_vars PROVE HeardInv'
    OBVIOUS
<1>2. ASSUME NEW c \in Clis, CliMoves(c)
      PROVE  HeardInv'
    BY <1>1, <1>2, CliHeard, ConnectHeard
<1>3. ASSUME NEW g \in Children, ChildMoves(g)
      PROVE  HeardInv'
    BY <1>1, <1>3, ChildHeard
<1>4. CASE \E i \in Indexes : ExternalTakes(i) \/ ExternalDrops(i)
    BY <1>1, <1>4, IdleHeard DEF ExternalTakes, ExternalDrops, childVars, cliVars
<1>5. CASE UNCHANGED vars
    BY <1>1, <1>5, IdleHeard DEF vars, childVars, cliVars
<1>6. QED
    BY <1>1, <1>2, <1>3, <1>4, <1>5 DEF Next, CliMoves, ChildMoves

\* What the commands have heard, in every run.
THEOREM HeardInvariance == Spec => []HeardInv
BY HeardInit, HeardStep, Invariance, PTL DEF Spec

-----------------------------------------------------------------------------
(***************************************************************************)
(* The answers of a start.                                                 *)
(***************************************************************************)
\* Only the recorded service that answers with the right configuration, and the
\* record of the child, are answers of a start.
LEMMA StartOutcomes ==
    ASSUME TypeOK, RequestInv, NEW c \in Clis, CliMoves(c),
           StartAnswered(c)', ~ StartAnswered(c)
    PROVE  \/ Publish(c)
           \/ /\ pc[c] = "ping" /\ job[c].cmd = "start" /\ Matches(c)
              /\ config[job[c].seen] = job[c].want
              /\ UNCHANGED state
<1>0. /\ pc \in [Clis -> CliLabels] /\ job \in [Clis -> Jobs]
      /\ job'[c].cmd = "start" /\ pc'[c] \in {"running", "started"}
      /\ ~ UNCHANGED <<pc, job>>
      /\ \A outcome : Answer(c, outcome) => pc'[c] = outcome /\ job'[c].cmd = job[c].cmd
  <2>1. pc \in [Clis -> CliLabels] /\ job \in [Clis -> Jobs]
    BY DEF TypeOK
  <2>2. /\ job'[c].cmd = "start" /\ pc'[c] \in {"running", "started"}
        /\ ~ UNCHANGED <<pc, job>>
    BY DEF StartAnswered
  <2>3. ASSUME NEW outcome, Answer(c, outcome)
        PROVE  pc'[c] = outcome /\ job'[c].cmd = job[c].cmd
    <3>1. job' = [job EXCEPT ![c] =
                     [job[c] EXCEPT !.starting = FALSE, !.active = FALSE, !.rounds = 0,
                        !.seen = IF outcome \in {"stopped", "stale"} THEN job[c].seen ELSE NoChild]]
      BY <2>3 DEF Answer
    <3>2. job[c] \in Jobs
      BY <2>1
    <3>3. job'[c].cmd = job[c].cmd
      BY <2>1, <3>1, <3>2 DEF Jobs
    <3>4. pc'[c] = outcome
      BY <2>1, <2>3 DEF Answer, Goto
    <3>5. QED
      BY <3>3, <3>4
  <2>4. QED
    BY <2>1, <2>2, <2>3
<1>. USE DEF Goto
<1>1. ~ (Begin(c) \/ Return(c) \/ CliCrash(c))
    BY <1>0 DEF Begin, Return, CliCrash
<1>2. ~ (ReadState(c) \/ TakeStartup(c) \/ StartupBusy(c) \/ RereadState(c) \/ Fail(c))
    BY <1>0 DEF ReadState, TakeStartup, StartupBusy, RereadState, Fail
<1>3. ~ (ProbeStartup(c) \/ EndProbeStartup(c) \/ ProbeInstance(c) \/ EndProbeInstance(c)
            \/ ProbeError(c))
    BY <1>0 DEF ProbeStartup, EndProbeStartup, ProbeInstance, EndProbeInstance, ProbeError,
                AfterProbe
<1>4. ~ (InspectNothing(c) \/ InspectRecorded(c) \/ IdentifyForStatus(c) \/ Exchange(c))
    BY <1>0 DEF InspectNothing, InspectRecorded, IdentifyForStatus, Exchange, Connect,
                RequestFails, Timeout
<1>5. ~ Observe(c)
    BY <1>2, <1>3, <1>4 DEF Observe
<1>6. ~ Stop(c)
    BY <1>0 DEF Stop, IdentifyForStop, Acknowledged, TakeSeenIndex, DropSeenIndex, WatchAgain,
                NextRound, WatchEnds, Confirmed, Remove, cliVars
<1>7. ~ (ClaimIndex(c) \/ ClaimBusy(c) \/ Validate(c) \/ Spawn(c) \/ SpawnFails(c) \/ TryWait(c)
            \/ Ready(c) \/ WaitAgain(c) \/ Verified(c) \/ StartFails(c) \/ Reap(c))
    BY <1>0 DEF ClaimIndex, ClaimBusy, Validate, Spawn, SpawnFails, TryWait, Ready, WaitAgain,
                NextRound, Verified, StartFails, Reap, cliVars
<1>8. IdentifyForStart(c) \/ Publish(c)
    BY <1>1, <1>5, <1>6, <1>7 DEF CliMoves, CliStep, Start
<1>9. CASE IdentifyForStart(c)
    BY <1>0, <1>9 DEF IdentifyForStart
<1>10. QED
    BY <1>8, <1>9

\* Whoever is told that the service runs, or has been started, has been answered by the
\* recorded generation, which runs what he asked for: no stop has ended it or is about
\* to, so that only a kill, a failure or another client takes it away.
THEOREM StartsAnswerTruly == Spec => StartAnswersTruly
<1>1. ASSUME IInv, HeardInv, [Next]_vars, NEW c \in Clis,
             StartAnswered(c)', ~ StartAnswered(c)
      PROVE  /\ state' # NoChild
             /\ config[state'] = job[c].want
             /\ Untouched(state')
  <2>1. TypeOK /\ RequestInv /\ Heard(c) /\ \A d \in Clis : CliInv(d)
    BY <1>1 DEF IInv, HeardInv
  <2>2. CliMoves(c)
    <3>1. ~ (pc'[c] = pc[c] /\ job'[c] = job[c])
      BY <1>1 DEF StartAnswered
    <3>2. PICK d \in Clis : CliMoves(d)
      BY <1>1, <2>1, <3>1, ChildFrame DEF Next, CliMoves, ChildMoves, ExternalTakes, ExternalDrops, cliVars,
                                          vars
    <3>3. d # c => OthersKept(d)
      BY <2>1, <3>2, CliFrame DEF CliInv
    <3>4. QED
      BY <3>1, <3>2, <3>3 DEF OthersKept
  <2>3. CASE Publish(c)
    <3>1. pc[c] = "write" /\ state' = job[c].child
      BY <2>3 DEF Publish
    <3>2. job[c].child \in Children
      <4>1. job[c].child \in Children \union {NoChild}
        BY <2>1 DEF TypeOK, Jobs
      <4>2. job[c].child # NoChild
        BY <2>1, <3>1 DEF CliInv, Spawned, Waiting, Starting
      <4>3. QED
        BY <4>1, <4>2
    <3>3. Untouched(job[c].child) /\ config[job[c].child] = job[c].want
      BY <2>1, <3>1 DEF Heard, Coordinates, Waiting, Starting
    <3>4. QED
      BY <3>1, <3>2, <3>3, SentinelAssumption
  <2>4. CASE /\ pc[c] = "ping" /\ job[c].cmd = "start" /\ Matches(c)
             /\ config[job[c].seen] = job[c].want
             /\ UNCHANGED state
    <3>1. Coordinates(c) /\ reply[c] = state /\ job[c].seen = state /\ state # NoChild
      BY <2>1, <2>4 DEF Coordinates, Matches, CliInv, SeenState, SeenEnded
    <3>2. state \in Children
      BY <2>1, <3>1 DEF TypeOK
    <3>3. Untouched(state)
      BY <2>1, <2>4, <3>1, <3>2 DEF Heard
    <3>4. QED
      BY <2>4, <3>1, <3>3
  <2>5. QED
    BY <1>1, <2>1, <2>2, <2>3, <2>4, StartOutcomes
<1>2. IInv /\ HeardInv /\ [Next]_vars =>
         [\A c \in Clis : StartAnswered(c)' /\ ~ StartAnswered(c) =>
             /\ state' # NoChild
             /\ config[state'] = job[c].want
             /\ \A k \in DOMAIN queue[state'] : queue[state'][k].target # state'
             /\ childPc[state'] = "serving" \/ ended[state'] = "other"]_vars
  <2>1. ASSUME IInv, HeardInv, [Next]_vars, NEW c \in Clis,
               StartAnswered(c)', ~ StartAnswered(c)
        PROVE  \A k \in DOMAIN queue[state'] : queue[state'][k].target # state'
    BY <1>1, <2>1 DEF Untouched
  <2>2. QED
    BY <1>1, <2>1 DEF Untouched, Unended
<1>3. QED
    BY <1>2, Invariance, HeardInvariance, PTL DEF Spec, StartAnswersTruly
=============================================================================
