-------------------------- MODULE ServiceLifecycle --------------------------
(***************************************************************************)
(* The managed service: the commands `service start`, `service stop` and   *)
(* `service status`, run by any number of command-line processes at a      *)
(* time, and the children that `start` spawns.  They share the advisory    *)
(* state file, the startup lock and the instance lock beside it, the       *)
(* writer lock of an index and an endpoint.  Locks are never waited for;   *)
(* a probe of a lock takes it for a moment.  Commands and children may be  *)
(* killed between any two steps, and every request may time out.           *)
(*                                                                         *)
(* A child g stands for one generation of the service: its process id, its *)
(* start time and its instance id, hence for the identity that a ping      *)
(* answers and that the state file records.                                *)
(***************************************************************************)
EXTENDS Integers, Sequences

CONSTANTS
    Clis,          \* processes that run a service command
    Children,      \* bound: generations of the service
    Indexes, Endpoints,
    Configs,       \* what `start` may be asked for
    NoConfig,
    Commands,      \* the commands that are run
    Rounds,        \* iterations of a bounded wait loop
    Backlog,       \* connections that wait on a listening socket
    Nobody,        \* a free lock, a free endpoint, a client that hung up
    External,      \* another writer of an index
    NoChild,
    AnyChild       \* the target of a shutdown without params.service

ASSUME BoundsAssumption ==
    /\ Rounds \in Nat \ {0}
    /\ Backlog \in Nat
    /\ Commands \subseteq {"status", "stop", "start"}

ASSUME ConfigsAssumption ==
    \A want \in Configs : want.index \in Indexes /\ want.endpoint \in Endpoints

ASSUME SentinelAssumption ==
    /\ Clis \intersect Children = {}
    /\ Nobody \notin Clis \union Children
    /\ External \notin Clis \union Children \union {Nobody}
    /\ NoChild \notin Children
    /\ AnyChild \notin Children \union {NoChild}
    /\ NoConfig \notin Configs

Replies == {"none", "waiting", "unavailable", "failed", "accepted"}

ASSUME RepliesAssumption == Replies \intersect (Children \union {NoChild}) = {}

VARIABLES
    state,     \* the generation that the state file records, or NoChild
    startup, instance,   \* owners of the two locks beside the state file
    index,     \* owner of the writer lock of every index
    listener,  \* the child that listens at every endpoint
    queue,     \* the connections that wait for every child
    childPc, config,
    ended,     \* history: what took a child out of its serving loop
    pc, job, reply

lockVars == <<startup, instance, index>>
childVars == <<listener, queue, childPc, config, ended>>
cliVars == <<pc, job, reply>>
vars == <<state, lockVars, childVars, cliVars>>

Jobs == [cmd : {"status", "stop", "start"}, want : Configs \union {NoConfig},
         seen : Children \union {NoChild}, starting : BOOLEAN, active : BOOLEAN,
         child : Children \union {NoChild}, rounds : 0 .. Rounds]

NoJob == [cmd |-> "status", want |-> NoConfig, seen |-> NoChild, starting |-> FALSE,
          active |-> FALSE, child |-> NoChild, rounds |-> 0]

\* A connection carries one request: a ping, or a shutdown of one generation or,
\* without params.service, of whichever reads it.
Connections == [from : Clis \union {Nobody}, target : Children \union {NoChild, AnyChild}]

\* A generation serves until a stop ends that, or a kill, a fatal error or another client.
Causes == {"none", "stop", "other"}

Outcomes == {"running", "started", "stopped", "starting", "stale", "unresponsive", "error"}

ChildLabels == {"unborn", "spawned", "indexed", "owning", "serving", "closing",
                "releasing", "leaving", "abandoning", "gone"}

CliLabels == Outcomes \union
    {"idle", "read", "lock", "reread", "probeStartup", "probe", "probed", "ping",
     "shutdown", "watch", "watched", "confirm", "remove",
     "claim", "spawn", "wait", "poll", "verify", "verified", "write", "reap"}

TypeOK ==
    /\ state \in Children \union {NoChild}
    /\ startup \in Clis \union {Nobody}
    /\ instance \in Clis \union Children \union {Nobody}
    /\ index \in [Indexes -> Clis \union Children \union {Nobody, External}]
    /\ listener \in [Endpoints -> Children \union {Nobody}]
    /\ queue \in [Children -> Seq(Connections)]
    /\ childPc \in [Children -> ChildLabels]
    /\ config \in [Children -> Configs \union {NoConfig}]
    /\ ended \in [Children -> Causes]
    /\ pc \in [Clis -> CliLabels]
    /\ job \in [Clis -> Jobs]
    /\ reply \in [Clis -> Replies \union Children]

Init ==
    /\ state = NoChild
    /\ startup = Nobody
    /\ instance = Nobody
    /\ index = [i \in Indexes |-> Nobody]
    /\ listener = [e \in Endpoints |-> Nobody]
    /\ queue = [g \in Children |-> <<>>]
    /\ childPc = [g \in Children |-> "unborn"]
    /\ config = [g \in Children |-> NoConfig]
    /\ ended = [g \in Children |-> "none"]
    /\ pc = [c \in Clis |-> "idle"]
    /\ job = [c \in Clis |-> NoJob]
    /\ reply = [c \in Clis |-> "none"]

-----------------------------------------------------------------------------
(***************************************************************************)
(* The child: service_run and serve_managed_ipc.                           *)
(***************************************************************************)
ChildGoto(g, label) == childPc' = [childPc EXCEPT ![g] = label]

Without(locks, p) == [i \in Indexes |-> IF locks[i] = p THEN Nobody ELSE locks[i]]

TakeIndex(g) ==
    /\ childPc[g] = "spawned"
    /\ LET i == config[g].index IN
       \/ /\ index[i] = Nobody
          /\ index' = [index EXCEPT ![i] = g]
          /\ ChildGoto(g, "indexed")
       \/ /\ index[i] # Nobody
          /\ UNCHANGED index
          /\ ChildGoto(g, "gone")
    /\ UNCHANGED <<state, startup, instance, listener, queue, config, ended, cliVars>>

\* Mutant: a child serves without the lifetime lock.
MutantTakeInstance(g) ==
    /\ childPc[g] = "indexed"
    /\ instance' = IF instance = Nobody THEN g ELSE instance
    /\ ChildGoto(g, "owning")
    /\ UNCHANGED <<state, startup, index, listener, queue, config, ended, cliVars>>

TakeInstance(g) ==
    /\ childPc[g] = "indexed"
    /\ \/ /\ instance = Nobody
          /\ instance' = g
          /\ ChildGoto(g, "owning")
       \/ /\ instance # Nobody
          /\ UNCHANGED instance
          /\ ChildGoto(g, "abandoning")
    /\ UNCHANGED <<state, startup, index, listener, queue, config, ended, cliVars>>

\* The metadata of the index or the endpoint's name is refused: an early
\* return drops the instance lock, if it is held, before the index lock.
GiveUpEarly(g) ==
    /\ childPc[g] \in {"indexed", "owning"}
    /\ instance' = IF instance = g THEN Nobody ELSE instance
    /\ ChildGoto(g, "abandoning")
    /\ UNCHANGED <<state, startup, index, listener, queue, config, ended, cliVars>>

Abandon(g) ==
    /\ childPc[g] = "abandoning"
    /\ index' = Without(index, g)
    /\ ChildGoto(g, "gone")
    /\ UNCHANGED <<state, startup, instance, listener, queue, config, ended, cliVars>>

Bind(g) ==
    /\ childPc[g] = "owning"
    /\ listener[config[g].endpoint] = Nobody
    /\ listener' = [listener EXCEPT ![config[g].endpoint] = g]
    /\ ChildGoto(g, "serving")
    /\ UNCHANGED <<state, lockVars, queue, config, ended, cliVars>>

BindFails(g) ==
    /\ childPc[g] = "owning"
    /\ ChildGoto(g, "releasing")
    /\ UNCHANGED <<state, lockVars, listener, queue, config, ended, cliVars>>

\* A client that hung up misses its answer.
Respond(c, answer) ==
    reply' = IF c \in Clis THEN [reply EXCEPT ![c] = answer] ELSE reply

\* The serving loop ends.
EndLoop(g, cause) ==
    /\ ended' = [ended EXCEPT ![g] = cause]
    /\ ChildGoto(g, "closing")

\* Mutant: a shutdown is executed whoever it is meant for.
MutantServe(g) ==
    /\ childPc[g] = "serving"
    /\ queue[g] # <<>>
    /\ queue' = [queue EXCEPT ![g] = Tail(@)]
    /\ LET request == Head(queue[g]) IN
       IF request.target = NoChild
       THEN Respond(request.from, g) /\ UNCHANGED <<childPc, ended>>
       ELSE /\ Respond(request.from, "accepted")
            /\ EndLoop(g, IF request.target = AnyChild THEN "other" ELSE "stop")
    /\ UNCHANGED <<state, lockVars, listener, config, pc, job>>

\* Mutant: an answer that cannot be written ends the handling of the request.
MutantServeWritten(g) ==
    /\ childPc[g] = "serving"
    /\ queue[g] # <<>>
    /\ queue' = [queue EXCEPT ![g] = Tail(@)]
    /\ LET request == Head(queue[g]) IN
       \/ /\ request.target = NoChild
          /\ Respond(request.from, g)
          /\ UNCHANGED <<childPc, ended>>
       \/ /\ request.target \in {g, AnyChild}
          /\ request.from # Nobody
          /\ Respond(request.from, "accepted")
          /\ EndLoop(g, IF request.target = g THEN "stop" ELSE "other")
       \/ /\ request.target \notin {NoChild, g, AnyChild} \/ request.from = Nobody
          /\ request.target # NoChild
          /\ Respond(request.from, "failed")
          /\ UNCHANGED <<childPc, ended>>
    /\ UNCHANGED <<state, lockVars, listener, config, pc, job>>

\* Connections are served one at a time, in the order of their arrival.  A
\* shutdown is refused only if it names another generation.
Serve(g) ==
    /\ childPc[g] = "serving"
    /\ queue[g] # <<>>
    /\ queue' = [queue EXCEPT ![g] = Tail(@)]
    /\ LET request == Head(queue[g]) IN
       \/ /\ request.target = NoChild
          /\ Respond(request.from, g)
          /\ UNCHANGED <<childPc, ended>>
       \/ /\ request.target \in {g, AnyChild}
          /\ Respond(request.from, "accepted")
          /\ EndLoop(g, IF request.target = g THEN "stop" ELSE "other")
       \/ /\ request.target \notin {NoChild, g, AnyChild}
          /\ Respond(request.from, "failed")
          /\ UNCHANGED <<childPc, ended>>
    /\ UNCHANGED <<state, lockVars, listener, config, pc, job>>

\* accept fails for good, or the next pipe instance cannot be created.
ServeFails(g) ==
    /\ childPc[g] = "serving"
    /\ EndLoop(g, "other")
    /\ UNCHANGED <<state, lockVars, listener, queue, config, cliVars>>

\* The socket goes away, and with it the connections nobody has accepted.
HangUp(g) ==
    /\ listener' = [e \in Endpoints |-> IF listener[e] = g THEN Nobody ELSE listener[e]]
    /\ queue' = [queue EXCEPT ![g] = <<>>]
    /\ reply' = [c \in Clis |-> IF \E k \in DOMAIN queue[g] : queue[g][k].from = c
                                THEN "failed" ELSE reply[c]]

Close(g) ==
    /\ childPc[g] = "closing"
    /\ HangUp(g)
    /\ ChildGoto(g, "releasing")
    /\ UNCHANGED <<state, lockVars, config, ended, pc, job>>

\* "Release the index before instance ownership."
ReleaseIndex(g) ==
    /\ childPc[g] = "releasing"
    /\ index' = Without(index, g)
    /\ ChildGoto(g, "leaving")
    /\ UNCHANGED <<state, startup, instance, listener, queue, config, ended, cliVars>>

ReleaseInstance(g) ==
    /\ childPc[g] = "leaving"
    /\ instance' = Nobody
    /\ ChildGoto(g, "gone")
    /\ UNCHANGED <<state, startup, index, listener, queue, config, ended, cliVars>>

Alive(g) == childPc[g] \notin {"unborn", "gone"}

\* The operating system closes what a killed child had open; a kill takes it out of
\* its loop as well.
EndChild(g) ==
    /\ HangUp(g)
    /\ instance' = IF instance = g THEN Nobody ELSE instance
    /\ index' = Without(index, g)
    /\ ended' = [ended EXCEPT ![g] = IF childPc[g] = "serving" THEN "other" ELSE @]
    /\ ChildGoto(g, "gone")

ChildCrash(g) ==
    /\ Alive(g)
    /\ EndChild(g)
    /\ UNCHANGED <<state, startup, config, pc, job>>

ChildStep(g) ==
    \/ TakeIndex(g) \/ TakeInstance(g) \/ GiveUpEarly(g) \/ Abandon(g)
    \/ Bind(g) \/ BindFails(g) \/ Serve(g) \/ Close(g)
    \/ ReleaseIndex(g) \/ ReleaseInstance(g)

-----------------------------------------------------------------------------
(***************************************************************************)
(* A command: its outcome, and the state file.                             *)
(***************************************************************************)
Goto(c, label) == pc' = [pc EXCEPT ![c] = label]

\* The command returns, which drops the startup lock.  Of what it has seen remains
\* what the outcome is about.
Answer(c, outcome) ==
    /\ Goto(c, outcome)
    /\ startup' = IF startup = c THEN Nobody ELSE startup
    /\ job' = [job EXCEPT ![c] =
                  [@ EXCEPT !.starting = FALSE, !.active = FALSE, !.rounds = 0,
                            !.seen = IF outcome \in {"stopped", "stale"}
                                     THEN job[c].seen ELSE NoChild]]

Begin(c) ==
    /\ pc[c] = "idle"
    /\ \E cmd \in Commands, want \in Configs :
          job' = [job EXCEPT ![c] =
                     [NoJob EXCEPT !.cmd = cmd,
                                   !.want = IF cmd = "start" THEN want ELSE NoConfig]]
    /\ Goto(c, "read")
    /\ UNCHANGED <<state, lockVars, childVars, reply>>

Return(c) ==
    /\ pc[c] \in Outcomes
    /\ Goto(c, "idle")
    /\ job' = [job EXCEPT ![c] = NoJob]
    /\ UNCHANGED <<state, lockVars, childVars, reply>>

\* stop and start only make sure that the state file can be read at all.
ReadState(c) ==
    /\ pc[c] = "read"
    /\ IF job[c].cmd = "status"
       THEN /\ job' = [job EXCEPT ![c].seen = state]
            /\ Goto(c, "probeStartup")
       ELSE /\ UNCHANGED job
            /\ Goto(c, "lock")
    /\ UNCHANGED <<state, lockVars, childVars, reply>>

\* Mutant: a held startup lock stops nobody.
MutantTakeStartup(c) ==
    /\ pc[c] = "lock"
    /\ startup' = c
    /\ Goto(c, "reread")
    /\ UNCHANGED <<state, instance, index, childVars, job, reply>>

TakeStartup(c) ==
    /\ pc[c] = "lock"
    /\ startup = Nobody
    /\ startup' = c
    /\ Goto(c, "reread")
    /\ UNCHANGED <<state, instance, index, childVars, job, reply>>

StartupBusy(c) ==
    /\ pc[c] = "lock"
    /\ startup # Nobody
    /\ Answer(c, "starting")
    /\ UNCHANGED <<state, instance, index, childVars, reply>>

RereadState(c) ==
    /\ pc[c] = "reread"
    /\ job' = [job EXCEPT ![c].seen = state]
    /\ Goto(c, "probe")
    /\ UNCHANGED <<state, lockVars, childVars, reply>>

\* A probe holds the lock that it found free.
Probing(c) == instance = c \/ (pc[c] = "probeStartup" /\ startup = c)

\* Reading the state, taking or probing a lock, or removing the state may fail.
Fail(c) ==
    /\ pc[c] \in {"read", "lock", "reread", "probeStartup", "probe", "watch", "remove"}
    /\ ~ Probing(c)
    /\ Answer(c, "error")
    /\ UNCHANGED <<state, instance, index, childVars, reply>>

-----------------------------------------------------------------------------
(***************************************************************************)
(* probe_lock: a free lock is taken and dropped again, a held one is not   *)
(* waited for.                                                             *)
(***************************************************************************)
ProbeStartup(c) ==
    /\ pc[c] = "probeStartup"
    /\ ~ Probing(c)
    /\ IF startup = Nobody
       THEN startup' = c /\ UNCHANGED <<pc, job>>
       ELSE /\ job' = [job EXCEPT ![c].starting = TRUE]
            /\ Goto(c, "probe")
            /\ UNCHANGED startup
    /\ UNCHANGED <<state, instance, index, childVars, reply>>

EndProbeStartup(c) ==
    /\ pc[c] = "probeStartup"
    /\ Probing(c)
    /\ startup' = Nobody
    /\ Goto(c, "probe")
    /\ UNCHANGED <<state, instance, index, childVars, job, reply>>

\* The first look at the instance, the readiness check and the wait for its end.
AfterProbe(label) ==
    CASE label = "probe" -> "probed" [] label = "verify" -> "verified" [] OTHER -> "watched"

ProbeInstance(c) ==
    /\ pc[c] \in {"probe", "verify", "watch"}
    /\ ~ Probing(c)
    /\ IF instance = Nobody
       THEN instance' = c /\ UNCHANGED <<pc, job>>
       ELSE /\ job' = [job EXCEPT ![c].active = TRUE]
            /\ Goto(c, AfterProbe(pc[c]))
            /\ UNCHANGED instance
    /\ UNCHANGED <<state, startup, index, childVars, reply>>

EndProbeInstance(c) ==
    /\ pc[c] \in {"probe", "verify", "watch"}
    /\ Probing(c)
    /\ instance' = Nobody
    /\ job' = [job EXCEPT ![c].active = FALSE]
    /\ Goto(c, AfterProbe(pc[c]))
    /\ UNCHANGED <<state, startup, index, childVars, reply>>

\* The readiness check takes an error for an absent owner.
ProbeError(c) ==
    /\ pc[c] = "verify"
    /\ ~ Probing(c)
    /\ job' = [job EXCEPT ![c].active = FALSE]
    /\ Goto(c, "verified")
    /\ UNCHANGED <<state, lockVars, childVars, reply>>

\* Without a recorded generation the locks decide.
InspectNothing(c) ==
    /\ pc[c] = "probed"
    /\ job[c].seen = NoChild
    /\ IF job[c].cmd = "start" /\ ~ job[c].active
       THEN Goto(c, "claim") /\ UNCHANGED <<startup, job>>
       ELSE Answer(c, IF job[c].starting THEN "starting"
                      ELSE IF job[c].active THEN "unresponsive" ELSE "stopped")
    /\ UNCHANGED <<state, instance, index, childVars, reply>>

InspectRecorded(c) ==
    /\ pc[c] = "probed"
    /\ job[c].seen # NoChild
    /\ Goto(c, "ping")
    /\ UNCHANGED <<state, lockVars, childVars, job, reply>>

-----------------------------------------------------------------------------
(***************************************************************************)
(* send_managed_request: a ping, or the shutdown of the generation seen.   *)
(***************************************************************************)
Target(c) == config[IF pc[c] = "poll" THEN job[c].child ELSE job[c].seen].endpoint

Connect(c) ==
    /\ pc[c] \in {"ping", "poll", "confirm", "shutdown"}
    /\ reply[c] = "none"
    /\ LET g == listener[Target(c)] IN
       IF g = Nobody
       THEN Respond(c, "unavailable") /\ UNCHANGED queue
       ELSE /\ Len(queue[g]) < Backlog
            /\ queue' = [queue EXCEPT ![g] = Append(@,
                 [from |-> c, target |-> IF pc[c] = "shutdown" THEN job[c].seen ELSE NoChild])]
            /\ Respond(c, "waiting")
    /\ UNCHANGED <<state, lockVars, listener, childPc, config, ended, pc, job>>

\* Any other error of a request, and the answers that are no valid ones.
RequestFails(c) ==
    /\ pc[c] \in {"ping", "poll", "confirm", "shutdown"}
    /\ reply[c] = "none"
    /\ Respond(c, "failed")
    /\ UNCHANGED <<state, lockVars, childVars, pc, job>>

\* What a client that gives up, or is killed, has sent stays in the queue.
Disconnect(c) ==
    queue' = [g \in Children |->
                 [k \in DOMAIN queue[g] |->
                     [from |-> IF queue[g][k].from = c THEN Nobody ELSE queue[g][k].from,
                      target |-> queue[g][k].target]]]

Timeout(c) ==
    /\ reply[c] = "waiting"
    /\ Disconnect(c)
    /\ Respond(c, "failed")
    /\ UNCHANGED <<state, lockVars, listener, childPc, config, ended, pc, job>>

Answered(c) == reply[c] \notin {"none", "waiting"}

Matches(c) == job[c].active /\ reply[c] = job[c].seen
Dead(c) == ~ job[c].active /\ reply[c] = "unavailable"

\* Mutant: a ping that fails is proof enough.
MutantIdentifyForStatus(c) ==
    /\ pc[c] = "ping" /\ job[c].cmd = "status" /\ Answered(c)
    /\ Answer(c, IF Matches(c) THEN "running"
                 ELSE IF reply[c] = "unavailable" /\ ~ job[c].starting THEN "stale"
                 ELSE "unresponsive")
    /\ Respond(c, "none")
    /\ UNCHANGED <<state, instance, index, childVars>>

IdentifyForStatus(c) ==
    /\ pc[c] = "ping" /\ job[c].cmd = "status" /\ Answered(c)
    /\ Answer(c, IF Matches(c) THEN "running"
                 ELSE IF Dead(c) /\ ~ job[c].starting THEN "stale"
                 ELSE "unresponsive")
    /\ Respond(c, "none")
    /\ UNCHANGED <<state, instance, index, childVars>>

-----------------------------------------------------------------------------
(***************************************************************************)
(* service stop                                                            *)
(***************************************************************************)
\* Mutant: the state of a generation that still holds its lock is removed.
MutantIdentifyForStop(c) ==
    /\ pc[c] = "ping" /\ job[c].cmd = "stop" /\ Answered(c)
    /\ IF Matches(c) THEN Goto(c, "shutdown") /\ UNCHANGED <<startup, job>>
       ELSE IF reply[c] = "unavailable" THEN Goto(c, "remove") /\ UNCHANGED <<startup, job>>
       ELSE Answer(c, "unresponsive")
    /\ Respond(c, "none")
    /\ UNCHANGED <<state, instance, index, childVars>>

IdentifyForStop(c) ==
    /\ pc[c] = "ping" /\ job[c].cmd = "stop" /\ Answered(c)
    /\ IF Matches(c) THEN Goto(c, "shutdown") /\ UNCHANGED <<startup, job>>
       ELSE IF Dead(c) THEN Goto(c, "remove") /\ UNCHANGED <<startup, job>>
       ELSE Answer(c, "unresponsive")
    /\ Respond(c, "none")
    /\ UNCHANGED <<state, instance, index, childVars>>

\* Mutant: the accepted shutdown is only confirmed by a ping.
MutantAcknowledged(c) ==
    /\ pc[c] = "shutdown" /\ Answered(c)
    /\ IF reply[c] = "accepted" THEN Goto(c, "confirm") /\ UNCHANGED <<startup, job>>
       ELSE Answer(c, "unresponsive")
    /\ Respond(c, "none")
    /\ UNCHANGED <<state, instance, index, childVars>>

Acknowledged(c) ==
    /\ pc[c] = "shutdown" /\ Answered(c)
    /\ IF reply[c] = "accepted" THEN Goto(c, "watch") /\ UNCHANGED <<startup, job>>
       ELSE Answer(c, "unresponsive")
    /\ Respond(c, "none")
    /\ UNCHANGED <<state, instance, index, childVars>>

SeenIndex(c) == config[job[c].seen].index

\* Mutant: the deadline of a wait loop is never looked at.
MutantNextRound(c, label) ==
    /\ Goto(c, label)
    /\ job' = [job EXCEPT ![c].active = FALSE]

\* The deadline has not passed yet: wait and try again.
NextRound(c, label) ==
    /\ job[c].rounds < Rounds
    /\ Goto(c, label)
    /\ job' = [job EXCEPT ![c].rounds = @ + 1, ![c].active = FALSE]

\* Once the instance lock is free, the index lock is taken for a moment.
TakeSeenIndex(c) ==
    /\ pc[c] = "watched"
    /\ ~ job[c].active
    /\ index[SeenIndex(c)] = Nobody
    /\ index' = [index EXCEPT ![SeenIndex(c)] = c]
    /\ UNCHANGED <<state, startup, instance, childVars, cliVars>>

DropSeenIndex(c) ==
    /\ pc[c] = "watched"
    /\ ~ job[c].active
    /\ index[SeenIndex(c)] = c
    /\ index' = [index EXCEPT ![SeenIndex(c)] = Nobody]
    /\ Goto(c, "confirm")
    /\ UNCHANGED <<state, startup, instance, childVars, job, reply>>

StillOwned(c) == job[c].active \/ index[SeenIndex(c)] \notin {Nobody, c}

WatchAgain(c) ==
    /\ pc[c] = "watched"
    /\ StillOwned(c)
    /\ NextRound(c, "watch")
    /\ UNCHANGED <<state, lockVars, childVars, reply>>

WatchEnds(c) ==
    /\ pc[c] = "watched"
    /\ StillOwned(c)
    /\ Answer(c, "unresponsive")
    /\ UNCHANGED <<state, instance, index, childVars, reply>>

Confirmed(c) ==
    /\ pc[c] = "confirm" /\ Answered(c)
    /\ IF reply[c] = "unavailable" THEN Goto(c, "remove") /\ UNCHANGED <<startup, job>>
       ELSE Answer(c, "unresponsive")
    /\ Respond(c, "none")
    /\ UNCHANGED <<state, instance, index, childVars>>

\* remove_state_if_matches
Remove(c) ==
    /\ pc[c] = "remove"
    /\ IF state = job[c].seen
       THEN state' = NoChild /\ Answer(c, "stopped")
       ELSE UNCHANGED state /\ Answer(c, "error")
    /\ UNCHANGED <<instance, index, childVars, reply>>

-----------------------------------------------------------------------------
(***************************************************************************)
(* service start                                                           *)
(***************************************************************************)
IdentifyForStart(c) ==
    /\ pc[c] = "ping" /\ job[c].cmd = "start" /\ Answered(c)
    /\ IF Dead(c) THEN Goto(c, "claim") /\ UNCHANGED <<startup, job>>
       ELSE Answer(c, IF ~ Matches(c) THEN "unresponsive"
                      ELSE IF config[job[c].seen] = job[c].want THEN "running" ELSE "error")
    /\ Respond(c, "none")
    /\ UNCHANGED <<state, instance, index, childVars>>

\* The index lock is held while the metadata of the index is looked at.
ClaimIndex(c) ==
    /\ pc[c] = "claim"
    /\ index[job[c].want.index] = Nobody
    /\ index' = [index EXCEPT ![job[c].want.index] = c]
    /\ UNCHANGED <<state, startup, instance, childVars, cliVars>>

ClaimBusy(c) ==
    /\ pc[c] = "claim"
    /\ index[job[c].want.index] \notin {Nobody, c}
    /\ Answer(c, "error")
    /\ UNCHANGED <<state, instance, index, childVars, reply>>

Validate(c) ==
    /\ pc[c] = "claim"
    /\ index[job[c].want.index] = c
    /\ index' = Without(index, c)
    /\ \/ Goto(c, "spawn") /\ UNCHANGED <<startup, job>>
       \/ Answer(c, "error")
    /\ UNCHANGED <<state, instance, childVars, reply>>

Spawn(c) ==
    /\ pc[c] = "spawn"
    /\ \E g \in Children :
          /\ childPc[g] = "unborn"
          /\ ChildGoto(g, "spawned")
          /\ config' = [config EXCEPT ![g] = job[c].want]
          /\ job' = [job EXCEPT ![c].child = g]
    /\ Goto(c, "wait")
    /\ UNCHANGED <<state, lockVars, listener, queue, ended, reply>>

SpawnFails(c) ==
    /\ pc[c] = "spawn"
    /\ Answer(c, "error")
    /\ UNCHANGED <<state, instance, index, childVars, reply>>

\* An iteration of wait_for_started_service begins with try_wait.
TryWait(c) ==
    /\ pc[c] = "wait"
    /\ IF Alive(job[c].child)
       THEN Goto(c, "poll") /\ UNCHANGED <<startup, job>>
       ELSE Answer(c, "error")
    /\ UNCHANGED <<state, instance, index, childVars, reply>>

\* The identity in the answer is that of the child spawned by this command.
Ready(c) ==
    /\ pc[c] = "poll"
    /\ reply[c] = job[c].child
    /\ Goto(c, "verify")
    /\ Respond(c, "none")
    /\ UNCHANGED <<state, lockVars, childVars, job>>

NotReady(c) ==
    \/ pc[c] = "poll" /\ Answered(c) /\ reply[c] # job[c].child
    \/ pc[c] = "verified" /\ ~ (job[c].active /\ Alive(job[c].child))

WaitAgain(c) ==
    /\ NotReady(c)
    /\ NextRound(c, "wait")
    /\ Respond(c, "none")
    /\ UNCHANGED <<state, lockVars, childVars>>

Verified(c) ==
    /\ pc[c] = "verified"
    /\ job[c].active
    /\ Alive(job[c].child)
    /\ Goto(c, "write")
    /\ UNCHANGED <<state, lockVars, childVars, job, reply>>

\* write_state: the temporary is complete when it replaces the state file.
Publish(c) ==
    /\ pc[c] = "write"
    /\ state' = job[c].child
    /\ Answer(c, "started")
    /\ UNCHANGED <<instance, index, childVars, reply>>

\* The deadline has passed, try_wait fails or the state cannot be written.
StartFails(c) ==
    /\ \/ NotReady(c)
       \/ pc[c] \in {"wait", "write"}
    /\ Goto(c, "reap")
    /\ Respond(c, "none")
    /\ UNCHANGED <<state, lockVars, childVars, job>>

\* Mutant: the child is left alone.
MutantReap(c) ==
    /\ pc[c] = "reap"
    /\ Answer(c, "error")
    /\ UNCHANGED <<state, instance, index, childVars, reply>>

\* reap_service_child: the child of this command is killed unless it is gone.
Reap(c) ==
    /\ pc[c] = "reap"
    /\ Answer(c, "error")
    /\ IF Alive(job[c].child)
       THEN EndChild(job[c].child) /\ UNCHANGED config
       ELSE UNCHANGED <<instance, index, childVars, reply>>
    /\ UNCHANGED state

-----------------------------------------------------------------------------
(***************************************************************************)
(* Everything together.                                                    *)
(***************************************************************************)
\* A killed command drops its locks; its child lives on.
CliCrash(c) ==
    /\ pc[c] \notin {"idle"} \union Outcomes
    /\ Goto(c, "idle")
    /\ job' = [job EXCEPT ![c] = NoJob]
    /\ startup' = IF startup = c THEN Nobody ELSE startup
    /\ instance' = IF instance = c THEN Nobody ELSE instance
    /\ index' = Without(index, c)
    /\ Disconnect(c)
    /\ Respond(c, "none")
    /\ UNCHANGED <<state, listener, childPc, config, ended>>

\* `index`, `refresh` or another service holds the writer lock of an index.
ExternalTakes(i) ==
    /\ index[i] = Nobody
    /\ index' = [index EXCEPT ![i] = External]
    /\ UNCHANGED <<state, startup, instance, childVars, cliVars>>

ExternalDrops(i) ==
    /\ index[i] = External
    /\ index' = [index EXCEPT ![i] = Nobody]
    /\ UNCHANGED <<state, startup, instance, childVars, cliVars>>

\* Another client of the endpoint asks for a shutdown that the service accepts:
\* without params.service, or with the identity that a ping has told the client.
\* Bound: one such request waits at a time, since nothing behind it is ever read.
AskShutdown(g) ==
    /\ \E e \in Endpoints : listener[e] = g
    /\ Len(queue[g]) < Backlog
    /\ \A k \in DOMAIN queue[g] : queue[g][k].target # AnyChild
    /\ queue' = [queue EXCEPT ![g] = Append(@, [from |-> Nobody, target |-> AnyChild])]
    /\ UNCHANGED <<state, lockVars, listener, childPc, config, ended, cliVars>>

Exchange(c) == Connect(c) \/ RequestFails(c) \/ Timeout(c)

Observe(c) ==
    \/ ReadState(c) \/ TakeStartup(c) \/ StartupBusy(c) \/ RereadState(c) \/ Fail(c)
    \/ ProbeStartup(c) \/ EndProbeStartup(c)
    \/ ProbeInstance(c) \/ EndProbeInstance(c) \/ ProbeError(c)
    \/ InspectNothing(c) \/ InspectRecorded(c) \/ Exchange(c) \/ IdentifyForStatus(c)

Stop(c) ==
    \/ IdentifyForStop(c) \/ Acknowledged(c)
    \/ TakeSeenIndex(c) \/ DropSeenIndex(c) \/ WatchAgain(c) \/ WatchEnds(c)
    \/ Confirmed(c) \/ Remove(c)

Start(c) ==
    \/ IdentifyForStart(c) \/ ClaimIndex(c) \/ ClaimBusy(c) \/ Validate(c)
    \/ Spawn(c) \/ SpawnFails(c) \/ TryWait(c) \/ Ready(c) \/ WaitAgain(c)
    \/ Verified(c) \/ Publish(c) \/ StartFails(c) \/ Reap(c)

CliStep(c) == Observe(c) \/ Stop(c) \/ Start(c) \/ Return(c)

Next ==
    \/ \E c \in Clis : Begin(c) \/ CliStep(c) \/ CliCrash(c)
    \/ \E g \in Children : ChildStep(g) \/ ServeFails(g) \/ ChildCrash(g) \/ AskShutdown(g)
    \/ \E i \in Indexes : ExternalTakes(i) \/ ExternalDrops(i)

Spec == Init /\ [][Next]_vars

\* Running processes are scheduled; nobody has to begin, be killed or write, no
\* accept has to fail and nobody else has to ask for a shutdown.
FairSpec ==
    /\ Spec
    /\ \A c \in Clis : WF_vars(CliStep(c))
    /\ \A g \in Children : WF_vars(ChildStep(g))

-----------------------------------------------------------------------------
(***************************************************************************)
(* Properties.                                                             *)
(***************************************************************************)
\* At most one generation is between taking and releasing the instance lock,
\* however many starts, orphans of killed starts and stops there are.
Owns(g) == childPc[g] \in {"owning", "serving", "closing", "releasing", "leaving"}
OneService == \A g, h \in Children : Owns(g) /\ Owns(h) => g = h

\* A stop ends only the generation in the state file, which stays recorded while
\* it goes down: a shutdown that meets the orphan of a killed start, or the next
\* generation behind the same endpoint, leaves it alone.
OnlyRecordedCloses ==
    \A g \in Children : ended[g] = "stop" /\ childPc[g] # "gone" => state = g

\* A stop that says "stopped" has seen the end of the generation it stopped,
\* and of its locks, whatever the answer to a single ping was.
StoppedMeansGone ==
    \A c \in Clis :
       pc[c] = "stopped" /\ job[c].seen # NoChild => childPc[job[c].seen] = "gone"

\* A status says "stale" only of a generation that has ended: one that closed
\* its socket and still holds its locks is unresponsive.
StaleMeansGone ==
    \A c \in Clis : pc[c] = "stale" => childPc[job[c].seen] = "gone"

\* A start that fails after it spawned a child leaves no process behind.
FailedStartLeavesNothing ==
    \A c \in Clis :
       pc[c] = "error" /\ job[c].child # NoChild => childPc[job[c].child] = "gone"

\* The record of a generation is removed or replaced only after it has ended.
LiveRecordKept == [][state' # state => state = NoChild \/ childPc[state] = "gone"]_vars

\* Whoever starts the service and is told that it runs finds the configuration
\* he asked for in the state file, of a generation that has come to serve, and no
\* stop, running or killed, has ended it or is about to: if it does not serve any
\* more, it was killed, it failed, or another client asked it to end.
StartAnswered(c) == job[c].cmd = "start" /\ pc[c] \in {"running", "started"}

StartAnswersTruly ==
    [][\A c \in Clis : StartAnswered(c)' /\ ~ StartAnswered(c) =>
          /\ state' # NoChild
          /\ config[state'] = job[c].want
          /\ \A k \in DOMAIN queue[state'] : queue[state'][k].target # state'
          /\ childPc[state'] = "serving" \/ ended[state'] = "other"]_vars

\* Every command ends, also next to an index that another writer never frees.
CommandsEnd == \A c \in Clis : pc[c] # "idle" ~> pc[c] = "idle"

\* A shutdown that reached its service ends it, even if the stop that sent it
\* was killed or timed out before it could read the answer.
ShutdownQueued(g) == \E k \in DOMAIN queue[g] : queue[g][k].target \in {g, AnyChild}
ShutdownTakesEffect == \A g \in Children : ShutdownQueued(g) ~> childPc[g] = "gone"

=============================================================================
