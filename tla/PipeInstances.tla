--------------------------- MODULE PipeInstances ---------------------------
(***************************************************************************)
(* One pipe name under Windows.  A server has instances of the name; a     *)
(* client that opens the name gets an instance that nobody is connected    *)
(* to, is told that all are busy, or that there is no such name.  The      *)
(* managed service keeps an instance that is not connected beside the one  *)
(* that it serves; a manual `ipc` server makes a new one for each client.  *)
(* What the other commands conclude from a name that is not there rests on *)
(* the first of the two.                                                   *)
(***************************************************************************)
CONSTANTS
    Services, Manuals,  \* processes of the managed service, of the manual server
    Clients,
    None, Free          \* no instance, an instance that nobody is connected to

ASSUME ServersAssumption ==
    /\ Services \intersect Manuals = {}
    /\ {None, Free} \intersect Clients = {} /\ None # Free

Servers == Services \union Manuals

VARIABLES
    pc, client,
    pending,   \* the instance that waits for a client, or has one
    serving    \* the instance whose client is served

vars == <<pc, client, pending, serving>>

TypeOK ==
    /\ pc \in [Servers -> {"off", "create", "connect", "extend", "handle"}]
    /\ client \in [Clients -> {"off", "open", "connected", "left", "absent"}]
    /\ pending \in [Servers -> Clients \union {None, Free}]
    /\ serving \in [Servers -> Clients \union {None}]

Init ==
    /\ pc = [s \in Servers |-> "off"]
    /\ client = [c \in Clients |-> "off"]
    /\ pending = [s \in Servers |-> None]
    /\ serving = [s \in Servers |-> None]

Goto(s, label) == pc' = [pc EXCEPT ![s] = label]

\* The system: a name is there as long as there is an instance of it.
Exists == \E s \in Servers : pending[s] # None \/ serving[s] # None

\* Clients of an instance that is closed are disconnected.
Disconnect(gone) == client' = [c \in Clients |-> IF c \in gone THEN "off" ELSE client[c]]

\* A server that returns, or is killed, closes its instances.
Ends(s) ==
    /\ Goto(s, "off")
    /\ Disconnect({pending[s], serving[s]})
    /\ pending' = [pending EXCEPT ![s] = None]
    /\ serving' = [serving EXCEPT ![s] = None]

-----------------------------------------------------------------------------
(***************************************************************************)
(* Servers.                                                                *)
(***************************************************************************)
Start(s) ==
    /\ pc[s] = "off"
    /\ Goto(s, "create")
    /\ UNCHANGED <<client, pending, serving>>

\* Only the managed service insists on the first instance.
Create(s) ==
    /\ pc[s] = "create"
    /\ s \in Services => ~Exists
    /\ pending' = [pending EXCEPT ![s] = Free]
    /\ Goto(s, "connect")
    /\ UNCHANGED <<client, serving>>

CreateFails(s) ==
    /\ pc[s] = "create"
    /\ s \in Services => Exists
    /\ Ends(s)

\* Mutant: the only instance is served, and no other is made before.
MutantConnectAlone(s) ==
    /\ pc[s] = "connect"
    /\ pending[s] \in Clients
    /\ serving' = [serving EXCEPT ![s] = pending[s]]
    /\ pending' = [pending EXCEPT ![s] = None]
    /\ Goto(s, "handle")
    /\ UNCHANGED client

Connect(s) ==
    /\ pc[s] = "connect"
    /\ pending[s] \in Clients
    /\ serving' = [serving EXCEPT ![s] = pending[s]]
    /\ pending' = [pending EXCEPT ![s] = None]
    /\ Goto(s, IF s \in Services THEN "extend" ELSE "handle")
    /\ UNCHANGED client

\* The client has left before it was noticed: the managed service takes the
\* instance back, the manual server ends.
ConnectBroken(s) ==
    /\ pc[s] = "connect"
    /\ pending[s] \in Clients
    /\ client[pending[s]] = "left"
    /\ IF s \in Services
       THEN /\ pending' = [pending EXCEPT ![s] = Free]
            /\ Disconnect({pending[s]})
            /\ UNCHANGED <<pc, serving>>
       ELSE Ends(s)

\* The next instance is there before the client is served.
Extend(s) ==
    /\ pc[s] = "extend"
    /\ pending' = [pending EXCEPT ![s] = Free]
    /\ Goto(s, "handle")
    /\ UNCHANGED <<client, serving>>

\* A request under its deadlines, then the instance is closed.
Handle(s) ==
    /\ pc[s] = "handle"
    /\ Disconnect({serving[s]})
    /\ serving' = [serving EXCEPT ![s] = None]
    /\ Goto(s, IF s \in Services THEN "connect" ELSE "create")
    /\ UNCHANGED pending

\* The end after a request to shut down, or for the manual server an error of the
\* stream.
HandleEnds(s) ==
    /\ pc[s] = "handle"
    /\ Ends(s)

\* Another error of connect, an error of create, or a kill.
Fails(s) ==
    /\ pc[s] # "off"
    /\ Ends(s)

-----------------------------------------------------------------------------
(***************************************************************************)
(* Clients: open_managed_pipe, with the deadline of the caller.            *)
(***************************************************************************)
Open(c) ==
    /\ client[c] = "off"
    /\ client' = [client EXCEPT ![c] = "open"]
    /\ UNCHANGED <<pc, pending, serving>>

\* While all instances are busy (231), it sleeps and opens again.
GetsInstance(c, s) ==
    /\ client[c] = "open"
    /\ pending[s] = Free
    /\ pending' = [pending EXCEPT ![s] = c]
    /\ client' = [client EXCEPT ![c] = "connected"]
    /\ UNCHANGED <<pc, serving>>

FindsNoName(c) ==
    /\ client[c] = "open"
    /\ ~Exists
    /\ client' = [client EXCEPT ![c] = "absent"]
    /\ UNCHANGED <<pc, pending, serving>>

Concludes(c) ==
    /\ client[c] = "absent"
    /\ client' = [client EXCEPT ![c] = "off"]
    /\ UNCHANGED <<pc, pending, serving>>

\* The deadline includes the retries.
GiveUp(c) ==
    /\ client[c] = "open"
    /\ client' = [client EXCEPT ![c] = "off"]
    /\ UNCHANGED <<pc, pending, serving>>

Leave(c) ==
    /\ client[c] = "connected"
    /\ client' = [client EXCEPT ![c] = "left"]
    /\ UNCHANGED <<pc, pending, serving>>

ServerStep(s) ==
    \/ Create(s) \/ CreateFails(s) \/ Connect(s) \/ ConnectBroken(s)
    \/ Extend(s) \/ Handle(s)

Next ==
    \/ \E s \in Servers : Start(s) \/ ServerStep(s) \/ HandleEnds(s) \/ Fails(s)
    \/ \E c \in Clients : \/ Open(c) \/ FindsNoName(c) \/ Concludes(c) \/ GiveUp(c) \/ Leave(c)
                          \/ \E s \in Servers : GetsInstance(c, s)

Spec == Init /\ [][Next]_vars

\* The managed service never waits without a deadline for a client that it has; a
\* client of this program never tries to open the name without one.
FairSpec ==
    /\ Spec
    /\ \A s \in Services : WF_vars(ServerStep(s))
    /\ \A c \in Clients : WF_vars(GiveUp(c))

-----------------------------------------------------------------------------
Serves(s) == pc[s] \in {"connect", "extend", "handle"}

\* Two managed services never have the name together, and each client has one
\* instance of one server.
InstancesMatch ==
    /\ \A s, t \in Services : Serves(s) /\ Serves(t) => s = t
    /\ \A c \in Clients : client[c] \in {"connected", "left"} <=>
           \E s \in Servers : c \in {pending[s], serving[s]}
    /\ \A s, t \in Servers :
           /\ pending[s] \in Clients => pending[s] # serving[t]
           /\ s # t => /\ pending[s] \in Clients => pending[s] # pending[t]
                       /\ serving[s] \in Clients => serving[s] # serving[t]

NoServiceToBeFound(c) ==
    client[c] # "absent" /\ client'[c] = "absent" => \A s \in Services : ~Serves(s)

\* A client is told that the name is not there only when no managed service has it
\* (start and stop take that for a service that has ended, and remove its record,
\* lib.rs:266-271), and it gets the instance of one service, which is through with
\* it at last, also when it left or does nothing; a client that finds all
\* instances busy does not try for ever (open_managed_pipe, lib.rs:742-764).
ServiceNeverAbsent ==
    /\ [](TypeOK /\ InstancesMatch)
    /\ [][\A c \in Clients : NoServiceToBeFound(c)]_vars
    /\ \A s \in Services, c \in Clients :
           c \in {pending[s], serving[s]} ~> c \notin {pending[s], serving[s]}
    /\ \A c \in Clients : client[c] = "open" ~> client[c] # "open"
=============================================================================
