--------------------------- MODULE ConnectionLoop ---------------------------
(***************************************************************************)
(* The loop of an ipc server on a Unix socket: it takes one connection     *)
(* after the other from the listening socket and serves each to its end.   *)
(* The managed service reads one request from a connection, under a        *)
(* deadline, and goes on whatever becomes of it; a manually started `ipc`  *)
(* server reads requests until the client leaves, waits for as long as the *)
(* client does, and ends with the first error of a stream.                 *)
(***************************************************************************)
EXTENDS Sequences, Naturals

CONSTANTS
    Clients,
    Requests,     \* what a client may send
    MaxRequests,  \* bound: requests that a client sends
    NoClient, NoAnswer

\* "shutdown" names this service or none, "other" the identity of another one;
\* "torn" is a request without its newline, after which nothing can be sent;
\* "junk" is text that is no request, "unreadable" is no text, or never ends.
ASSUME RequestAssumption ==
    Requests \subseteq {"work", "shutdown", "other", "torn", "junk", "unreadable"}

ASSUME BoundAssumption == MaxRequests \in Nat

Answers == {"result", "shutting_down", "mismatch", "error"}

VARIABLES
    managed,   \* which of the two servers it is
    pc,
    current,   \* the client that is served
    answer,    \* what it is about to be answered
    backlog,   \* connections that nobody has accepted
    link,      \* whether a connection is up, left by the client or closed here
    inbox,     \* requests that a client has sent and the server has not read
    asked, answered,  \* history: all that a client sent and was told
    broken     \* history: the listener, or for the manual server a stream, has failed

clientVars == <<link, inbox, asked>>
vars == <<managed, pc, current, answer, backlog, clientVars, answered, broken>>

TypeOK ==
    /\ managed \in BOOLEAN
    /\ pc \in {"accept", "read", "write", "close", "stopped", "failed"}
    /\ current \in Clients \union {NoClient}
    /\ answer \in Answers \union {NoAnswer}
    /\ backlog \in Seq(Clients)
    /\ link \in [Clients -> {"none", "up", "left", "closed"}]
    /\ inbox \in [Clients -> Seq(Requests)]
    /\ asked \in [Clients -> Seq(Requests)]
    /\ answered \in [Clients -> Seq(Answers)]
    /\ broken \in BOOLEAN

Init ==
    /\ managed \in BOOLEAN
    /\ pc = "accept"
    /\ current = NoClient
    /\ answer = NoAnswer
    /\ backlog = <<>>
    /\ link = [c \in Clients |-> "none"]
    /\ inbox = [c \in Clients |-> <<>>]
    /\ asked = [c \in Clients |-> <<>>]
    /\ answered = [c \in Clients |-> <<>>]
    /\ broken = FALSE

Running == pc \notin {"stopped", "failed"}

-----------------------------------------------------------------------------
(***************************************************************************)
(* Clients: each of them connects once, sends what it likes, and leaves    *)
(* when it likes.                                                          *)
(***************************************************************************)
Connect(c) ==
    /\ Running
    /\ link[c] = "none"
    /\ link' = [link EXCEPT ![c] = "up"]
    /\ backlog' = Append(backlog, c)
    /\ UNCHANGED <<pc, current, answer, inbox, asked, answered, broken>>

Send(c, request) ==
    /\ link[c] = "up"
    /\ Len(asked[c]) < MaxRequests
    /\ asked[c] # <<>> => asked[c][Len(asked[c])] # "torn"
    /\ asked' = [asked EXCEPT ![c] = Append(@, request)]
    /\ inbox' = [inbox EXCEPT ![c] = Append(@, request)]
    /\ UNCHANGED <<pc, current, answer, backlog, link, answered, broken>>

Leave(c) ==
    /\ link[c] = "up"
    /\ link' = [link EXCEPT ![c] = "left"]
    /\ UNCHANGED <<pc, current, answer, backlog, inbox, asked, answered, broken>>

-----------------------------------------------------------------------------
(***************************************************************************)
(* The server.                                                             *)
(***************************************************************************)

\* A process that ends closes what it has accepted and what it has not.
EndsAs(label) ==
    /\ pc' = label
    /\ link' = [c \in Clients |-> IF link[c] = "none" THEN "none" ELSE "closed"]
    /\ backlog' = <<>>
    /\ current' = NoClient
    /\ answer' = NoAnswer
    /\ UNCHANGED <<inbox, asked, answered>>

\* The connection is closed, and the next one accepted.
NextConnection ==
    /\ pc' = "accept"
    /\ link' = [link EXCEPT ![current] = "closed"]
    /\ current' = NoClient
    /\ answer' = NoAnswer
    /\ UNCHANGED <<backlog, inbox, asked, answered, broken>>

StreamFails ==
    IF managed THEN NextConnection ELSE EndsAs("failed") /\ broken' = TRUE

Accept ==
    /\ pc = "accept"
    /\ backlog # <<>>
    /\ current' = Head(backlog)
    /\ backlog' = Tail(backlog)
    /\ pc' = "read"
    /\ UNCHANGED <<answer, clientVars, answered, broken>>

\* The system may report a connection that its client has left as aborted.
AcceptAborted ==
    /\ pc = "accept"
    /\ backlog # <<>>
    /\ link[Head(backlog)] = "left"
    /\ IF managed THEN /\ backlog' = Tail(backlog)
                       /\ UNCHANGED <<pc, current, answer, clientVars, answered, broken>>
       ELSE EndsAs("failed") /\ broken' = TRUE

AcceptFails ==
    /\ pc = "accept"
    /\ broken' = TRUE
    /\ EndsAs("failed")

\* The manual server has no identity to compare.
Answer(request) ==
    CASE request \in {"work", "torn"} -> "result"
      [] request = "shutdown" -> "shutting_down"
      [] request = "other" -> IF managed THEN "mismatch" ELSE "shutting_down"
      [] OTHER -> "error"

\* What there is without a newline counts as a line for the manual server, as
\* soon as its client has left.
Readable(c) ==
    /\ inbox[c] # <<>>
    /\ Head(inbox[c]) # "unreadable"
    /\ Head(inbox[c]) = "torn" => ~managed /\ link[c] = "left"

\* Mutant: what was read beyond the first line is lost with its buffer.
MutantRead ==
    /\ pc = "read"
    /\ Readable(current)
    /\ answer' = Answer(Head(inbox[current]))
    /\ inbox' = [inbox EXCEPT ![current] = <<>>]
    /\ pc' = "write"
    /\ UNCHANGED <<current, backlog, link, asked, answered, broken>>

Read ==
    /\ pc = "read"
    /\ Readable(current)
    /\ answer' = Answer(Head(inbox[current]))
    /\ inbox' = [inbox EXCEPT ![current] = Tail(@)]
    /\ pc' = "write"
    /\ UNCHANGED <<current, backlog, link, asked, answered, broken>>

ReadFails ==
    /\ pc = "read"
    /\ inbox[current] # <<>>
    /\ \/ Head(inbox[current]) = "unreadable"
       \/ managed /\ Head(inbox[current]) = "torn" /\ link[current] = "left"
    /\ StreamFails

\* To the managed service the end of the stream is an error, too.
ReadEnds ==
    /\ pc = "read"
    /\ inbox[current] = <<>>
    /\ link[current] = "left"
    /\ NextConnection

\* Mutant: no deadline for a client that does not send.
MutantReadExpires == FALSE

ReadExpires ==
    /\ pc = "read"
    /\ managed
    /\ NextConnection

\* What a client is told; one that has left does not notice.
Write ==
    /\ pc = "write"
    /\ answered' = IF link[current] = "up"
                   THEN [answered EXCEPT ![current] = Append(@, answer)] ELSE answered
    /\ pc' = "close"
    /\ UNCHANGED <<current, answer, backlog, clientVars, broken>>

\* Mutant: the service goes on when the answer to a shutdown cannot be written.
MutantWriteFails ==
    /\ pc = "write"
    /\ link[current] = "up" => managed
    /\ StreamFails

\* The client has left, or does not take the answer before the deadline.
WriteFails ==
    /\ pc = "write"
    /\ link[current] = "up" => managed
    /\ IF managed /\ answer = "shutting_down" THEN EndsAs("stopped") /\ UNCHANGED broken
       ELSE StreamFails

\* After the answer: the end of the server, of the connection, or the next request.
Close ==
    /\ pc = "close"
    /\ IF answer = "shutting_down" THEN EndsAs("stopped") /\ UNCHANGED broken
       ELSE IF managed THEN NextConnection
       ELSE /\ pc' = "read"
            /\ answer' = NoAnswer
            /\ UNCHANGED <<current, backlog, clientVars, answered, broken>>

ServerStep ==
    \/ Accept
    \/ Read \/ ReadFails \/ ReadEnds \/ ReadExpires
    \/ Write \/ WriteFails \/ Close

Next ==
    /\ \/ ServerStep
       \/ AcceptAborted \/ AcceptFails
       \/ \E c \in Clients : \/ Connect(c) \/ Leave(c)
                             \/ \E request \in Requests : Send(c, request)
    /\ UNCHANGED managed

Spec == Init /\ [][Next]_vars

\* The manual server writes without a deadline: a client that stays and does not read
\* may hold it there for ever.
AwaitsReader == ~managed /\ pc = "write" /\ link[current] = "up"

\* Every wait of the managed service has a deadline.  Those of the manual server have
\* none: waiting for a connection or a request is no step, and writing an answer is one
\* that it need not finish before its client leaves.  A client owes nothing.
FairSpec == Spec /\ WF_vars(~AwaitsReader /\ ServerStep /\ UNCHANGED managed)

-----------------------------------------------------------------------------
\* What a client is told is the answer to what it asked itself, in that order; the
\* managed service executes one request of a connection, also when its client has
\* sent more.
AnswersAreItsOwn ==
    /\ TypeOK
    /\ \A c \in Clients :
          /\ Len(answered[c]) <= Len(asked[c]) - Len(inbox[c])
          /\ \A i \in DOMAIN answered[c] : answered[c][i] = Answer(asked[c][i])
          /\ managed => Len(asked[c]) - Len(inbox[c]) <= 1

MeantForIt == IF managed THEN {"shutdown"} ELSE {"shutdown", "other"}

ShutdownRead == \E c \in Clients, i \in 1 .. MaxRequests :
    /\ i <= Len(asked[c]) - Len(inbox[c])
    /\ asked[c][i] \in MeantForIt

\* A server ends as stopped only when it has read a shutdown that is meant for it; from
\* then on it reads nothing else.  It fails only with its listener, the manual server also
\* with any stream.  The managed service that has read such a shutdown does end as stopped,
\* whether its answer arrives or not; the manual server ends, stopped or failed, unless it
\* waits for a client that does not take the answer.
EndsAsAsked ==
    /\ [](pc = "stopped" => ShutdownRead)
    /\ [](pc = "failed" => broken)
    /\ [][ShutdownRead => inbox' = inbox \/ \E c \in Clients : asked'[c] # asked[c]]_vars
    /\ managed /\ ShutdownRead ~> pc = "stopped"
    /\ ShutdownRead /\ ~AwaitsReader ~> ~Running

\* Whatever the clients do, or leave undone: the managed service is through with
\* every connection at last.
ConnectionsEnd == \A c \in Clients : managed /\ link[c] = "up" ~> link[c] # "up"
=============================================================================
