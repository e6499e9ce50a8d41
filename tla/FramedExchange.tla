--------------------------- MODULE FramedExchange ---------------------------
(***************************************************************************)
(* One request and its answer over one connection of a managed service:    *)
(* the client is send_request_with_timeout, the server is                  *)
(* handle_managed_connection with read_request and write_response.  Both   *)
(* read their frame with read_frame (BoundedFrame), each under its own     *)
(* limit and deadline; a socket holds at most Capacity unread bytes in a   *)
(* direction, so a write waits for the other side too.                     *)
(*                                                                         *)
(* Either of them may have a stranger on the other side, who sends any     *)
(* bytes at any speed, or none, and ends the connection when it likes.     *)
(***************************************************************************)
EXTENDS Integers, Sequences, SequencesExt

CONSTANTS
    MaxRequest,   \* MAX_REQUEST_BYTES
    MaxResponse,  \* MAX_RESPONSE_BYTES
    BufferBytes,
    Capacity,     \* of the socket, in each direction
    Bytes, Newline, Return, Invalid,
    Requests,     \* what callers pass to send_request
    Responses,    \* what a handler may answer
    MaxRaw,       \* bound: the bytes that a stranger sends
    Nothing       \* no request executed, no response yet

ASSUME LimitsAssumption ==
    /\ MaxRequest \in Nat \ {0}
    /\ MaxResponse \in Nat \ {0}
    /\ BufferBytes \in Nat \ {0}
    /\ Capacity \in Nat \ {0}
    /\ MaxRaw \in Nat
ASSUME TextAssumption ==
    /\ {Newline, Return} \subseteq Bytes
    /\ Invalid \subseteq Bytes \ {Newline, Return}
    /\ Requests \subseteq Seq(Bytes \ Invalid)
    /\ Responses \subseteq Seq(Bytes \ Invalid)
    /\ \A r \in Responses : r # <<>> /\ Last(r) = Newline /\ Newline \notin ToSet(Front(r))
    /\ Nothing \notin Seq(Bytes)

VARIABLES
    client,     \* where send_request_with_timeout is, or how it ended
    request,    \* its argument
    cliLate,    \* its one deadline has passed
    cliRead, cliFrame, cliChunk, cliTaken,   \* its read_frame
    server,     \* where the server is with this connection
    srvReadLate, srvWriteLate,               \* its two deadlines
    srvRead, srvFrame, srvChunk, srvTaken,   \* its read_frame
    executed,   \* the line the handler was given
    response,   \* and its answer
    toServer, toClient,                      \* the bytes sent so far
    clientEnd, serverEnd                     \* the two ends of the connection

cliReader == <<cliRead, cliFrame, cliChunk, cliTaken>>
srvReader == <<srvRead, srvFrame, srvChunk, srvTaken>>
clientVars == <<client, request, cliLate, cliReader>>
serverVars == <<server, srvReadLate, srvWriteLate, srvReader, executed, response>>
wires == <<toServer, toClient>>
ends == <<clientEnd, serverEnd>>
vars == <<clientVars, serverVars, wires, ends>>

FramedText(text) == IF text # <<>> /\ Last(text) = Newline THEN text ELSE Append(text, Newline)

(* The reads of the request by the server and of the answer by the client. *)
Rq == INSTANCE BoundedFrame WITH
    MaxBytes <- MaxRequest,
    pc <- srvRead, frame <- srvFrame, chunk <- srvChunk, taken <- srvTaken,
    late <- srvReadLate, sent <- toServer, peer <- clientEnd
Rs == INSTANCE BoundedFrame WITH
    MaxBytes <- MaxResponse,
    pc <- cliRead, frame <- cliFrame, chunk <- cliChunk, taken <- cliTaken,
    late <- cliLate, sent <- toClient, peer <- serverEnd

ClientEnded == {"answered", "too_large", "empty", "timed_out", "failed", "killed"}
ServerEnded == {"rejected", "written", "unwritten"}
Stranger == {"stranger", "gone"}

Init ==
    /\ client \in {"ready", "stranger"}
    /\ request \in Requests
    /\ server \in {"backlog", "stranger"}
    /\ client = "ready" \/ server = "backlog"
    /\ client = "stranger" => request = (CHOOSE r \in Requests : TRUE)
    /\ srvWriteLate = FALSE
    /\ executed = Nothing
    /\ response = Nothing
    /\ Rq!Init
    /\ Rs!Init

----------------------------------------------------------------------------
(* The client. *)

(* A client that returns drops its stream: what it has not read breaks the *)
(* connection instead of ending it.                                        *)
ClientEnds(result) ==
    /\ client' = result
    /\ clientEnd' = IF cliTaken < Len(toClient) THEN "broken" ELSE "closed"
    /\ UNCHANGED <<request, cliLate, cliReader, serverVars, wires, serverEnd>>

NeedsNewline == request = <<>> \/ Last(request) # Newline

TooLarge == Len(request) > MaxRequest - (IF NeedsNewline THEN 1 ELSE 0)

CheckSize ==
    /\ client = "ready"
    /\ \/ /\ TooLarge
          /\ ClientEnds("too_large")
       \/ /\ ~TooLarge
          /\ client' = "writing"
          /\ UNCHANGED <<request, cliLate, cliReader, serverVars, wires, ends>>

ClientWrites ==
    /\ client = "writing"
    /\ serverEnd = "open"
    /\ Len(toServer) - srvTaken < Capacity
    /\ toServer' = Append(toServer, FramedText(request)[Len(toServer) + 1])
    /\ client' = IF toServer' = FramedText(request) THEN "reading" ELSE "writing"
    /\ UNCHANGED <<request, cliLate, cliReader, serverVars, toClient, ends>>

ClientWriteFails ==
    /\ client = "writing"
    /\ \/ serverEnd # "open" /\ ClientEnds("failed")
       \/ cliLate /\ ClientEnds("timed_out")

ClientReads ==
    /\ client = "reading"
    /\ Rs!ReaderStep
    /\ UNCHANGED <<client, request, cliLate, serverVars, wires, ends>>

EmptyLines == {<<Newline>>, <<Return, Newline>>}

\* Mutant: the deadline also covers the shutdown of the stream.
MutantReturnsLate ==
    /\ client = "reading"
    /\ cliRead \in Rs!Results
    /\ CASE cliLate -> ClientEnds("timed_out")
         [] ~cliLate /\ cliRead = "delivered" ->
              ClientEnds(IF cliFrame \in EmptyLines THEN "empty" ELSE "answered")
         [] OTHER -> ClientEnds("failed")

(* A frame that is there is the answer, whatever becomes of the shutdown   *)
(* of the stream after it.                                                 *)
ClientReturns ==
    /\ client = "reading"
    /\ cliRead \in Rs!Results
    /\ CASE cliRead = "delivered" ->
              ClientEnds(IF cliFrame \in EmptyLines THEN "empty" ELSE "answered")
         [] cliRead = "timed_out" -> ClientEnds("timed_out")
         [] OTHER -> ClientEnds("failed")

ClientKilled ==
    /\ client \in {"ready", "writing", "reading"}
    /\ ClientEnds("killed")

----------------------------------------------------------------------------
(* The server. *)

ServerEnds(result) ==
    /\ server' = result
    /\ serverEnd' = IF srvTaken < Len(toServer) THEN "broken" ELSE "closed"
    /\ UNCHANGED <<clientVars, srvReadLate, srvWriteLate, srvReader, executed, response,
                   wires, clientEnd>>

Accept ==
    /\ server = "backlog"
    /\ server' = "reading"
    /\ UNCHANGED <<clientVars, srvReadLate, srvWriteLate, srvReader, executed, response,
                   wires, ends>>

ServerReads ==
    /\ server = "reading"
    /\ Rq!ReaderStep
    /\ UNCHANGED <<clientVars, server, srvReadLate, srvWriteLate, executed, response,
                   wires, ends>>

Reject ==
    /\ server = "reading"
    /\ srvRead \in Rq!Results \ {"delivered"}
    /\ ServerEnds("rejected")

(* A handler is synchronous and has no deadline.  A line that is no        *)
(* request is answered too.                                                *)
Handle ==
    /\ server = "reading"
    /\ srvRead = "delivered"
    /\ executed' = srvFrame
    /\ response' \in Responses
    /\ server' = "writing"
    /\ UNCHANGED <<clientVars, srvReadLate, srvWriteLate, srvReader, wires, ends>>

ServerWrites ==
    /\ server = "writing"
    /\ clientEnd = "open"
    /\ toClient # response
    /\ Len(toClient) - cliTaken < Capacity
    /\ toClient' = Append(toClient, response[Len(toClient) + 1])
    /\ UNCHANGED <<clientVars, serverVars, toServer, ends>>

ServerWritten ==
    /\ server = "writing"
    /\ toClient = response
    /\ ServerEnds("written")

ServerWriteFails ==
    /\ server = "writing"
    /\ toClient # response
    /\ clientEnd # "open" \/ srvWriteLate
    /\ ServerEnds("unwritten")

ServerStep ==
    Accept \/ ServerReads \/ Reject \/ Handle \/ ServerWrites \/ ServerWritten \/ ServerWriteFails

----------------------------------------------------------------------------
(* Each deadline is armed when its part of the exchange begins. *)

ClientDeadline ==
    /\ client \in {"writing", "reading"}
    /\ ~cliLate
    /\ cliLate' = TRUE
    /\ UNCHANGED <<client, request, cliReader, serverVars, wires, ends>>

ReadDeadline ==
    /\ server = "reading"
    /\ ~srvReadLate
    /\ srvReadLate' = TRUE
    /\ UNCHANGED <<clientVars, server, srvWriteLate, srvReader, executed, response, wires, ends>>

WriteDeadline ==
    /\ server = "writing"
    /\ ~srvWriteLate
    /\ srvWriteLate' = TRUE
    /\ UNCHANGED <<clientVars, server, srvReadLate, srvReader, executed, response, wires, ends>>

Clock == ClientDeadline \/ ReadDeadline \/ WriteDeadline

----------------------------------------------------------------------------
(* Strangers: one that connects to the service, and one at the endpoint.   *)

StrangerSends ==
    \/ /\ client = "stranger"
       /\ Len(toServer) < MaxRaw
       /\ \E b \in Bytes : toServer' = Append(toServer, b)
       /\ UNCHANGED <<clientVars, serverVars, toClient, ends>>
    \/ /\ server = "stranger"
       /\ Len(toClient) < MaxRaw
       /\ \E b \in Bytes : toClient' = Append(toClient, b)
       /\ UNCHANGED <<clientVars, serverVars, toServer, ends>>

StrangerEnds ==
    \/ /\ client = "stranger"
       /\ client' = "gone"
       /\ clientEnd' \in {"closed", "broken"}
       /\ UNCHANGED <<request, cliLate, cliReader, serverVars, wires, serverEnd>>
    \/ /\ server = "stranger"
       /\ server' = "gone"
       /\ serverEnd' \in {"closed", "broken"}
       /\ UNCHANGED <<clientVars, srvReadLate, srvWriteLate, srvReader, executed, response,
                      wires, clientEnd>>

ClientStep ==
    CheckSize \/ ClientWrites \/ ClientWriteFails \/ ClientReads \/ ClientReturns

Next == ClientStep \/ ClientKilled \/ ServerStep \/ Clock \/ StrangerSends \/ StrangerEnds

Spec == Init /\ [][Next]_vars

(* A task that can go on is polled, and time passes.  A stranger owes      *)
(* nothing.                                                                *)
FairSpec ==
    /\ Spec
    /\ WF_vars(ServerStep)
    /\ WF_vars(ReadDeadline)
    /\ WF_vars(WriteDeadline)
    /\ WF_vars(ClientStep)
    /\ WF_vars(ClientDeadline)

----------------------------------------------------------------------------

TypeOK ==
    /\ client \in {"ready", "writing", "reading"} \union ClientEnded \union Stranger
    /\ request \in Requests
    /\ server \in {"backlog", "reading", "writing"} \union ServerEnded \union Stranger
    /\ srvWriteLate \in BOOLEAN
    /\ executed \in Seq(Bytes) \union {Nothing}
    /\ response \in Responses \union {Nothing}
    /\ Rq!TypeOK
    /\ Rs!TypeOK

(* The first line of what the client meant to send.                        *)
FirstLine == Rq!ThroughNewline(IF client \in Stranger THEN toServer ELSE FramedText(request))

(* The service executes the whole first line of what the client meant to   *)
(* send or nothing, however that was cut into reads: a client that is      *)
(* killed, times out or is slow in the middle of its request has not given *)
(* a shorter one, and nothing that is too long or no text is executed.     *)
ExecutedWhole ==
    /\ TypeOK
    /\ Rq!DeliveredIsFirstLine
    /\ executed # Nothing => executed = FirstLine

(* A client that returns an answer returns the complete first line that    *)
(* the other side sent, and a service has then executed its request: a     *)
(* response that was cut off by the write deadline is never taken for one. *)
(* Nor is an answer lost that arrived complete and in time: no deadline    *)
(* and no failure of the cleanup turns it into an error.                   *)
AnsweredTruly ==
    /\ Rs!DeliveredIsFirstLine
    /\ client = "answered" =>
          /\ cliFrame = Rs!ThroughNewline(toClient)
          /\ server \notin Stranger => executed = FirstLine /\ cliFrame = response
    /\ client \in {"timed_out", "failed"} => cliRead # "delivered"
    /\ client = "empty" => Rs!ThroughNewline(toClient) \in EmptyLines

(* Neither side refuses a frame that keeps to the limit, and the two size  *)
(* checks agree to the byte, with the newline that the client adds         *)
(* counted: what send_request lets through is not too large for            *)
(* read_request, and what it refuses would have been.                      *)
RefusedJustly ==
    /\ Rq!RefusedJustly
    /\ Rs!RefusedJustly
    /\ srvRead = "oversized" => client \in Stranger
    /\ client = "too_large" => Len(FramedText(request)) > MaxRequest

(* Whatever the other side does, or does not do: no verdict on a frame is  *)
(* given after its deadline, an accepted connection does not hold the      *)
(* serial server for ever, and a client returns.                           *)
DeadlinesKept ==
    /\ Rq!NothingAfterDeadline
    /\ Rs!NothingAfterDeadline
    /\ (server = "reading") ~> (server \in ServerEnded)
    /\ (client = "ready") ~> (client \in ClientEnded)
=============================================================================
