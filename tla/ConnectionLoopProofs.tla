------------------------ MODULE ConnectionLoopProofs ------------------------
(***************************************************************************)
(* Theorems of ConnectionLoop for any clients, requests and number of      *)
(* requests: no answer goes to the wrong client or to the wrong request.   *)
(* The server holds one answer at a time, for the last request it took     *)
(* from its current client, and a client that misses an answer never gets  *)
(* a later one.  And the server stops only because a client asked it to:   *)
(* from the read of a shutdown on it only answers and ends.                *)
(*                                                                         *)
(* The last part is about the same servers under Windows (PipeInstances):  *)
(* the name of a managed service that serves is always there.              *)
(***************************************************************************)
EXTENDS ConnectionLoop, SequenceTheorems, TLAPS

\* What Answer says, with the kind of the server as an argument.
Says(isManaged, request) ==
    CASE request \in {"work", "torn"} -> "result"
      [] request = "shutdown" -> "shutting_down"
      [] request = "other" -> IF isManaged THEN "mismatch" ELSE "shutting_down"
      [] OTHER -> "error"

\* How many requests of a client the server has read.
used == [c \in Clients |-> Len(asked[c]) - Len(inbox[c])]

Serving == {"read", "write", "close"}

\* What has not been read is the end of what was sent.
InboxInv == \A c \in Clients :
    /\ Len(inbox[c]) <= Len(asked[c])
    /\ \A i \in 1 .. Len(inbox[c]) : inbox[c][i] = asked[c][used[c] + i]
    /\ link[c] = "none" => asked[c] = <<>>

\* The connection that is served is open, and its answer is for its last request.
CurrentInv ==
    /\ pc \in Serving => current \in Clients /\ link[current] \in {"up", "left"}
    /\ pc \in {"write", "close"} =>
          used[current] >= 1 /\ answer = Says(managed, asked[current][used[current]])

\* Those who wait have not been served, and wait once.
BacklogInv ==
    /\ \A k \in DOMAIN backlog : /\ used[backlog[k]] = 0
                                 /\ link[backlog[k]] \in {"up", "left"}
                                 /\ pc \in Serving => backlog[k] # current
    /\ \A k, l \in DOMAIN backlog : backlog[k] = backlog[l] => k = l

\* A client that is still there has had an answer to all that was read of it.
AnsweredInv == \A c \in Clients :
    /\ Len(answered[c]) <= used[c]
    /\ \A i \in DOMAIN answered[c] : answered[c][i] = Says(managed, asked[c][i])
    /\ link[c] = "up" =>
          Len(answered[c]) = IF pc = "write" /\ current = c THEN used[c] - 1 ELSE used[c]

\* The managed service reads from a connection once.
OnceInv == managed =>
    /\ \A c \in Clients : used[c] <= 1
    /\ pc = "read" => used[current] = 0

IInv == TypeOK /\ InboxInv /\ CurrentInv /\ BacklogInv /\ AnsweredInv /\ OnceInv

-----------------------------------------------------------------------------
\* The answers are those of the code, and of the right type.
LEMMA SaysLemma == \A m, r : Says(m, r) \in Answers
BY DEF Says, Answers

LEMMA AnswerSays == \A r : Answer(r) = Says(managed, r)
BY DEF Says, Answer

\* What the sequence operators do to lengths and elements.
LEMMA AppendLemma ==
    ASSUME NEW S, NEW s \in Seq(S), NEW e \in S
    PROVE  /\ Append(s, e) \in Seq(S)
           /\ Len(s) \in Nat /\ Len(Append(s, e)) = Len(s) + 1
           /\ \A i \in 1 .. Len(s) : Append(s, e)[i] = s[i]
           /\ Append(s, e)[Len(s) + 1] = e
           /\ DOMAIN Append(s, e) = 1 .. Len(s) + 1 /\ DOMAIN s = 1 .. Len(s)
BY AppendProperties

LEMMA TailLemma ==
    ASSUME NEW S, NEW s \in Seq(S), s # <<>>
    PROVE  /\ Head(s) \in S /\ Head(s) = s[1]
           /\ Tail(s) \in Seq(S)
           /\ Len(s) \in Nat \ {0} /\ Len(Tail(s)) = Len(s) - 1
           /\ \A i \in 1 .. Len(s) - 1 : Tail(s)[i] = s[i + 1]
           /\ DOMAIN Tail(s) = 1 .. Len(s) - 1 /\ DOMAIN s = 1 .. Len(s)
BY HeadTailProperties

LEMMA EmptyLemma == Len(<<>>) = 0 /\ DOMAIN <<>> = {} /\ \A S : <<>> \in Seq(S)
BY EmptySeq

\* What has been read of whom does not change unless something is sent or read.
LEMMA UsedSame == UNCHANGED <<inbox, asked>> => used' = used
BY DEF used

LEMMA UsedIs == \A c \in Clients : used[c] = Len(asked[c]) - Len(inbox[c])
BY DEF used

LEMMA UsedIsNext == \A c \in Clients : used'[c] = Len(asked'[c]) - Len(inbox'[c])
BY DEF used

LEMMA BacklogElements ==
    ASSUME TypeOK
    PROVE  DOMAIN backlog = 1 .. Len(backlog) /\ \A k \in DOMAIN backlog : backlog[k] \in Clients
<1>1. backlog \in Seq(Clients)
  BY DEF TypeOK
<1>2. QED BY <1>1

\* The sequences of a client, with their lengths.
LEMMA Lengths ==
    ASSUME TypeOK, NEW c \in Clients
    PROVE  /\ asked[c] \in Seq(Requests) /\ Len(asked[c]) \in Nat
           /\ inbox[c] \in Seq(Requests) /\ Len(inbox[c]) \in Nat
           /\ answered[c] \in Seq(Answers) /\ Len(answered[c]) \in Nat
           /\ DOMAIN answered[c] = 1 .. Len(answered[c])
           /\ used[c] \in Int
BY DEF TypeOK, used

-----------------------------------------------------------------------------
\* Every action keeps the invariant.
LEMMA ConnectKeeps ==
    ASSUME IInv, NEW c \in Clients, Connect(c), managed' = managed
    PROVE  IInv'
<1>0. /\ backlog' = Append(backlog, c) /\ link' = [link EXCEPT ![c] = "up"] /\ link[c] = "none"
      /\ UNCHANGED <<pc, current, answer, inbox, asked, answered, broken, managed>>
  BY DEF Connect
<1>1. backlog \in Seq(Clients) /\ backlog' \in Seq(Clients)
      /\ Len(backlog) \in Nat /\ DOMAIN backlog = 1 .. Len(backlog)
      /\ DOMAIN backlog' = 1 .. Len(backlog) + 1
      /\ (\A i \in 1 .. Len(backlog) : backlog'[i] = backlog[i])
      /\ backlog'[Len(backlog) + 1] = c
  BY <1>0, AppendLemma DEF IInv, TypeOK
<1>2. TypeOK'
  BY <1>0, <1>1 DEF IInv, TypeOK
<1>3. used[c] = 0 /\ Len(answered[c]) = 0 /\ \A d \in Clients : used'[d] = used[d]
  <2>1. asked[c] = <<>>
    BY <1>0 DEF IInv, InboxInv
  <2>2. Len(asked[c]) = 0 /\ Len(inbox[c]) \in Nat /\ Len(answered[c]) \in Nat
    BY <2>1, Lengths DEF IInv
  <2>3. Len(inbox[c]) <= Len(asked[c]) /\ Len(answered[c]) <= Len(asked[c]) - Len(inbox[c])
    BY DEF IInv, InboxInv, AnsweredInv, used
  <2>4. QED BY <1>0, <2>2, <2>3 DEF used
<1>4. InboxInv' /\ OnceInv'
  BY <1>0, <1>3 DEF IInv, TypeOK, InboxInv, OnceInv, used
<1>5. CurrentInv' /\ (pc \in Serving => current # c)
  BY <1>0, <1>3 DEF IInv, TypeOK, CurrentInv, Serving, used
<1>6. BacklogInv'
  <2>1. \A k \in 1 .. Len(backlog) : backlog[k] # c /\ backlog[k] \in Clients
    BY <1>0, <1>1 DEF IInv, BacklogInv
  <2>2. QED
    <3>1. ASSUME NEW k \in DOMAIN backlog'
          PROVE  /\ used'[backlog'[k]] = 0 /\ link'[backlog'[k]] \in {"up", "left"}
                 /\ pc \in Serving => backlog'[k] # current
      <4>1. CASE k \in 1 .. Len(backlog)
        <5>1. backlog'[k] = backlog[k] /\ backlog[k] \in Clients \ {c} /\ k \in DOMAIN backlog
          BY <1>1, <2>1, <4>1
        <5>2. used'[backlog'[k]] = used[backlog[k]]
          BY <1>0, <5>1 DEF used
        <5>3. link'[backlog'[k]] = link[backlog[k]]
          BY <1>0, <5>1 DEF IInv, TypeOK
        <5>4. QED BY <5>1, <5>2, <5>3 DEF IInv, BacklogInv
      <4>2. CASE k = Len(backlog) + 1
        <5>1. backlog'[k] = c
          BY <1>1, <4>2
        <5>2. used'[backlog'[k]] = used[c]
          BY <1>0, <5>1 DEF used
        <5>3. link'[c] = "up"
          BY <1>0 DEF IInv, TypeOK
        <5>4. QED BY <1>3, <1>5, <5>1, <5>2, <5>3
      <4>3. QED BY <1>1, <4>1, <4>2
    <3>2. \A k, l \in DOMAIN backlog' : backlog'[k] = backlog'[l] => k = l
      BY <1>1, <2>1 DEF IInv, BacklogInv
    <3>3. QED BY <1>0, <3>1, <3>2 DEF BacklogInv
<1>7. AnsweredInv'
  <2>1. used' = used
    BY <1>0, UsedSame
  <2>2. \A d \in Clients : link'[d] = link[d] \/ (d = c /\ link'[d] = "up")
    BY <1>0 DEF IInv, TypeOK
  <2>3. pc = "write" => current # c
    BY <1>5 DEF Serving
  <2>4. QED BY <1>0, <1>3, <2>1, <2>2, <2>3 DEF IInv, AnsweredInv
<1>8. QED BY <1>2, <1>4, <1>5, <1>6, <1>7 DEF IInv

LEMMA SendKeeps ==
    ASSUME IInv, NEW c \in Clients, NEW request \in Requests, Send(c, request),
           managed' = managed
    PROVE  IInv'
<1>0. /\ link[c] = "up"
      /\ asked' = [asked EXCEPT ![c] = Append(asked[c], request)]
      /\ inbox' = [inbox EXCEPT ![c] = Append(inbox[c], request)]
      /\ UNCHANGED <<pc, current, answer, backlog, link, answered, broken, managed>>
  BY DEF Send
<1>1. /\ asked'[c] \in Seq(Requests) /\ inbox'[c] \in Seq(Requests)
      /\ Len(asked[c]) \in Nat /\ Len(inbox[c]) \in Nat
      /\ Len(asked'[c]) = Len(asked[c]) + 1 /\ Len(inbox'[c]) = Len(inbox[c]) + 1
      /\ \A i \in 1 .. Len(asked[c]) : asked'[c][i] = asked[c][i]
      /\ \A i \in 1 .. Len(inbox[c]) : inbox'[c][i] = inbox[c][i]
      /\ asked'[c][Len(asked[c]) + 1] = request /\ inbox'[c][Len(inbox[c]) + 1] = request
      /\ \A d \in Clients \ {c} : asked'[d] = asked[d] /\ inbox'[d] = inbox[d]
  BY <1>0, AppendLemma DEF IInv, TypeOK
<1>a. /\ Len(asked[c]) \in Nat /\ Len(inbox[c]) \in Nat
      /\ Len(asked'[c]) = Len(asked[c]) + 1 /\ Len(inbox'[c]) = Len(inbox[c]) + 1
  BY <1>1
<1>b. \A d \in Clients \ {c} : asked'[d] = asked[d] /\ inbox'[d] = inbox[d]
  BY <1>1
<1>2. TypeOK'
  BY <1>0, <1>1 DEF IInv, TypeOK
<1>3. used' = used /\ \A d \in Clients : used[d] \in Int
  <2>1. ASSUME NEW d \in Clients
        PROVE  Len(asked'[d]) - Len(inbox'[d]) = Len(asked[d]) - Len(inbox[d])
    <3>1. CASE d = c
      <4>1. Len(asked'[c]) - Len(inbox'[c]) = Len(asked[c]) - Len(inbox[c])
        BY <1>a
      <4>2. QED BY <3>1, <4>1
    <3>2. CASE d # c
      <4>1. asked'[d] = asked[d] /\ inbox'[d] = inbox[d]
        BY <1>b, <3>2
      <4>2. QED BY <4>1
    <3>3. QED BY <3>1, <3>2
  <2>2. used' = used
    BY <2>1 DEF used
  <2>3. QED BY <2>2, Lengths DEF IInv
<1>4. InboxInv'
  <2>1. SUFFICES ASSUME NEW d \in Clients
                 PROVE  /\ Len(inbox'[d]) <= Len(asked'[d])
                        /\ \A i \in 1 .. Len(inbox'[d]) :
                              inbox'[d][i] = asked'[d][used'[d] + i]
                        /\ link'[d] = "none" => asked'[d] = <<>>
    BY DEF InboxInv
  <2>2. CASE d # c
    BY <1>0, <1>b, <1>3, <2>2 DEF IInv, InboxInv
  <2>3. CASE d = c
    <3>1. /\ Len(inbox'[c]) <= Len(asked'[c]) /\ link[c] # "none"
          /\ used[c] + Len(inbox[c]) = Len(asked[c]) /\ used[c] \in Nat
      <4>1. Len(inbox[c]) <= Len(asked[c])
        BY DEF IInv, InboxInv
      <4>2. QED BY <1>0, <1>1, <4>1 DEF used
    <3>2. ASSUME NEW i \in 1 .. Len(inbox[c])
          PROVE  inbox'[c][i] = asked'[c][used[c] + i]
      <4>1. used[c] + i \in 1 .. Len(asked[c])
        BY <1>a, <3>1
      <4>2. inbox[c][i] = asked[c][used[c] + i]
        BY DEF IInv, InboxInv
      <4>3. QED BY <1>1, <4>1, <4>2
    <3>3. inbox'[c][Len(inbox[c]) + 1] = asked'[c][used[c] + (Len(inbox[c]) + 1)]
      <4>1. used[c] + (Len(inbox[c]) + 1) = Len(asked[c]) + 1
        BY <1>1, <3>1
      <4>2. QED BY <1>1, <4>1
    <3>4. \A i \in 1 .. Len(inbox'[c]) : inbox'[c][i] = asked'[c][used[c] + i]
      BY <1>a, <3>2, <3>3
    <3>5. QED BY <1>0, <1>3, <2>3, <3>1, <3>4
  <2>4. QED BY <2>2, <2>3
<1>5. \A d \in Clients : \A i \in 1 .. used[d] : asked'[d][i] = asked[d][i]
  <2>1. SUFFICES ASSUME NEW d \in Clients, NEW i \in 1 .. used[d]
                 PROVE  asked'[d][i] = asked[d][i]
    OBVIOUS
  <2>2. i \in 1 .. Len(asked[d])
    BY Lengths DEF IInv, used
  <2>3. QED BY <1>1, <2>2
<1>6. CurrentInv'
  <2>1. pc \in {"write", "close"} =>
           asked'[current][used[current]] = asked[current][used[current]]
    BY <1>3, <1>5 DEF IInv, CurrentInv, Serving
  <2>2. pc \in Serving => used'[current] = used[current]
    BY <1>0, <1>3 DEF IInv, CurrentInv, used
  <2>3. QED
    BY <1>0, <2>1, <2>2 DEF IInv, CurrentInv, Serving
<1>7. BacklogInv'
  BY <1>0, <1>3 DEF IInv, BacklogInv
<1>8. AnsweredInv'
  <2>1. SUFFICES ASSUME NEW d \in Clients
                 PROVE  /\ Len(answered'[d]) <= used'[d]
                        /\ \A i \in DOMAIN answered'[d] :
                              answered'[d][i] = Says(managed', asked'[d][i])
                        /\ link'[d] = "up" => Len(answered'[d]) =
                              IF pc' = "write" /\ current' = d THEN used'[d] - 1 ELSE used'[d]
    BY DEF AnsweredInv
  <2>2. Len(answered[d]) <= used[d] /\ DOMAIN answered[d] = 1 .. Len(answered[d])
        /\ Len(answered[d]) \in Nat /\ used[d] \in Int
    BY Lengths DEF IInv, AnsweredInv
  <2>3. \A i \in DOMAIN answered[d] : i \in 1 .. used[d]
    BY <2>2
  <2>4. \A i \in DOMAIN answered[d] : answered[d][i] = Says(managed, asked'[d][i])
    <3>1. \A i \in DOMAIN answered[d] : answered[d][i] = Says(managed, asked[d][i])
      BY DEF IInv, AnsweredInv
    <3>2. QED BY <1>5, <2>3, <3>1
  <2>5. link[d] = "up" =>
           Len(answered[d]) = IF pc = "write" /\ current = d THEN used[d] - 1 ELSE used[d]
    BY DEF IInv, AnsweredInv
  <2>6. QED BY <1>0, <1>3, <2>2, <2>4, <2>5
<1>9. OnceInv'
  <2>1. pc = "read" => used'[current] = used[current]
    BY <1>0, <1>3 DEF IInv, CurrentInv, Serving, used
  <2>2. QED BY <1>0, <1>3, <2>1 DEF IInv, OnceInv
<1>10. QED BY <1>2, <1>4, <1>6, <1>7, <1>8, <1>9 DEF IInv

LEMMA LeaveKeeps ==
    ASSUME IInv, NEW c \in Clients, Leave(c), managed' = managed
    PROVE  IInv'
<1>0. /\ link' = [link EXCEPT ![c] = "left"] /\ link[c] = "up"
      /\ UNCHANGED <<pc, current, answer, backlog, inbox, asked, answered, broken, managed>>
      /\ used' = used
  BY UsedSame DEF Leave
<1>1. TypeOK'
  BY <1>0 DEF IInv, TypeOK
<1>2. \A d \in Clients : link'[d] = link[d] \/ (link[d] = "up" /\ link'[d] = "left")
  <2>1. link \in [Clients -> {"none", "up", "left", "closed"}]
    BY DEF IInv, TypeOK
  <2>2. QED BY <1>0, <2>1
<1>3. InboxInv' /\ OnceInv'
  BY <1>0, <1>2 DEF IInv, InboxInv, OnceInv
<1>4. BacklogInv'
  BY <1>0, <1>2, BacklogElements DEF IInv, BacklogInv
<1>5. CurrentInv'
  BY <1>0, <1>2 DEF IInv, CurrentInv, Serving
<1>6. AnsweredInv'
  BY <1>0, <1>2 DEF IInv, AnsweredInv
<1>7. QED BY <1>1, <1>3, <1>4, <1>5, <1>6 DEF IInv

\* The head of the backlog leaves it, to be served or not.
LEMMA TailOfBacklog ==
    ASSUME IInv, backlog # <<>>
    PROVE  /\ Tail(backlog) \in Seq(Clients) /\ Head(backlog) \in Clients
           /\ used[Head(backlog)] = 0 /\ link[Head(backlog)] \in {"up", "left"}
           /\ \A k \in DOMAIN Tail(backlog) :
                 /\ k + 1 \in DOMAIN backlog /\ Tail(backlog)[k] = backlog[k + 1]
                 /\ backlog[k + 1] # Head(backlog)
           /\ \A k, l \in DOMAIN Tail(backlog) : Tail(backlog)[k] = Tail(backlog)[l] => k = l
<1>1. /\ Head(backlog) \in Clients /\ Head(backlog) = backlog[1]
      /\ Tail(backlog) \in Seq(Clients)
      /\ Len(backlog) \in Nat \ {0}
      /\ \A i \in 1 .. Len(backlog) - 1 : Tail(backlog)[i] = backlog[i + 1]
      /\ DOMAIN Tail(backlog) = 1 .. Len(backlog) - 1 /\ DOMAIN backlog = 1 .. Len(backlog)
  BY TailLemma DEF IInv, TypeOK
<1>2. QED BY <1>1 DEF IInv, BacklogInv

LEMMA AcceptKeeps ==
    ASSUME IInv, Accept, managed' = managed
    PROVE  IInv'
<1>0. /\ pc = "accept" /\ backlog # <<>> /\ current' = Head(backlog)
      /\ backlog' = Tail(backlog) /\ pc' = "read"
      /\ UNCHANGED <<answer, link, inbox, asked, answered, broken, managed>>
      /\ used' = used
  BY UsedSame DEF Accept, clientVars
<1>1. TypeOK'
  BY <1>0, TailOfBacklog DEF IInv, TypeOK
<1>2. InboxInv' /\ CurrentInv'
  BY <1>0, TailOfBacklog DEF IInv, InboxInv, CurrentInv, Serving
<1>3. BacklogInv'
  BY <1>0, TailOfBacklog DEF IInv, BacklogInv, Serving
<1>4. AnsweredInv'
  BY <1>0 DEF IInv, AnsweredInv
<1>5. OnceInv'
  BY <1>0, TailOfBacklog DEF IInv, OnceInv
<1>6. QED BY <1>1, <1>2, <1>3, <1>4, <1>5 DEF IInv

LEMMA AbortedKeeps ==
    ASSUME IInv, AcceptAborted, managed, managed' = managed
    PROVE  IInv'
<1>0. /\ pc = "accept" /\ backlog # <<>> /\ backlog' = Tail(backlog)
      /\ UNCHANGED <<pc, current, answer, link, inbox, asked, answered, broken, managed>>
      /\ used' = used
  BY UsedSame DEF AcceptAborted, clientVars
<1>1. TypeOK' /\ InboxInv' /\ CurrentInv' /\ OnceInv'
  <2>1. TypeOK' /\ InboxInv'
    BY <1>0, TailOfBacklog DEF IInv, TypeOK, InboxInv
  <2>2. CurrentInv' /\ OnceInv'
    BY <1>0 DEF IInv, CurrentInv, OnceInv, Serving
  <2>3. QED BY <2>1, <2>2
<1>2. BacklogInv'
  BY <1>0, TailOfBacklog DEF IInv, BacklogInv, Serving
<1>3. AnsweredInv'
  BY <1>0 DEF IInv, AnsweredInv
<1>4. QED BY <1>1, <1>2, <1>3 DEF IInv

LEMMA EndKeeps ==
    ASSUME IInv, NEW label \in {"stopped", "failed"}, EndsAs(label), broken' \in BOOLEAN,
           managed' = managed
    PROVE  IInv'
<1>0. /\ pc' = label /\ backlog' = <<>> /\ current' = NoClient /\ answer' = NoAnswer
      /\ link' = [c \in Clients |-> IF link[c] = "none" THEN "none" ELSE "closed"]
      /\ UNCHANGED <<inbox, asked, answered, managed>>
      /\ used' = used
  BY UsedSame DEF EndsAs
<1>1. TypeOK' /\ InboxInv' /\ CurrentInv' /\ BacklogInv' /\ OnceInv'
  <2>1. TypeOK'
    BY <1>0, EmptyLemma DEF IInv, TypeOK
  <2>2. InboxInv'
    BY <1>0 DEF IInv, InboxInv
  <2>3. CurrentInv' /\ OnceInv'
    BY <1>0 DEF IInv, CurrentInv, OnceInv, Serving
  <2>4. BacklogInv'
    BY <1>0, EmptyLemma DEF BacklogInv
  <2>5. QED BY <2>1, <2>2, <2>3, <2>4
<1>2. AnsweredInv'
  BY <1>0 DEF IInv, AnsweredInv
<1>3. QED BY <1>1, <1>2 DEF IInv

LEMMA NextConnectionKeeps ==
    ASSUME IInv, pc \in Serving, NextConnection, managed' = managed
    PROVE  IInv'
<1>0. /\ pc' = "accept" /\ current' = NoClient /\ answer' = NoAnswer
      /\ link' = [link EXCEPT ![current] = "closed"] /\ current \in Clients
      /\ link[current] # "none"
      /\ UNCHANGED <<backlog, inbox, asked, answered, broken, managed>>
      /\ used' = used
  BY UsedSame DEF NextConnection, IInv, CurrentInv
<1>1. /\ \A c \in Clients \ {current} : link'[c] = link[c]
      /\ link'[current] = "closed"
  BY <1>0 DEF IInv, TypeOK
<1>2. TypeOK'
  BY <1>0 DEF IInv, TypeOK
<1>3. InboxInv' /\ CurrentInv' /\ OnceInv'
  <2>1. InboxInv'
    BY <1>0, <1>1 DEF IInv, InboxInv
  <2>2. CurrentInv' /\ OnceInv'
    BY <1>0 DEF IInv, CurrentInv, OnceInv, Serving
  <2>3. QED BY <2>1, <2>2
<1>4. BacklogInv'
  <2>1. \A k \in DOMAIN backlog : link'[backlog[k]] = link[backlog[k]]
    BY <1>1, BacklogElements DEF IInv, BacklogInv
  <2>2. QED
    BY <1>0, <2>1 DEF IInv, BacklogInv, Serving
<1>5. AnsweredInv'
  <2>1. \A c \in Clients : link'[c] = "up" => link[c] = "up" /\ c # current
    BY <1>1
  <2>2. QED
    BY <1>0, <2>1 DEF IInv, AnsweredInv
<1>6. QED BY <1>2, <1>3, <1>4, <1>5 DEF IInv

LEMMA ReadKeeps ==
    ASSUME IInv, Read, managed' = managed
    PROVE  IInv'
<1> DEFINE c == current
<1>0. /\ pc = "read" /\ inbox[c] # <<>> /\ answer' = Says(managed, Head(inbox[c]))
      /\ inbox' = [inbox EXCEPT ![c] = Tail(inbox[c])] /\ pc' = "write"
      /\ UNCHANGED <<current, backlog, link, asked, answered, broken, managed>>
  BY AnswerSays DEF Read, Readable
<1>1. c \in Clients /\ link[c] \in {"up", "left"}
  BY <1>0 DEF IInv, CurrentInv, Serving
<1>2. /\ Head(inbox[c]) = inbox[c][1] /\ Tail(inbox[c]) \in Seq(Requests)
      /\ Len(inbox[c]) \in Nat \ {0} /\ Len(Tail(inbox[c])) = Len(inbox[c]) - 1
      /\ \A i \in 1 .. Len(inbox[c]) - 1 : Tail(inbox[c])[i] = inbox[c][i + 1]
  BY <1>0, <1>1, TailLemma DEF IInv, TypeOK
<1>3. TypeOK'
  BY <1>0, <1>2, SaysLemma DEF IInv, TypeOK
<1>4. /\ inbox'[c] = Tail(inbox[c]) /\ \A d \in Clients \ {c} : inbox'[d] = inbox[d]
      /\ Len(asked[c]) \in Nat
  BY <1>0, <1>1, Lengths DEF IInv, TypeOK
<1>5. /\ used'[c] = used[c] + 1 /\ used[c] \in Nat
      /\ \A d \in Clients \ {c} : used'[d] = used[d]
  <2>1. Len(inbox[c]) <= Len(asked[c])
    BY <1>1 DEF IInv, InboxInv
  <2>2. /\ Len(asked[c]) \in Nat /\ Len(inbox[c]) \in Nat
        /\ Len(inbox'[c]) = Len(inbox[c]) - 1 /\ asked'[c] = asked[c] /\ current' = current
    BY <1>0, <1>2, <1>4
  <2>3. used[c] \in Nat
    <3>1. \A m, n \in Nat : n <= m => m - n \in Nat
      OBVIOUS
    <3>2. QED BY <1>1, <2>1, <2>2, <3>1, UsedIs
  <2>4. used'[c] = used[c] + 1
    <3>1. used[c] = Len(asked[c]) - Len(inbox[c]) /\ used'[c] = Len(asked'[c]) - Len(inbox'[c])
      BY <1>1, UsedIs, UsedIsNext
    <3>2. QED BY <2>2, <3>1
  <2>5. \A d \in Clients \ {c} : used'[d] = used[d]
    BY <1>0, <1>4 DEF used
  <2>6. QED BY <2>3, <2>4, <2>5
<1>6. InboxInv'
  <2>1. SUFFICES ASSUME NEW d \in Clients
                 PROVE  /\ Len(inbox'[d]) <= Len(asked[d])
                        /\ \A i \in 1 .. Len(inbox'[d]) : inbox'[d][i] = asked[d][used'[d] + i]
                        /\ link[d] = "none" => asked[d] = <<>>
    BY <1>0 DEF InboxInv
  <2>2. CASE d # c
    BY <1>4, <1>5, <2>2 DEF IInv, InboxInv
  <2>3. CASE d = c
    <3>1. ASSUME NEW i \in 1 .. Len(inbox[c]) - 1
          PROVE  inbox'[c][i] = asked[c][used'[c] + i]
      <4>1. inbox'[c][i] = inbox[c][i + 1]
        BY <1>2, <1>4
      <4>2. i + 1 \in 1 .. Len(inbox[c]) /\ used[c] + (i + 1) = used'[c] + i
        BY <1>2, <1>5
      <4>3. inbox[c][i + 1] = asked[c][used[c] + (i + 1)]
        BY <1>1, <4>2 DEF IInv, InboxInv
      <4>4. QED BY <4>1, <4>2, <4>3
    <3>2. QED
      <4>1. Len(inbox[c]) <= Len(asked[c]) /\ (link[c] = "none" => asked[c] = <<>>)
        BY <1>1 DEF IInv, InboxInv
      <4>2. /\ Len(inbox'[c]) = Len(inbox[c]) - 1 /\ Len(inbox[c]) \in Nat
            /\ Len(asked[c]) \in Nat
        BY <1>2, <1>4
      <4>3. QED BY <2>3, <3>1, <4>1, <4>2
  <2>4. QED BY <2>2, <2>3
<1>7. CurrentInv'
  <2>1. inbox[c][1] = asked[c][used[c] + 1]
    BY <1>1, <1>2 DEF IInv, InboxInv
  <2>2. answer' = Says(managed, asked[c][used'[c]])
    BY <1>0, <1>2, <1>5, <2>1
  <2>3. QED
    BY <1>0, <1>1, <1>5, <2>2 DEF CurrentInv, Serving
<1>8. BacklogInv'
  <2>1. \A k \in DOMAIN backlog : backlog[k] \in Clients /\ backlog[k] # c
    BY <1>0 DEF IInv, TypeOK, BacklogInv, Serving
  <2>2. QED
    BY <1>0, <1>5, <2>1 DEF IInv, BacklogInv
<1>9. AnsweredInv'
  BY <1>0, <1>1, <1>5, Lengths DEF IInv, AnsweredInv
<1>10. OnceInv'
  BY <1>0, <1>1, <1>5 DEF IInv, OnceInv
<1>11. QED BY <1>3, <1>6, <1>7, <1>8, <1>9, <1>10 DEF IInv

LEMMA WriteKeeps ==
    ASSUME IInv, Write, managed' = managed
    PROVE  IInv'
<1> DEFINE c == current
<1>0. /\ pc = "write" /\ pc' = "close"
      /\ answered' = IF link[c] = "up" THEN [answered EXCEPT ![c] = Append(answered[c], answer)]
                     ELSE answered
      /\ UNCHANGED <<current, answer, backlog, link, inbox, asked, broken, managed>>
      /\ used' = used
  BY UsedSame DEF Write, clientVars
<1>1. /\ c \in Clients /\ used[c] >= 1 /\ answer = Says(managed, asked[c][used[c]])
  BY <1>0 DEF IInv, CurrentInv, Serving
<1>2. InboxInv' /\ CurrentInv' /\ OnceInv' /\ BacklogInv'
  <2>1. InboxInv'
    BY <1>0 DEF IInv, InboxInv
  <2>2. CurrentInv'
    BY <1>0 DEF IInv, CurrentInv, Serving
  <2>3. OnceInv'
    BY <1>0 DEF IInv, OnceInv
  <2>4. BacklogInv'
    BY <1>0 DEF IInv, BacklogInv, Serving
  <2>5. QED BY <2>1, <2>2, <2>3, <2>4
<1>3. \A d \in Clients : used'[d] = used[d]
  BY <1>0 DEF used
<1>4. CASE link[c] # "up"
  <2>1. answered' = answered
    BY <1>0, <1>4
  <2>2. TypeOK'
    BY <1>0, <2>1 DEF IInv, TypeOK
  <2>3. AnsweredInv'
    BY <1>0, <1>3, <1>4, <2>1 DEF IInv, AnsweredInv
  <2>4. QED BY <1>2, <2>2, <2>3 DEF IInv
<1>5. CASE link[c] = "up"
  <2>1. answer \in Answers
    BY <1>1, SaysLemma
  <2>2. /\ answered'[c] \in Seq(Answers) /\ Len(answered[c]) \in Nat
        /\ Len(answered'[c]) = Len(answered[c]) + 1
        /\ \A i \in 1 .. Len(answered[c]) : answered'[c][i] = answered[c][i]
        /\ answered'[c][Len(answered[c]) + 1] = answer
        /\ DOMAIN answered'[c] = 1 .. Len(answered[c]) + 1
        /\ DOMAIN answered[c] = 1 .. Len(answered[c])
        /\ \A d \in Clients \ {c} : answered'[d] = answered[d]
    BY <1>0, <1>1, <1>5, <2>1, AppendLemma DEF IInv, TypeOK
  <2>3. TypeOK'
    BY <1>0, <1>1, <1>5, <2>2 DEF IInv, TypeOK
  <2>4. used[c] = Len(answered[c]) + 1
    BY <1>0, <1>1, <1>5, <2>2, Lengths DEF IInv, AnsweredInv
  <2>5. \A i \in DOMAIN answered'[c] : answered'[c][i] = Says(managed, asked[c][i])
    BY <1>1, <2>2, <2>4 DEF IInv, AnsweredInv
  <2>6. AnsweredInv'
    <3>1. SUFFICES ASSUME NEW d \in Clients
                   PROVE  /\ Len(answered'[d]) <= used[d]
                          /\ \A i \in DOMAIN answered'[d] :
                                answered'[d][i] = Says(managed, asked[d][i])
                          /\ link[d] = "up" => Len(answered'[d]) = used[d]
      BY <1>0, <1>3 DEF AnsweredInv
    <3>2. CASE d = c
      <4>1. Len(answered'[c]) = used[c] /\ used[c] <= used[c]
        BY <2>2, <2>4
      <4>2. QED BY <2>5, <3>2, <4>1
    <3>3. CASE d # c
      BY <1>0, <2>2, <3>3 DEF IInv, AnsweredInv
    <3>4. QED BY <3>2, <3>3
  <2>7. QED BY <1>2, <2>3, <2>6 DEF IInv
<1>6. QED BY <1>4, <1>5

\* A manual server goes on to the next request of the same client.
LEMMA GoOnKeeps ==
    ASSUME IInv, pc = "close", pc' = "read", answer' = NoAnswer, ~ managed,
           UNCHANGED <<managed, current, backlog, clientVars, answered, broken>>
    PROVE  IInv'
<1>0. /\ UNCHANGED <<managed, current, backlog, link, inbox, asked, answered, broken>>
      /\ used' = used
  BY UsedSame DEF clientVars
<1>1. TypeOK' /\ OnceInv'
  BY <1>0 DEF IInv, TypeOK, OnceInv
<1>2. InboxInv' /\ CurrentInv'
  BY <1>0 DEF IInv, InboxInv, CurrentInv, Serving
<1>3. BacklogInv'
  BY <1>0 DEF IInv, BacklogInv, Serving
<1>4. AnsweredInv'
  BY <1>0 DEF IInv, AnsweredInv
<1>5. QED BY <1>1, <1>2, <1>3, <1>4 DEF IInv

-----------------------------------------------------------------------------
\* Every way to fail or to close a connection is one of those.
LEMMA Inductive == IInv /\ [Next]_vars => IInv'
<1> SUFFICES ASSUME IInv, [Next]_vars
             PROVE  IInv'
  OBVIOUS
<1>1. CASE UNCHANGED vars
  <2>1. /\ UNCHANGED <<managed, pc, current, answer, backlog, link, inbox, asked>>
        /\ UNCHANGED <<answered, broken>> /\ used' = used
    BY <1>1, UsedSame DEF vars, clientVars
  <2>2. TypeOK' /\ OnceInv'
    BY <2>1 DEF IInv, TypeOK, OnceInv
  <2>3. InboxInv' /\ CurrentInv'
    BY <2>1 DEF IInv, InboxInv, CurrentInv
  <2>4. BacklogInv' /\ AnsweredInv'
    BY <2>1 DEF IInv, BacklogInv, AnsweredInv
  <2>5. QED BY <2>2, <2>3, <2>4 DEF IInv
<1>2. CASE Next
  <2>0. managed' = managed /\ broken \in BOOLEAN /\ managed \in BOOLEAN
    BY <1>2 DEF Next, IInv, TypeOK
  <2>1. ASSUME pc \in Serving, StreamFails
        PROVE  IInv'
    BY <2>0, <2>1, NextConnectionKeeps, EndKeeps DEF StreamFails
  <2>2. CASE ReadFails \/ ReadEnds \/ ReadExpires
    BY <2>0, <2>1, <2>2, NextConnectionKeeps DEF ReadFails, ReadEnds, ReadExpires, Serving
  <2>3. CASE WriteFails
    BY <2>0, <2>1, <2>3, EndKeeps DEF WriteFails, Serving
  <2>4. CASE Close
    BY <2>0, <2>4, EndKeeps, NextConnectionKeeps, GoOnKeeps DEF Close, Serving
  <2>5. CASE AcceptFails
    BY <2>0, <2>5, EndKeeps DEF AcceptFails
  <2>6. CASE AcceptAborted
    BY <2>0, <2>6, AbortedKeeps, EndKeeps DEF AcceptAborted
  <2>7. CASE Accept \/ Read \/ Write
    BY <2>0, <2>7, AcceptKeeps, ReadKeeps, WriteKeeps
  <2>8. CASE \E c \in Clients : \/ Connect(c) \/ Leave(c)
                                \/ \E request \in Requests : Send(c, request)
    BY <2>0, <2>8, ConnectKeeps, LeaveKeeps, SendKeeps
  <2>9. QED
    BY <1>2, <2>2, <2>3, <2>4, <2>5, <2>6, <2>7, <2>8 DEF Next, ServerStep
<1>3. QED BY <1>1, <1>2

LEMMA InitInv == Init => IInv
<1> SUFFICES ASSUME Init
             PROVE  IInv
  OBVIOUS
<1>1. \A c \in Clients : inbox[c] = <<>> /\ asked[c] = <<>> /\ answered[c] = <<>>
  BY DEF Init
<1>2. \A c \in Clients : used[c] = 0
  <2>1. SUFFICES ASSUME NEW c \in Clients
                 PROVE  used[c] = 0
    OBVIOUS
  <2>2. Len(asked[c]) = 0 /\ Len(inbox[c]) = 0
    BY <1>1, EmptyLemma
  <2>3. used[c] = Len(asked[c]) - Len(inbox[c])
    BY UsedIs
  <2>4. 0 - 0 = 0
    OBVIOUS
  <2>5. QED BY <2>2, <2>3, <2>4
<1>3. TypeOK /\ CurrentInv
  <2>1. TypeOK
    BY EmptyLemma DEF Init, TypeOK
  <2>2. CurrentInv
    BY DEF Init, CurrentInv, Serving
  <2>3. QED BY <2>1, <2>2
<1>4. BacklogInv
  BY EmptyLemma DEF Init, BacklogInv
<1>5. InboxInv
  <2>1. \A c \in Clients : Len(asked[c]) = 0 /\ Len(inbox[c]) = 0
    BY <1>1, EmptyLemma
  <2>2. 0 <= 0 /\ 1 .. 0 = {}
    OBVIOUS
  <2>3. QED BY <1>1, <2>1, <2>2 DEF InboxInv
<1>6. AnsweredInv /\ OnceInv
  BY <1>1, <1>2, EmptyLemma DEF Init, AnsweredInv, OnceInv
<1>7. QED BY <1>3, <1>5, <1>6, <1>4 DEF IInv

\* What a client is told answers what it asked, in order, for any number of
\* clients and requests; the managed service reads one request of a connection.
THEOREM AnsweredTruly == Spec => []AnswersAreItsOwn
<1>1. IInv => AnswersAreItsOwn
  BY AnswerSays DEF IInv, AnsweredInv, OnceInv, used, AnswersAreItsOwn
<1>2. QED
  BY <1>1, InitInv, Inductive, PTL DEF Spec

-----------------------------------------------------------------------------
\* The server is about to end because it was asked to.
Ending == pc \in {"write", "close"} /\ answer = "shutting_down"

\* A shutdown has been read exactly if the server has ended with it, or is about to,
\* unless it has failed.
HaltInv ==
    /\ \A c \in Clients : Len(asked[c]) <= MaxRequests
    /\ pc = "failed" => broken
    /\ pc = "stopped" \/ Ending => ShutdownRead
    /\ ShutdownRead => pc \in {"stopped", "failed"} \/ Ending

LEMMA MeantSays == \A r : Says(managed, r) = "shutting_down" <=> r \in MeantForIt
BY DEF Says, MeantForIt

LEMMA ReadIs == ShutdownRead <=> \E c \in Clients, i \in 1 .. MaxRequests :
                                    i <= used[c] /\ asked[c][i] \in MeantForIt
BY UsedIs DEF ShutdownRead

LEMMA ReadIsNext == ShutdownRead' <=> \E c \in Clients, i \in 1 .. MaxRequests :
                                    i <= used'[c] /\ asked'[c][i] \in MeantForIt'
BY UsedIsNext DEF ShutdownRead

\* Only a part of what was sent has been read.
LEMMA UsedSent ==
    ASSUME IInv, NEW c \in Clients
    PROVE  used[c] \in Nat /\ Len(asked[c]) \in Nat /\ used[c] <= Len(asked[c])
<1>1. /\ Len(asked[c]) \in Nat /\ Len(inbox[c]) \in Nat /\ Len(inbox[c]) <= Len(asked[c])
      /\ used[c] = Len(asked[c]) - Len(inbox[c])
  BY Lengths, UsedIs DEF IInv, InboxInv
<1>2. \A m, n \in Nat : n <= m => m - n \in Nat /\ m - n <= m
  OBVIOUS
<1>3. QED BY <1>1, <1>2

\* A client that sends does not change what has been read.
LEMMA SendHalts ==
    ASSUME IInv, HaltInv, NEW c \in Clients, NEW request \in Requests, Send(c, request),
           managed' = managed
    PROVE  HaltInv' /\ asked'[c] # asked[c]
<1>0. /\ Len(asked[c]) < MaxRequests
      /\ asked' = [asked EXCEPT ![c] = Append(asked[c], request)]
      /\ inbox' = [inbox EXCEPT ![c] = Append(inbox[c], request)]
      /\ UNCHANGED <<pc, answer, broken>>
  BY DEF Send
<1>1. /\ Len(asked[c]) \in Nat /\ Len(inbox[c]) \in Nat
      /\ Len(asked'[c]) = Len(asked[c]) + 1 /\ Len(inbox'[c]) = Len(inbox[c]) + 1
      /\ \A i \in 1 .. Len(asked[c]) : asked'[c][i] = asked[c][i]
      /\ \A d \in Clients \ {c} : asked'[d] = asked[d] /\ inbox'[d] = inbox[d]
  BY <1>0, AppendLemma DEF IInv, TypeOK
<1>2. \A d \in Clients : used'[d] = used[d]
  <2>1. used[c] = Len(asked[c]) - Len(inbox[c]) /\ used'[c] = Len(asked'[c]) - Len(inbox'[c])
    BY UsedIs, UsedIsNext
  <2>2. \A d \in Clients \ {c} : used'[d] = used[d]
    BY <1>1, UsedIs, UsedIsNext
  <2>3. used'[c] = used[c]
    BY <1>1, <2>1
  <2>4. QED BY <2>2, <2>3
<1>3. \A d \in Clients : Len(asked'[d]) <= MaxRequests
  <2>1. Len(asked'[c]) <= MaxRequests
    BY <1>0, <1>1, BoundAssumption
  <2>2. QED BY <1>1, <2>1 DEF HaltInv
<1>4. ShutdownRead' <=> ShutdownRead
  <2>1. \A d \in Clients, i \in 1 .. MaxRequests : i <= used[d] => asked'[d][i] = asked[d][i]
    <3>1. \A i \in 1 .. MaxRequests : i <= used[c] => i \in 1 .. Len(asked[c])
      BY UsedSent, BoundAssumption
    <3>2. QED BY <1>1, <3>1
  <2>2. MeantForIt' = MeantForIt
    BY DEF MeantForIt
  <2>3. QED BY <1>2, <2>1, <2>2, ReadIs, ReadIsNext
<1>5. asked'[c] # asked[c]
  BY <1>1
<1>6. QED BY <1>0, <1>3, <1>4, <1>5 DEF HaltInv, Ending

\* The answer that the server has after a read tells whether it was a shutdown.
LEMMA ReadHalts ==
    ASSUME IInv, HaltInv, Read, managed' = managed
    PROVE  HaltInv'
<1> DEFINE c == current
           request == Head(inbox[c])
<1>0. /\ pc = "read" /\ inbox[c] # <<>> /\ answer' = Says(managed, request)
      /\ inbox' = [inbox EXCEPT ![c] = Tail(inbox[c])] /\ pc' = "write"
      /\ UNCHANGED <<asked, broken>>
  BY AnswerSays DEF Read, Readable
<1>1. c \in Clients /\ ~ ShutdownRead
  BY <1>0 DEF IInv, CurrentInv, Serving, HaltInv, Ending
<1>2. /\ request = inbox[c][1]
      /\ Len(inbox[c]) \in Nat \ {0} /\ Len(inbox'[c]) = Len(inbox[c]) - 1
      /\ \A d \in Clients \ {c} : inbox'[d] = inbox[d]
  BY <1>0, <1>1, TailLemma DEF IInv, TypeOK
<1>3. /\ request = asked[c][used[c] + 1]
      /\ used'[c] = used[c] + 1 /\ used[c] + 1 <= Len(asked[c])
      /\ \A d \in Clients \ {c} : used'[d] = used[d]
  <2>1. /\ Len(asked[c]) \in Nat /\ used[c] = Len(asked[c]) - Len(inbox[c])
        /\ used'[c] = Len(asked[c]) - Len(inbox'[c])
    BY <1>0, <1>1, Lengths, UsedIs, UsedIsNext DEF IInv
  <2>2. used'[c] = used[c] + 1 /\ used[c] + 1 <= Len(asked[c])
    BY <1>2, <2>1
  <2>3. inbox[c][1] = asked[c][used[c] + 1]
    BY <1>1, <1>2 DEF IInv, InboxInv
  <2>4. \A d \in Clients \ {c} : used'[d] = used[d]
    BY <1>0, <1>2 DEF used
  <2>5. QED BY <1>2, <2>2, <2>3, <2>4
<1>4. used[c] + 1 \in 1 .. MaxRequests
  <2>1. used[c] \in Nat /\ Len(asked[c]) \in Nat /\ Len(asked[c]) <= MaxRequests
    BY <1>1, UsedSent DEF HaltInv
  <2>2. QED BY <1>3, <2>1, BoundAssumption
<1> HIDE DEF request
<1>5. ShutdownRead' <=> request \in MeantForIt
  <2>1. MeantForIt' = MeantForIt /\ asked' = asked
    BY <1>0 DEF MeantForIt
  <2>2. \A i \in 1 .. MaxRequests : i <= used[c] + 1 => i <= used[c] \/ i = used[c] + 1
    BY <1>1, UsedSent, BoundAssumption
  <2>3. \A d \in Clients, i \in 1 .. MaxRequests : i <= used[d] => asked[d][i] \notin MeantForIt
    BY <1>1, ReadIs
  <2>4. used[c] + 1 <= used[c] + 1
    BY <1>1, UsedSent
  <2>5. request \in MeantForIt => ShutdownRead'
    BY <1>1, <1>3, <1>4, <2>1, <2>4, ReadIsNext
  <2>6. ASSUME ShutdownRead'
        PROVE  request \in MeantForIt
    <3>1. PICK d \in Clients, i \in 1 .. MaxRequests : i <= used'[d] /\ asked[d][i] \in MeantForIt
      BY <2>1, <2>6, ReadIsNext
    <3>2. d = c
      BY <1>3, <2>3, <3>1
    <3>3. i = used[c] + 1
      BY <1>3, <2>2, <2>3, <3>1, <3>2
    <3>4. QED BY <1>3, <3>1, <3>2, <3>3
  <2>7. QED BY <2>5, <2>6
<1>6. answer' = "shutting_down" <=> request \in MeantForIt
  BY <1>0, MeantSays
<1>7. QED
  BY <1>0, <1>5, <1>6 DEF HaltInv, Ending

\* Nothing else of what the server or its clients do changes what has been read.
LEMMA OtherHalts ==
    ASSUME IInv, HaltInv, [Next]_vars, ~ Read,
           ~ \E c \in Clients, request \in Requests : Send(c, request)
    PROVE  HaltInv' /\ inbox' = inbox
<1>0. \/ UNCHANGED vars
      \/ Accept \/ ReadFails \/ ReadEnds \/ ReadExpires \/ Write \/ Close
      \/ AcceptAborted \/ AcceptFails \/ WriteFails
      \/ \E c \in Clients : Connect(c) \/ Leave(c)
  BY DEF Next, ServerStep
<1>1. managed' = managed
  BY DEF Next, vars
<1>2. ASSUME UNCHANGED <<inbox, asked>>
      PROVE  (ShutdownRead' <=> ShutdownRead) /\ asked' = asked
  BY <1>1, <1>2 DEF ShutdownRead, MeantForIt
<1>3. ASSUME UNCHANGED <<inbox, asked, pc, answer>>, broken => broken'
      PROVE  HaltInv' /\ inbox' = inbox
  BY <1>2, <1>3 DEF HaltInv, Ending
<1>4. ASSUME UNCHANGED <<inbox, asked>>, ~ Ending, pc # "stopped", pc # "failed",
             pc' \in {"accept", "read"}
      PROVE  HaltInv' /\ inbox' = inbox
  BY <1>2, <1>4 DEF HaltInv, Ending
<1>5. ASSUME EndsAs("failed"), broken'
      PROVE  HaltInv' /\ inbox' = inbox
  BY <1>2, <1>5 DEF EndsAs, HaltInv, Ending
<1>6. ASSUME EndsAs("stopped"), Ending
      PROVE  HaltInv' /\ inbox' = inbox
  BY <1>2, <1>6 DEF EndsAs, HaltInv, Ending
<1>7. ASSUME NextConnection, ~ Ending, pc \in Serving
      PROVE  HaltInv' /\ inbox' = inbox
  BY <1>4, <1>7 DEF NextConnection, Serving
<1>8. ASSUME StreamFails, ~ Ending, pc \in Serving
      PROVE  HaltInv' /\ inbox' = inbox
  BY <1>5, <1>7, <1>8 DEF StreamFails
<1>9. CASE UNCHANGED vars \/ \E c \in Clients : Connect(c) \/ Leave(c)
  BY <1>3, <1>9 DEF vars, clientVars, Connect, Leave
<1>10. CASE Accept
  BY <1>4, <1>10 DEF Accept, Ending, clientVars
<1>11. CASE AcceptAborted \/ AcceptFails
  BY <1>3, <1>5, <1>11 DEF AcceptAborted, AcceptFails, clientVars
<1>12. CASE ReadFails \/ ReadEnds \/ ReadExpires
  BY <1>7, <1>8, <1>12 DEF ReadFails, ReadEnds, ReadExpires, Ending, Serving
<1>13. CASE Write
  <2>1. UNCHANGED <<inbox, asked, answer, broken>> /\ pc = "write" /\ pc' = "close"
    BY <1>13 DEF Write, clientVars
  <2>2. QED BY <1>2, <2>1 DEF HaltInv, Ending
<1>14. CASE WriteFails
  <2>1. CASE managed /\ answer = "shutting_down"
    BY <1>6, <1>14, <2>1 DEF WriteFails, Ending
  <2>2. CASE ~ (managed /\ answer = "shutting_down")
    <3>1. StreamFails /\ pc \in Serving
      BY <1>14, <2>2 DEF WriteFails, Serving
    <3>2. CASE ~ managed
      BY <1>5, <3>1, <3>2 DEF StreamFails
    <3>3. CASE managed
      BY <1>8, <2>2, <3>1, <3>3 DEF Ending
    <3>4. QED BY <3>2, <3>3
  <2>3. QED BY <2>1, <2>2
<1>15. CASE Close
  <2>1. CASE answer = "shutting_down"
    BY <1>6, <1>15, <2>1 DEF Close, Ending
  <2>2. CASE answer # "shutting_down" /\ managed
    BY <1>7, <1>15, <2>2 DEF Close, Ending, Serving
  <2>3. CASE answer # "shutting_down" /\ ~ managed
    BY <1>4, <1>15, <2>3 DEF Close, Ending, clientVars
  <2>4. QED BY <2>1, <2>2, <2>3
<1>16. QED
  BY <1>0, <1>9, <1>10, <1>11, <1>12, <1>13, <1>14, <1>15

LEMMA HaltStep ==
    IInv /\ HaltInv /\ [Next]_vars =>
       /\ HaltInv'
       /\ ShutdownRead => inbox' = inbox \/ \E c \in Clients : asked'[c] # asked[c]
<1> SUFFICES ASSUME IInv, HaltInv, [Next]_vars
             PROVE  /\ HaltInv'
                    /\ ShutdownRead => inbox' = inbox \/ \E c \in Clients : asked'[c] # asked[c]
  OBVIOUS
<1>1. managed' = managed
  BY DEF Next, vars
<1>2. CASE Read
  <2>1. ~ ShutdownRead
    BY <1>2 DEF Read, HaltInv, Ending
  <2>2. QED BY <1>1, <1>2, <2>1, ReadHalts
<1>3. CASE \E c \in Clients, request \in Requests : Send(c, request)
  BY <1>1, <1>3, SendHalts
<1>4. CASE ~ Read /\ ~ \E c \in Clients, request \in Requests : Send(c, request)
  BY <1>4, OtherHalts
<1>5. QED BY <1>2, <1>3, <1>4

LEMMA HaltInit == Init => HaltInv
<1> SUFFICES ASSUME Init
             PROVE  HaltInv
  OBVIOUS
<1>1. \A c \in Clients : Len(asked[c]) = 0 /\ Len(inbox[c]) = 0
  BY EmptyLemma DEF Init
<1>2. \A i \in 1 .. MaxRequests : ~ (i <= 0 - 0)
  BY BoundAssumption
<1>3. ~ ShutdownRead
  BY <1>1, <1>2 DEF ShutdownRead
<1>4. 0 <= MaxRequests
  BY BoundAssumption
<1>5. QED BY <1>1, <1>3, <1>4 DEF Init, HaltInv, Ending

\* What EndsAsAsked says of safety: a server stops only if it has read a shutdown that is
\* meant for it, after which it reads nothing else, and fails only with its listener or,
\* the manual one, with a stream.
THEOREM StopsOnlyAsAsked ==
    Spec => /\ [](pc = "stopped" => ShutdownRead)
            /\ [](pc = "failed" => broken)
            /\ [][ShutdownRead => inbox' = inbox \/ \E c \in Clients : asked'[c] # asked[c]]_vars
<1>1. HaltInv => (pc = "stopped" => ShutdownRead) /\ (pc = "failed" => broken)
  BY DEF HaltInv
<1>2. IInv /\ HaltInv /\ [Next]_vars =>
         [ShutdownRead => inbox' = inbox \/ \E c \in Clients : asked'[c] # asked[c]]_vars
  BY HaltStep
<1>3. QED
  BY <1>1, <1>2, HaltStep, HaltInit, InitInv, Inductive, PTL DEF Spec

-----------------------------------------------------------------------------
(***************************************************************************)
(* The same two servers under Windows, where a connection is an instance   *)
(* of the name of the pipe.                                                *)
(***************************************************************************)
CONSTANTS Services, Manuals, None, Free
VARIABLES step, client, pending, serving

Pipe == INSTANCE PipeInstances WITH pc <- step

\* What a server has, by what it does.
HasInstances(s) ==
    /\ step[s] \in {"off", "create"} => pending[s] = None /\ serving[s] = None
    /\ step[s] = "connect" => pending[s] # None /\ serving[s] = None
    /\ step[s] = "extend" => s \in Services /\ pending[s] = None /\ serving[s] # None
    /\ step[s] = "handle" => serving[s] # None /\ (pending[s] = None <=> s \in Manuals)

PipeInv ==
    /\ Pipe!TypeOK
    /\ Pipe!InstancesMatch
    /\ \A s \in Pipe!Servers : HasInstances(s)

\* The name is there as long as a managed service serves, between two clients too.
LEMMA NameIsThere ==
    PipeInv => \A s \in Services : Pipe!Serves(s) => Pipe!Exists
BY DEF PipeInv, HasInstances, Pipe!Serves, Pipe!Exists, Pipe!Servers, Pipe!TypeOK

\* A server that ends, or dies, gives all of its instances back at once.
LEMMA ClosingKeeps ==
    ASSUME Pipe!ServersAssumption, PipeInv, NEW s \in Pipe!Servers, Pipe!Ends(s)
    PROVE  PipeInv'
<1> USE DEF Pipe!Ends, Pipe!Goto, Pipe!Disconnect
<1>1. Pipe!TypeOK'
  BY DEF PipeInv, Pipe!TypeOK
<1>2. (\A t \in Pipe!Servers : HasInstances(t))'
  BY DEF PipeInv, Pipe!TypeOK, HasInstances
<1>3. Pipe!InstancesMatch'
  BY DEF PipeInv, Pipe!TypeOK, Pipe!InstancesMatch, Pipe!Serves, Pipe!Servers,
         Pipe!ServersAssumption
<1>4. QED BY <1>1, <1>2, <1>3 DEF PipeInv

LEMMA ServerKeeps ==
    ASSUME Pipe!ServersAssumption, PipeInv, NEW s \in Pipe!Servers,
           Pipe!Start(s) \/ Pipe!ServerStep(s) \/ Pipe!HandleEnds(s) \/ Pipe!Fails(s)
    PROVE  PipeInv'
<1> USE DEF PipeInv, HasInstances, Pipe!TypeOK, Pipe!InstancesMatch, Pipe!Serves, Pipe!Servers,
            Pipe!ServersAssumption, Pipe!Goto
<1>1. CASE Pipe!Start(s)
  BY <1>1 DEF Pipe!Start
<1>2. CASE Pipe!Create(s)
  <2>1. s \in Services => \A t \in Services : ~ Pipe!Serves(t)
    BY <1>2, NameIsThere DEF Pipe!Create
  <2>2. QED BY <1>2, <2>1 DEF Pipe!Create
<1>3. CASE Pipe!CreateFails(s) \/ Pipe!HandleEnds(s) \/ Pipe!Fails(s)
  <2>1. Pipe!Ends(s)
    BY <1>3 DEF Pipe!CreateFails, Pipe!HandleEnds, Pipe!Fails
  <2>2. QED BY <2>1, ClosingKeeps
<1>4. CASE Pipe!Connect(s)
  BY <1>4 DEF Pipe!Connect
<1>5. CASE Pipe!ConnectBroken(s)
  <2>1. CASE s \in Services
    BY <1>5, <2>1 DEF Pipe!ConnectBroken, Pipe!Disconnect
  <2>2. CASE s \notin Services
    BY <1>5, <2>2, ClosingKeeps DEF Pipe!ConnectBroken
  <2>3. QED BY <2>1, <2>2
<1>6. CASE Pipe!Extend(s)
  BY <1>6 DEF Pipe!Extend
<1>7. CASE Pipe!Handle(s)
  BY <1>7 DEF Pipe!Handle, Pipe!Disconnect
<1>8. QED BY <1>1, <1>2, <1>3, <1>4, <1>5, <1>6, <1>7 DEF Pipe!ServerStep

LEMMA ClientKeeps ==
    ASSUME Pipe!ServersAssumption, PipeInv, NEW c \in Clients,
           \/ Pipe!Open(c) \/ Pipe!FindsNoName(c) \/ Pipe!Concludes(c) \/ Pipe!GiveUp(c)
           \/ Pipe!Leave(c) \/ \E s \in Pipe!Servers : Pipe!GetsInstance(c, s)
    PROVE  PipeInv'
<1> USE DEF PipeInv, HasInstances, Pipe!TypeOK, Pipe!InstancesMatch, Pipe!Serves, Pipe!Servers,
            Pipe!ServersAssumption
<1>1. CASE \/ Pipe!Open(c) \/ Pipe!FindsNoName(c) \/ Pipe!Concludes(c) \/ Pipe!GiveUp(c)
           \/ Pipe!Leave(c)
  BY <1>1 DEF Pipe!Open, Pipe!FindsNoName, Pipe!Concludes, Pipe!GiveUp, Pipe!Leave
<1>2. CASE \E s \in Pipe!Servers : Pipe!GetsInstance(c, s)
  <2>1. PICK s \in Pipe!Servers : Pipe!GetsInstance(c, s)
    BY <1>2
  <2>2. \A t \in Pipe!Servers : c # pending[t] /\ c # serving[t]
    BY <2>1 DEF Pipe!GetsInstance
  <2>3. QED BY <2>1, <2>2 DEF Pipe!GetsInstance
<1>3. QED BY <1>1, <1>2

LEMMA PipeStep ==
    ASSUME Pipe!ServersAssumption, PipeInv, [Pipe!Next]_(Pipe!vars)
    PROVE  PipeInv' /\ (Pipe!Next => \A c \in Clients : Pipe!NoServiceToBeFound(c))
<1>1. CASE Pipe!Next
  <2>1. PipeInv'
    BY <1>1, ServerKeeps, ClientKeeps DEF Pipe!Next
  <2>2. ASSUME NEW c \in Clients, client[c] # "absent", client'[c] = "absent"
        PROVE  ~ Pipe!Exists
    BY <1>1, <2>2
    DEF Pipe!Next, Pipe!Start, Pipe!ServerStep, Pipe!HandleEnds, Pipe!Fails, Pipe!Create,
        Pipe!CreateFails, Pipe!Connect, Pipe!ConnectBroken, Pipe!Extend, Pipe!Handle, Pipe!Ends,
        Pipe!Disconnect, Pipe!Open, Pipe!FindsNoName, Pipe!Concludes, Pipe!GiveUp, Pipe!Leave,
        Pipe!GetsInstance, PipeInv, Pipe!TypeOK
  <2>3. \A c \in Clients : Pipe!NoServiceToBeFound(c)
    BY <2>2, NameIsThere DEF Pipe!NoServiceToBeFound
  <2>4. QED BY <2>1, <2>3
<1>2. CASE UNCHANGED Pipe!vars
  <2>1. PipeInv'
    BY <1>2 DEF Pipe!vars, PipeInv, HasInstances, Pipe!TypeOK, Pipe!InstancesMatch, Pipe!Serves
  <2>2. \A c \in Clients : Pipe!NoServiceToBeFound(c)
    BY <1>2 DEF Pipe!vars, Pipe!NoServiceToBeFound
  <2>3. QED BY <2>1, <2>2
<1>3. QED BY <1>1, <1>2

LEMMA PipeInitially == Pipe!ServersAssumption /\ Pipe!Init => PipeInv
BY DEF Pipe!Init, PipeInv, HasInstances, Pipe!TypeOK, Pipe!InstancesMatch, Pipe!Serves,
       Pipe!Servers, Pipe!ServersAssumption

\* What ServiceNeverAbsent says of safety: no two managed services have the name together, a
\* client has one instance of one server, and a client is told that there is no such name only
\* when no managed service has it, for any numbers of servers and clients.
THEOREM NameKept ==
    Pipe!ServersAssumption =>
       (Pipe!Spec => /\ [](Pipe!TypeOK /\ Pipe!InstancesMatch)
                     /\ [][\A c \in Clients : Pipe!NoServiceToBeFound(c)]_(Pipe!vars))
<1> SUFFICES ASSUME Pipe!ServersAssumption
             PROVE  Pipe!Spec => /\ [](Pipe!TypeOK /\ Pipe!InstancesMatch)
                                 /\ [][\A c \in Clients : Pipe!NoServiceToBeFound(c)]_(Pipe!vars)
  OBVIOUS
<1>1. Pipe!Init => PipeInv
  BY PipeInitially
<1>2. PipeInv /\ [Pipe!Next]_(Pipe!vars) => PipeInv'
  BY PipeStep
<1>3. PipeInv /\ [Pipe!Next]_(Pipe!vars) =>
         [\A c \in Clients : Pipe!NoServiceToBeFound(c)]_(Pipe!vars)
  BY PipeStep
<1>4. PipeInv => Pipe!TypeOK /\ Pipe!InstancesMatch
  BY DEF PipeInv
<1>5. QED BY <1>1, <1>2, <1>3, <1>4, PTL DEF Pipe!Spec
=============================================================================
