------------------------ MODULE FramedExchangeProofs ------------------------
(***************************************************************************)
(* Theorems of FramedExchange for all limits, buffers, sockets, requests   *)
(* and answers, and for strangers that send any number of bytes.           *)
(***************************************************************************)
EXTENDS FramedExchange, SequenceTheorems, WellFoundedInduction, TLAPS

-----------------------------------------------------------------------------
(***************************************************************************)
(* One read_frame.  Both sides of a connection run it, on variables of     *)
(* their own: what follows is about its state as one value, r before a     *)
(* step and q after it, and about any limit.                               *)
(***************************************************************************)

\* The state in which the server reads the request, and the client the answer.
Request == [pc |-> srvRead, frame |-> srvFrame, chunk |-> srvChunk, taken |-> srvTaken,
            late |-> srvReadLate, sent |-> toServer, peer |-> clientEnd]
Answer == [pc |-> cliRead, frame |-> cliFrame, chunk |-> cliChunk, taken |-> cliTaken,
           late |-> cliLate, sent |-> toClient, peer |-> serverEnd]

IsReader(r) ==
    /\ r.pc \in Rq!Running \union Rq!Results
    /\ r.frame \in Seq(Bytes) /\ r.chunk \in Seq(Bytes) /\ r.sent \in Seq(Bytes)
    /\ r.taken \in 0 .. Len(r.sent)
    /\ r.late \in BOOLEAN
    /\ r.peer \in {"open", "closed", "broken"}

Begins(r) ==
    /\ r.pc = "top" /\ r.taken = 0 /\ r.late = FALSE /\ r.peer = "open"
    /\ r.frame = <<>> /\ r.chunk = <<>> /\ r.sent = <<>>

Room(limit, r) ==
    IF BufferBytes < limit - Len(r.frame) THEN BufferBytes ELSE limit - Len(r.frame)

Kept(r) ==
    r.frame \o (IF Rq!HasNewline(r.chunk) THEN Rq!ThroughNewline(r.chunk) ELSE r.chunk)

Verdict(limit, r) ==
    IF r.late THEN "timed_out"
    ELSE IF r.chunk = <<>> THEN IF r.frame = <<>> THEN "unexpected_eof" ELSE "truncated"
    ELSE IF Rq!HasNewline(r.chunk) THEN IF Rq!ValidText(Kept(r)) THEN "delivered" ELSE "not_utf8"
    ELSE IF Len(Kept(r)) = limit THEN "oversized" ELSE "top"

\* Its steps, which change nothing of the connection: another turn or an end without
\* a verdict, a read, and the verdict on what was read.
Turns(r, q) ==
    /\ r.pc \in {"top", "reading"} /\ q.pc \in {"reading", "timed_out", "failed"}
    /\ q.pc = "reading" => r.pc = "top"
    /\ q.frame = r.frame /\ q.chunk = r.chunk /\ q.taken = r.taken
    /\ q.late = r.late /\ q.sent = r.sent /\ q.peer = r.peer

Reads(limit, r, q) ==
    /\ r.pc = "reading" /\ q.pc = "examine"
    /\ \E n \in 0 .. Room(limit, r) :
          /\ n <= Len(r.sent) - r.taken
          /\ n = 0 => Room(limit, r) = 0 \/ (r.peer = "closed" /\ r.taken = Len(r.sent))
          /\ q.chunk = SubSeq(r.sent, r.taken + 1, r.taken + n)
          /\ q.taken = r.taken + n
    /\ q.frame = r.frame /\ q.late = r.late /\ q.sent = r.sent /\ q.peer = r.peer

Examines(limit, r, q) ==
    /\ r.pc = "examine" /\ q.pc = Verdict(limit, r)
    /\ q.frame = IF r.late THEN r.frame ELSE Kept(r)
    /\ q.chunk = <<>> /\ q.taken = r.taken
    /\ q.late = r.late /\ q.sent = r.sent /\ q.peer = r.peer

ReaderActs(limit, r, q) == Turns(r, q) \/ Reads(limit, r, q) \/ Examines(limit, r, q)

\* What the other side may do: nothing more once its half of the connection is shut.
PeerActs(r, q) ==
    /\ q.pc = r.pc /\ q.frame = r.frame /\ q.chunk = r.chunk /\ q.taken = r.taken
    /\ q.late \in BOOLEAN
    /\ \/ q.sent = r.sent /\ q.peer = r.peer
       \/ r.peer = "open" /\ q.sent = r.sent /\ q.peer \in {"closed", "broken"}
       \/ r.peer = "open" /\ q.peer = r.peer /\ \E b \in Bytes : q.sent = Append(r.sent, b)

\* The first newline of s is its byte k.
FirstAt(s, k) == k \in 1 .. Len(s) /\ s[k] = Newline /\ \A i \in 1 .. k - 1 : s[i] # Newline

\* What is kept and what was read last are the first bytes that the peer sent, and
\* the kept ones have no newline and leave room for more.
KeptInv(limit, r) ==
    /\ Len(r.frame) + Len(r.chunk) = r.taken /\ Len(r.frame) < limit
    /\ \A i \in 1 .. Len(r.frame) : r.frame[i] = r.sent[i] /\ r.frame[i] # Newline
    /\ \A i \in 1 .. Len(r.chunk) : r.chunk[i] = r.sent[Len(r.frame) + i]
    /\ r.pc # "examine" => r.chunk = <<>>
    /\ r.pc = "examine" /\ r.chunk = <<>> => r.peer = "closed" /\ r.taken = Len(r.sent)

Delivered(limit, r) == r.pc = "delivered" =>
    /\ Rq!HasNewline(r.sent) /\ r.frame = Rq!ThroughNewline(r.sent)
    /\ Len(r.frame) <= limit /\ Rq!ValidText(r.frame)

Refused(limit, r) ==
    /\ r.pc = "oversized" =>
          Len(r.sent) >= limit /\ ~ Rq!HasNewline(SubSeq(r.sent, 1, limit))
    /\ r.pc = "truncated" => r.peer = "closed" /\ r.sent # <<>> /\ ~ Rq!HasNewline(r.sent)
    /\ r.pc = "unexpected_eof" => r.peer = "closed" /\ r.sent = <<>>
    /\ r.taken <= limit
    /\ r.pc = "reading" => Room(limit, r) > 0

ReadInv(limit, r) ==
    /\ IsReader(r)
    /\ r.pc \in Rq!Running => KeptInv(limit, r)
    /\ Delivered(limit, r)
    /\ Refused(limit, r)

Text == FramedText(request)

PrefixOf(s, t) == Len(s) <= Len(t) /\ \A i \in 1 .. Len(s) : s[i] = t[i]

\* An end of the connection is open as long as someone is there.
EndsInv ==
    /\ clientEnd = "open" <=> client \in {"ready", "writing", "reading", "stranger"}
    /\ serverEnd = "open" <=> server \in {"backlog", "reading", "writing", "stranger"}

\* What a client has sent is the beginning of its request, and it sends only one
\* that fits.
ClientInv == client \notin Stranger =>
    /\ PrefixOf(toServer, Text)
    /\ client \in {"ready", "too_large"} => toServer = <<>>
    /\ toServer # <<>> \/ client \notin {"ready", "too_large", "killed"} =>
          Len(Text) <= MaxRequest
    /\ client = "writing" => toServer # Text
    /\ client = "reading" => toServer = Text
    /\ client \in {"ready", "writing"} => cliRead = "top"
    /\ client = "too_large" => Len(Text) > MaxRequest

\* How a client that has read ends.
ResultInv ==
    /\ client = "answered" => cliRead = "delivered"
    /\ client \in {"timed_out", "failed"} => cliRead # "delivered"
    /\ client = "empty" => cliRead = "delivered" /\ cliFrame \in EmptyLines

\* The handler was given what was read, and what has been sent is the beginning of
\* its answer.
ServerInv ==
    /\ server \in {"backlog", "reading", "rejected"} \union Stranger =>
          executed = Nothing /\ response = Nothing
    /\ server \in {"backlog", "reading", "rejected"} => toClient = <<>>
    /\ server \in {"writing", "written", "unwritten"} =>
          /\ srvRead = "delivered" /\ executed = srvFrame
          /\ response \in Responses /\ PrefixOf(toClient, response)

IInv ==
    /\ TypeOK
    /\ ReadInv(MaxRequest, Request)
    /\ ReadInv(MaxResponse, Answer)
    /\ EndsInv /\ ClientInv /\ ResultInv /\ ServerInv

-----------------------------------------------------------------------------
LEMMA LeastNumber ==
  ASSUME NEW T \in SUBSET Nat, T # {}
  PROVE  \E n \in T : \A m \in T : n <= m
<1> DEFINE R == OpToRel(<, Nat)
<1>1. IsWellFoundedOn(R, Nat)
  BY NatLessThanWellFounded
<1>2. PICK n \in T : \A m \in T : <<m, n>> \notin R
  <2> HIDE DEF R
  <2>1. QED BY <1>1, WFMin
<1>3. \A m \in T : ~ (m < n)
  BY <1>2 DEF OpToRel
<1>4. QED BY <1>3

\* A text with a newline has a first one.
LEMMA FirstExists ==
  ASSUME NEW s \in Seq(Bytes), Rq!HasNewline(s)
  PROVE  \E k \in Nat : FirstAt(s, k)
<1> DEFINE T == {i \in 1 .. Len(s) : s[i] = Newline}
<1>1. T \in SUBSET Nat /\ T # {}
  BY DEF Rq!HasNewline, Rq!SetOfBytes
<1>2. PICK k \in T : \A m \in T : k <= m
  BY <1>1, LeastNumber
<1>3. \A i \in 1 .. k - 1 : s[i] # Newline
  <2>1. SUFFICES ASSUME NEW i \in 1 .. k - 1, s[i] = Newline
                 PROVE  FALSE
    OBVIOUS
  <2>2. k \in 1 .. Len(s) /\ Len(s) \in Nat
    BY <1>2
  <2>3. i \in T /\ i < k
    BY <2>1, <2>2
  <2>4. k <= i
    BY <1>2, <2>3
  <2>5. QED BY <2>2, <2>3, <2>4
<1>4. QED BY <1>2, <1>3 DEF FirstAt

\* Rq!ThroughNewline takes the text up to its first newline.
LEMMA ThroughFirst ==
  ASSUME NEW s \in Seq(Bytes), NEW k \in Nat, FirstAt(s, k)
  PROVE  Rq!ThroughNewline(s) = SubSeq(s, 1, k)
<1> DEFINE P(i) == i \in DOMAIN s /\ s[i] = Newline /\ ~ Rq!HasNewline(SubSeq(s, 1, i - 1))
<1>0. k \in 1 .. Len(s) /\ DOMAIN s = 1 .. Len(s) /\ Len(s) \in Nat
  BY DEF FirstAt
<1>1. \A i \in 1 .. Len(s) : Rq!HasNewline(SubSeq(s, 1, i - 1))
                             <=> \E j \in 1 .. i - 1 : s[j] = Newline
  <2>1. SUFFICES ASSUME NEW i \in 1 .. Len(s)
                 PROVE  Rq!HasNewline(SubSeq(s, 1, i - 1)) <=> \E j \in 1 .. i - 1 : s[j] = Newline
    OBVIOUS
  <2>2. /\ DOMAIN SubSeq(s, 1, i - 1) = 1 .. i - 1
        /\ \A j \in 1 .. i - 1 : SubSeq(s, 1, i - 1)[j] = s[j]
    OBVIOUS
  <2>3. QED BY <2>2 DEF Rq!HasNewline, Rq!SetOfBytes
<1>2. P(k)
  BY <1>0, <1>1 DEF FirstAt
<1>3. \A i : P(i) => i = k
  <2>1. SUFFICES ASSUME NEW i, P(i), i # k
                 PROVE  FALSE
    OBVIOUS
  <2>2. i \in 1 .. Len(s) /\ \A j \in 1 .. i - 1 : s[j] # Newline
    BY <1>0, <1>1, <2>1
  <2>3. i < k \/ k < i
    BY <1>0, <2>1, <2>2
  <2>4. CASE i < k
    BY <1>0, <2>1, <2>2, <2>4 DEF FirstAt
  <2>5. CASE k < i
    BY <1>0, <2>2, <2>5 DEF FirstAt
  <2>6. QED BY <2>3, <2>4, <2>5
<1>4. (CHOOSE i \in DOMAIN s : s[i] = Newline /\ ~ Rq!HasNewline(SubSeq(s, 1, i - 1))) = k
  BY <1>2, <1>3
<1>5. QED BY <1>4 DEF Rq!ThroughNewline

\* What is sent after a newline changes neither the first line nor that there is one.
LEMMA FirstLineStays ==
  ASSUME NEW s \in Seq(Bytes), NEW t \in Seq(Bytes), Len(s) <= Len(t),
         \A i \in 1 .. Len(s) : s[i] = t[i], Rq!HasNewline(s)
  PROVE  Rq!HasNewline(t) /\ Rq!ThroughNewline(t) = Rq!ThroughNewline(s)
<1>1. PICK k \in Nat : FirstAt(s, k)
  BY FirstExists
<1>2. FirstAt(t, k) /\ k \in 1 .. Len(s)
  <2>1. /\ k \in 1 .. Len(s) /\ Len(s) \in Nat /\ Len(t) \in Nat
        /\ s[k] = Newline /\ \A i \in 1 .. k - 1 : s[i] # Newline
    BY <1>1 DEF FirstAt
  <2>2. k \in 1 .. Len(t) /\ t[k] = Newline
    BY <2>1
  <2>3. \A i \in 1 .. k - 1 : i \in 1 .. Len(s)
    BY <2>1
  <2>4. QED BY <2>1, <2>2, <2>3 DEF FirstAt
<1>3. SubSeq(s, 1, k) = SubSeq(t, 1, k)
  BY <1>2
<1>4. Rq!HasNewline(t)
  BY <1>2 DEF FirstAt, Rq!HasNewline, Rq!SetOfBytes
<1>5. QED BY <1>1, <1>2, <1>3, <1>4, ThroughFirst

\* No newline among the first bytes of a text, in terms of its bytes.
LEMMA NoNewline ==
  ASSUME NEW s \in Seq(Bytes), NEW n \in 0 .. Len(s)
  PROVE  ~ Rq!HasNewline(SubSeq(s, 1, n)) <=> \A i \in 1 .. n : s[i] # Newline
<1>1. /\ DOMAIN SubSeq(s, 1, n) = 1 .. n
      /\ \A i \in 1 .. n : SubSeq(s, 1, n)[i] = s[i]
  OBVIOUS
<1>2. QED BY <1>1 DEF Rq!HasNewline, Rq!SetOfBytes

LEMMA NoNewlineAtAll ==
  ASSUME NEW s \in Seq(Bytes)
  PROVE  ~ Rq!HasNewline(s) <=> \A i \in 1 .. Len(s) : s[i] # Newline
BY DEF Rq!HasNewline, Rq!SetOfBytes

-----------------------------------------------------------------------------
\* A reader has taken at most what was sent.
LEMMA ReaderIs ==
  ASSUME NEW r, IsReader(r)
  PROVE  /\ Len(r.frame) \in Nat /\ Len(r.chunk) \in Nat /\ Len(r.sent) \in Nat
         /\ r.taken \in Nat /\ r.taken <= Len(r.sent)
<1>1. r.frame \in Seq(Bytes) /\ r.chunk \in Seq(Bytes) /\ r.sent \in Seq(Bytes)
  BY DEF IsReader
<1>2. r.taken \in 0 .. Len(r.sent)
  BY DEF IsReader
<1>3. QED BY <1>1, <1>2

\* Places in a text of two parts, one of a and one of c bytes, that begin one of n bytes.
LEMMA Places ==
  ASSUME NEW a \in Nat, NEW c \in Nat, NEW n \in Nat, NEW t \in Nat, t = a + c, t <= n
  PROVE  /\ \A i \in 1 .. a : i \in 1 .. n
         /\ \A i \in 1 .. c : a + i \in 1 .. n /\ a + i <= t /\ a + i \in Nat
         /\ \A i \in 1 .. t : i > a => i - a \in 1 .. c /\ a + (i - a) = i
OBVIOUS

\* A place in the second of two parts.
LEMMA PlaceAfter ==
  ASSUME NEW a \in Nat, NEW c \in Nat, NEW i \in 1 .. a + c, i > a
  PROVE  \E j \in 1 .. c : a + j = i
<1>1. i - a \in 1 .. c /\ a + (i - a) = i
  OBVIOUS
<1>2. QED BY <1>1

\* The bytes of a text of two parts.
LEMMA Joined ==
  ASSUME NEW f \in Seq(Bytes), NEW c \in Seq(Bytes)
  PROVE  /\ f \o c \in Seq(Bytes) /\ Len(f \o c) = Len(f) + Len(c)
         /\ \A i \in 1 .. Len(f) : (f \o c)[i] = f[i]
         /\ \A j \in 1 .. Len(c) : (f \o c)[Len(f) + j] = c[j]
OBVIOUS

\* Nothing is taken before the first read.
LEMMA BeginsToRead ==
  ASSUME NEW limit \in Nat \ {0}, NEW r, Begins(r)
  PROVE  ReadInv(limit, r)
<1>1. Len(<<>>) = 0 /\ <<>> \in Seq(Bytes)
  OBVIOUS
<1>2. IsReader(r)
  <2>1. r.frame \in Seq(Bytes) /\ r.chunk \in Seq(Bytes) /\ r.sent \in Seq(Bytes)
    BY <1>1 DEF Begins
  <2>2. Len(r.sent) = 0
    BY <1>1 DEF Begins
  <2>3. r.taken = 0 /\ r.late \in BOOLEAN /\ r.peer = "open" /\ r.pc = "top"
    BY DEF Begins
  <2>4. r.taken \in 0 .. Len(r.sent)
    BY <2>2, <2>3
  <2>5. QED BY <2>1, <2>3, <2>4 DEF IsReader, Rq!Running
<1>3. KeptInv(limit, r)
  BY <1>1 DEF Begins, KeptInv
<1>4. Delivered(limit, r) /\ Refused(limit, r)
  BY DEF Begins, Delivered, Refused, Room
<1>5. QED BY <1>2, <1>3, <1>4 DEF ReadInv

\* The other side sends or ends: the first line, once it is there, stays what it is,
\* and nothing comes after the end.
LEMMA PeerKeeps ==
  ASSUME NEW limit \in Nat \ {0}, NEW r, NEW q, ReadInv(limit, r), PeerActs(r, q)
  PROVE  ReadInv(limit, q)
<1>1. /\ q.pc = r.pc /\ q.frame = r.frame /\ q.chunk = r.chunk /\ q.taken = r.taken
      /\ q.late \in BOOLEAN /\ IsReader(r)
  BY DEF PeerActs, ReadInv
<1>2. /\ q.sent \in Seq(Bytes) /\ Len(r.sent) <= Len(q.sent) /\ Len(r.sent) \in Nat
      /\ \A i \in 1 .. Len(r.sent) : q.sent[i] = r.sent[i]
      /\ q.peer \in {"open", "closed", "broken"}
      /\ r.peer = "closed" => q.peer = "closed" /\ q.sent = r.sent
  <2>1. r.sent \in Seq(Bytes) /\ Len(r.sent) \in Nat /\ r.peer \in {"open", "closed", "broken"}
    BY <1>1 DEF IsReader
  <2>2. CASE (q.sent = r.sent /\ q.peer = r.peer)
    BY <2>1, <2>2
  <2>3. CASE r.peer = "open" /\ q.sent = r.sent /\ q.peer \in {"closed", "broken"}
    BY <2>1, <2>3
  <2>4. ASSUME NEW b \in Bytes, q.sent = Append(r.sent, b), r.peer = "open", q.peer = r.peer
        PROVE  /\ q.sent \in Seq(Bytes) /\ Len(r.sent) <= Len(q.sent)
               /\ \A i \in 1 .. Len(r.sent) : q.sent[i] = r.sent[i]
    BY <2>1, <2>4
  <2>5. QED BY <2>1, <2>2, <2>3, <2>4 DEF PeerActs
<1>3. IsReader(q)
  BY <1>1, <1>2 DEF IsReader
<1>4. ASSUME KeptInv(limit, r)
      PROVE  KeptInv(limit, q)
  <2>1. /\ Len(r.frame) \in Nat /\ Len(r.chunk) \in Nat /\ Len(r.sent) \in Nat
        /\ r.taken \in Nat /\ r.taken <= Len(r.sent)
    BY <1>1, ReaderIs
  <2>2. /\ \A i \in 1 .. Len(r.frame) : i \in 1 .. Len(r.sent)
        /\ \A i \in 1 .. Len(r.chunk) : Len(r.frame) + i \in 1 .. Len(r.sent)
    <3>1. Len(r.frame) + Len(r.chunk) = r.taken
      BY <1>4 DEF KeptInv
    <3>2. QED BY <2>1, <3>1, Places
  <2>3. /\ \A i \in 1 .. Len(r.frame) : q.sent[i] = r.sent[i]
        /\ \A i \in 1 .. Len(r.chunk) : q.sent[Len(r.frame) + i] = r.sent[Len(r.frame) + i]
    BY <1>2, <2>2
  <2>4. QED BY <1>1, <1>2, <1>4, <2>2, <2>3 DEF KeptInv
<1>5. Delivered(limit, q)
  <2>1. SUFFICES ASSUME r.pc = "delivered"
                 PROVE  Delivered(limit, q)
    BY <1>1 DEF Delivered
  <2>2. /\ Rq!HasNewline(r.sent) /\ r.frame = Rq!ThroughNewline(r.sent)
        /\ Len(r.frame) <= limit /\ Rq!ValidText(r.frame)
    BY <2>1 DEF ReadInv, Delivered
  <2>3. Rq!HasNewline(q.sent) /\ Rq!ThroughNewline(q.sent) = Rq!ThroughNewline(r.sent)
    BY <1>1, <1>2, <2>2, FirstLineStays DEF IsReader
  <2>4. QED BY <1>1, <2>2, <2>3 DEF Delivered
<1>6. Refused(limit, q)
  <2>1. Refused(limit, r)
    BY DEF ReadInv
  <2>2. r.pc = "oversized" => /\ Len(q.sent) >= limit
                            /\ ~ Rq!HasNewline(SubSeq(q.sent, 1, limit))
    <3>1. SUFFICES ASSUME r.pc = "oversized"
                   PROVE  /\ Len(q.sent) >= limit
                          /\ ~ Rq!HasNewline(SubSeq(q.sent, 1, limit))
      OBVIOUS
    <3>2. Len(r.sent) >= limit /\ ~ Rq!HasNewline(SubSeq(r.sent, 1, limit)) /\ limit \in Nat
      BY <2>1, <3>1 DEF Refused
    <3>3. \A i \in 1 .. limit : r.sent[i] # Newline
      <4>1. limit \in 0 .. Len(r.sent) /\ r.sent \in Seq(Bytes)
        BY <1>1, <1>2, <3>2 DEF IsReader
      <4>2. QED BY <3>2, <4>1, NoNewline
    <3>4. limit \in 0 .. Len(q.sent) /\ \A i \in 1 .. limit : q.sent[i] # Newline
      BY <1>2, <3>2, <3>3
    <3>5. QED BY <1>2, <3>4, NoNewline
  <2>3. QED BY <1>1, <1>2, <2>1, <2>2 DEF Refused, Room
<1>7. QED BY <1>1, <1>3, <1>4, <1>5, <1>6 DEF ReadInv

\* A read adds bytes that were sent after those it has, and never more than fit.
LEMMA ReadKeeps ==
  ASSUME NEW limit \in Nat \ {0}, NEW r, NEW q, ReadInv(limit, r), Reads(limit, r, q)
  PROVE  ReadInv(limit, q)
<1>1. /\ r.pc = "reading" /\ q.pc = "examine" /\ KeptInv(limit, r) /\ IsReader(r) /\ r.chunk = <<>>
      /\ q.frame = r.frame /\ q.late = r.late /\ q.sent = r.sent /\ q.peer = r.peer
  BY DEF Reads, ReadInv, Rq!Running, KeptInv
<1>2. PICK n \in 0 .. Room(limit, r) :
         /\ n <= Len(r.sent) - r.taken
         /\ n = 0 => Room(limit, r) = 0 \/ (r.peer = "closed" /\ r.taken = Len(r.sent))
         /\ q.chunk = SubSeq(r.sent, r.taken + 1, r.taken + n)
         /\ q.taken = r.taken + n
  BY DEF Reads
<1>3. /\ Len(r.frame) \in Nat /\ Len(r.sent) \in Nat /\ r.taken = Len(r.frame)
      /\ Len(r.frame) < limit /\ r.taken <= Len(r.sent)
      /\ limit \in Nat /\ BufferBytes \in Nat \ {0}
  BY <1>1, LimitsAssumption DEF KeptInv, IsReader
<1>4. Room(limit, r) > 0 /\ n \in Nat /\ r.taken + n <= limit /\ r.taken + n <= Len(r.sent)
  BY <1>2, <1>3 DEF Room
<1>5. /\ q.chunk \in Seq(Bytes) /\ Len(q.chunk) = n
      /\ \A i \in 1 .. n : q.chunk[i] = r.sent[r.taken + i]
  BY <1>1, <1>2, <1>3, <1>4 DEF IsReader
<1>6. IsReader(q)
  BY <1>1, <1>2, <1>3, <1>4, <1>5 DEF IsReader, Rq!Running
<1>7. KeptInv(limit, q)
  <2>1. \A i \in 1 .. Len(r.frame) : r.frame[i] = r.sent[i] /\ r.frame[i] # Newline
    BY <1>1 DEF KeptInv
  <2>2. Len(q.frame) + Len(q.chunk) = q.taken /\ Len(q.frame) < limit
    BY <1>1, <1>2, <1>3, <1>5
  <2>3. \A i \in 1 .. Len(q.chunk) : q.chunk[i] = r.sent[Len(r.frame) + i]
    BY <1>3, <1>5
  <2>4. q.chunk = <<>> => r.peer = "closed" /\ q.taken = Len(r.sent)
    <3>1. ASSUME q.chunk = <<>>
          PROVE  n = 0
      BY <1>5, <3>1, EmptySeq
    <3>2. QED BY <1>2, <1>3, <1>4, <3>1
  <2>5. QED BY <1>1, <2>1, <2>2, <2>3, <2>4 DEF KeptInv
<1>8. Delivered(limit, q) /\ Refused(limit, q)
  BY <1>1, <1>2, <1>4 DEF Delivered, Refused
<1>9. QED BY <1>1, <1>6, <1>7, <1>8 DEF ReadInv

\* What the two parts, the chunk and the frame, are when they are put together.
LEMMA KeptIs ==
  ASSUME NEW limit, NEW r, ReadInv(limit, r), r.pc = "examine"
  PROVE  /\ Rq!HasNewline(r.chunk) =>
               /\ Rq!HasNewline(r.sent) /\ Kept(r) = Rq!ThroughNewline(r.sent)
               /\ Kept(r) \in Seq(Bytes) /\ Len(Kept(r)) <= r.taken
         /\ ~ Rq!HasNewline(r.chunk) =>
               /\ Kept(r) \in Seq(Bytes) /\ Len(Kept(r)) = r.taken
               /\ \A i \in 1 .. r.taken : Kept(r)[i] = r.sent[i] /\ Kept(r)[i] # Newline
<1>1. KeptInv(limit, r) /\ IsReader(r)
  BY DEF ReadInv, Rq!Running
<1>2. /\ r.frame \in Seq(Bytes) /\ r.chunk \in Seq(Bytes) /\ r.sent \in Seq(Bytes)
      /\ Len(r.frame) \in Nat /\ Len(r.chunk) \in Nat /\ Len(r.sent) \in Nat
      /\ Len(r.frame) + Len(r.chunk) = r.taken /\ r.taken \in Nat /\ r.taken <= Len(r.sent)
  BY <1>1, ReaderIs DEF KeptInv, IsReader
<1>3. /\ \A i \in 1 .. Len(r.frame) : r.frame[i] = r.sent[i] /\ r.frame[i] # Newline
      /\ \A i \in 1 .. Len(r.chunk) : r.chunk[i] = r.sent[Len(r.frame) + i]
  BY <1>1 DEF KeptInv
<1>4. ASSUME Rq!HasNewline(r.chunk)
      PROVE  /\ Rq!HasNewline(r.sent) /\ Kept(r) = Rq!ThroughNewline(r.sent)
             /\ Kept(r) \in Seq(Bytes) /\ Len(Kept(r)) <= r.taken
  <2>1. PICK k \in Nat : FirstAt(r.chunk, k)
    BY <1>2, <1>4, FirstExists
  <2> DEFINE m == Len(r.frame) + k
  <2>2. /\ k \in 1 .. Len(r.chunk) /\ r.chunk[k] = Newline
        /\ \A i \in 1 .. k - 1 : r.chunk[i] # Newline
    BY <2>1 DEF FirstAt
  <2>3. m \in 1 .. Len(r.sent) /\ m <= r.taken /\ m \in Nat
    BY <1>2, <2>2, Places
  <2>4. \A i \in 1 .. m - 1 : r.sent[i] # Newline
    <3>1. SUFFICES ASSUME NEW i \in 1 .. m - 1
                   PROVE  r.sent[i] # Newline
      OBVIOUS
    <3>2. CASE i <= Len(r.frame)
      <4>1. i \in 1 .. Len(r.frame)
        BY <1>2, <2>2, <3>2
      <4>2. QED BY <1>3, <4>1
    <3>3. CASE i > Len(r.frame)
      <4>1. PICK j \in 1 .. k - 1 : Len(r.frame) + j = i
        <5>1. i - Len(r.frame) \in 1 .. k - 1 /\ i = Len(r.frame) + (i - Len(r.frame))
          BY <1>2, <2>2, <3>3
        <5>2. QED BY <5>1
      <4>2. r.chunk[j] # Newline /\ j \in 1 .. Len(r.chunk)
        BY <1>2, <2>2
      <4>3. QED BY <1>3, <4>1, <4>2
    <3>4. QED BY <1>2, <3>2, <3>3
  <2>5. FirstAt(r.sent, m)
    <3>1. r.sent[m] = Newline
      BY <1>3, <2>2
    <3>2. QED BY <2>3, <2>4, <3>1 DEF FirstAt
  <2>6. Kept(r) = r.frame \o SubSeq(r.chunk, 1, k)
    BY <1>2, <1>4, <2>1, ThroughFirst DEF Kept
  <2>7. Kept(r) = SubSeq(r.sent, 1, m)
    <3> DEFINE a == r.frame \o SubSeq(r.chunk, 1, k)
               b == SubSeq(r.sent, 1, m)
    <3>1. a \in Seq(Bytes) /\ b \in Seq(Bytes) /\ Len(a) = m /\ Len(b) = m
      BY <1>2, <2>2, <2>3
    <3>2. \A i \in 1 .. m : a[i] = b[i]
      <4>1. SUFFICES ASSUME NEW i \in 1 .. m
                     PROVE  a[i] = b[i]
        OBVIOUS
      <4>2. b[i] = r.sent[i]
        BY <1>2, <2>3
      <4>3. CASE i <= Len(r.frame)
        <5>1. i \in 1 .. Len(r.frame)
          BY <1>2, <4>3
        <5>2. SubSeq(r.chunk, 1, k) \in Seq(Bytes)
          BY <1>2, <2>2
        <5>3. a[i] = r.frame[i]
          <6> DEFINE f == r.frame
                     c == SubSeq(r.chunk, 1, k)
          <6>1. f \in Seq(Bytes) /\ c \in Seq(Bytes) /\ i \in 1 .. Len(f)
            BY <1>2, <5>1, <5>2
          <6> HIDE DEF f, c
          <6>2. (f \o c)[i] = f[i]
            BY <6>1, Joined
          <6>3. QED BY <6>2 DEF f, c
        <5>4. r.frame[i] = r.sent[i]
          BY <1>3, <5>1
        <5>5. QED BY <4>2, <5>3, <5>4
      <4>4. CASE i > Len(r.frame)
        <5>1. i - Len(r.frame) \in 1 .. k /\ Len(r.frame) + (i - Len(r.frame)) = i
          BY <1>2, <2>2, <4>4
        <5>2. PICK j \in 1 .. k : Len(r.frame) + j = i
          BY <5>1
        <5>3. a[i] = r.chunk[j]
          <6> DEFINE c == SubSeq(r.chunk, 1, k)
          <6>1. c \in Seq(Bytes) /\ Len(c) = k /\ c[j] = r.chunk[j]
            BY <1>2, <2>2, <5>2
          <6> HIDE DEF c
          <6>2. (r.frame \o c)[Len(r.frame) + j] = c[j]
            BY <1>2, <2>2, <5>2, <6>1
          <6>3. QED BY <5>2, <6>1, <6>2 DEF c
        <5>4. r.chunk[j] = r.sent[i]
          <6>1. j \in 1 .. Len(r.chunk)
            BY <1>2, <2>2, <5>2
          <6>2. QED BY <1>3, <5>2, <6>1
        <5>5. QED BY <4>2, <5>3, <5>4
      <4>5. i <= Len(r.frame) \/ i > Len(r.frame)
        BY <1>2, <2>3
      <4>6. QED BY <4>3, <4>4, <4>5
    <3> HIDE DEF a, b
    <3>3. a = b
      BY <3>1, <3>2, SeqEqual
    <3>4. QED BY <2>6, <3>3 DEF a, b
  <2>8. Rq!HasNewline(r.sent)
    BY <1>2, <2>5 DEF FirstAt, Rq!HasNewline, Rq!SetOfBytes
  <2>9. Kept(r) \in Seq(Bytes) /\ Len(Kept(r)) = m
    BY <1>2, <2>3, <2>7
  <2>10. QED BY <1>2, <2>3, <2>5, <2>7, <2>8, <2>9, ThroughFirst
<1>5. ASSUME ~ Rq!HasNewline(r.chunk)
      PROVE  /\ Kept(r) \in Seq(Bytes) /\ Len(Kept(r)) = r.taken
             /\ \A i \in 1 .. r.taken : Kept(r)[i] = r.sent[i] /\ Kept(r)[i] # Newline
  <2>1. Kept(r) = r.frame \o r.chunk /\ \A i \in 1 .. Len(r.chunk) : r.chunk[i] # Newline
    BY <1>2, <1>5, NoNewlineAtAll DEF Kept
  <2>2. /\ Kept(r) \in Seq(Bytes) /\ Len(Kept(r)) = Len(r.frame) + Len(r.chunk)
        /\ \A i \in 1 .. Len(r.frame) : Kept(r)[i] = r.frame[i]
        /\ \A j \in 1 .. Len(r.chunk) : Kept(r)[Len(r.frame) + j] = r.chunk[j]
    <3>1. r.frame \in Seq(Bytes) /\ r.chunk \in Seq(Bytes)
      BY <1>2
    <3> DEFINE f == r.frame
               c == r.chunk
    <3> HIDE DEF f, c
    <3>2. /\ f \o c \in Seq(Bytes) /\ Len(f \o c) = Len(f) + Len(c)
          /\ \A i \in 1 .. Len(f) : (f \o c)[i] = f[i]
          /\ \A j \in 1 .. Len(c) : (f \o c)[Len(f) + j] = c[j]
      <4>1. f \in Seq(Bytes) /\ c \in Seq(Bytes)
        BY <3>1 DEF f, c
      <4>2. QED BY <4>1, Joined
    <3>3. QED BY <2>1, <3>2, Zenon DEF f, c
  <2>3. ASSUME NEW i \in 1 .. Len(r.frame) + Len(r.chunk)
        PROVE  Kept(r)[i] = r.sent[i] /\ Kept(r)[i] # Newline
    <3>1. Len(r.frame) \in Nat /\ Len(r.chunk) \in Nat
      BY <1>2
    <3>2. CASE i <= Len(r.frame)
      <4>1. i \in 1 .. Len(r.frame)
        BY <3>1, <3>2
      <4>2. QED BY <1>3, <2>2, <4>1
    <3>3. CASE i > Len(r.frame)
      <4>1. PICK j \in 1 .. Len(r.chunk) : Len(r.frame) + j = i
        BY <3>1, <3>3, PlaceAfter, Zenon
      <4>2. Kept(r)[Len(r.frame) + j] = r.chunk[j]
        BY <2>2
      <4>3. r.chunk[j] = r.sent[Len(r.frame) + j] /\ r.chunk[j] # Newline
        BY <1>3, <2>1
      <4>4. QED BY <4>1, <4>2, <4>3
    <3>4. QED BY <3>1, <3>2, <3>3
  <2>4. \A i \in 1 .. r.taken : Kept(r)[i] = r.sent[i] /\ Kept(r)[i] # Newline
    <3>1. Len(r.frame) + Len(r.chunk) = r.taken
      BY <1>2
    <3>2. QED BY <2>3, <3>1, Zenon
  <2>5. QED BY <1>2, <2>2, <2>4
<1>6. QED BY <1>4, <1>5

\* The chunk is examined: a verdict on the frame, or the next read.
LEMMA ExamineKeeps ==
  ASSUME NEW limit \in Nat \ {0}, NEW r, NEW q, ReadInv(limit, r), Examines(limit, r, q)
  PROVE  ReadInv(limit, q)
<1>1. /\ r.pc = "examine" /\ KeptInv(limit, r) /\ IsReader(r) /\ q.pc = Verdict(limit, r)
      /\ q.chunk = <<>>
      /\ q.frame = (IF r.late THEN r.frame ELSE Kept(r))
      /\ q.late = r.late /\ q.taken = r.taken /\ q.sent = r.sent /\ q.peer = r.peer
  BY DEF Examines, ReadInv, Rq!Running
<1>2. /\ r.frame \in Seq(Bytes) /\ r.sent \in Seq(Bytes) /\ r.taken \in 0 .. Len(r.sent)
      /\ Len(r.frame) \in Nat /\ Len(r.chunk) \in Nat /\ Len(r.sent) \in Nat
      /\ Len(r.frame) + Len(r.chunk) = r.taken /\ limit \in Nat /\ r.taken <= limit
      /\ r.taken \in Nat
      /\ Len(<<>>) = 0 /\ <<>> \in Seq(Bytes)
  <2>1. Refused(limit, r)
    BY DEF ReadInv
  <2>2. r.frame \in Seq(Bytes) /\ r.sent \in Seq(Bytes) /\ r.taken \in 0 .. Len(r.sent)
    BY <1>1 DEF IsReader
  <2>3. Len(r.frame) + Len(r.chunk) = r.taken /\ r.taken <= limit
    BY <1>1, <2>1 DEF KeptInv, Refused
  <2>4. Len(r.frame) \in Nat /\ Len(r.chunk) \in Nat /\ Len(r.sent) \in Nat /\ r.taken \in Nat
    BY <1>1, ReaderIs
  <2>5. Len(<<>>) = 0 /\ <<>> \in Seq(Bytes)
    OBVIOUS
  <2>6. QED BY <2>2, <2>3, <2>4, <2>5
<1>3. CASE r.late
  <2>1. q.pc = "timed_out" /\ q.frame = r.frame
    BY <1>1, <1>3 DEF Verdict
  <2>2. IsReader(q)
    BY <1>1, <1>2, <2>1 DEF IsReader, Rq!Results
  <2>3. QED BY <1>1, <1>2, <2>1, <2>2
            DEF ReadInv, Rq!Running, Delivered, Refused
<1>4. CASE ~ r.late /\ r.chunk = <<>>
  <2>1. /\ ~ Rq!HasNewline(r.chunk) /\ r.peer = "closed"
        /\ r.taken = Len(r.sent) /\ Len(r.chunk) = 0
    BY <1>1, <1>2, <1>4 DEF KeptInv, Rq!HasNewline, Rq!SetOfBytes
  <2>2. /\ q.frame \in Seq(Bytes) /\ \A i \in 1 .. Len(r.sent) : r.sent[i] # Newline
    BY <1>1, <1>4, <2>1, KeptIs
  <2>3. /\ q.pc \in {"unexpected_eof", "truncated"}
        /\ q.pc = "unexpected_eof" <=> r.frame = <<>>
    BY <1>1, <1>4 DEF Verdict
  <2>4. IsReader(q)
    BY <1>1, <1>2, <2>2, <2>3 DEF IsReader, Rq!Results
  <2>5. ~ Rq!HasNewline(r.sent) /\ (r.sent = <<>> <=> r.frame = <<>>)
    <3>1. Len(r.sent) = Len(r.frame)
      BY <1>2, <2>1
    <3>2. QED BY <1>2, <2>2, <3>1, NoNewlineAtAll, EmptySeq
  <2>6. QED BY <1>1, <1>2, <2>1, <2>3, <2>4, <2>5
            DEF ReadInv, Rq!Running, Delivered, Refused
<1>5. CASE ~ r.late /\ r.chunk # <<>> /\ Rq!HasNewline(r.chunk)
  <2>1. /\ Rq!HasNewline(r.sent) /\ q.frame = Rq!ThroughNewline(r.sent) /\ q.frame = Kept(r)
        /\ q.frame \in Seq(Bytes) /\ Len(q.frame) <= limit
    <3>1. Len(Kept(r)) <= r.taken /\ Len(Kept(r)) \in Nat
      BY <1>1, <1>5, KeptIs
    <3>2. Len(Kept(r)) <= limit
      <4>1. ASSUME NEW a \in Nat, a <= r.taken
            PROVE  a <= limit
        BY <1>2, <4>1
      <4>2. QED BY <3>1, <4>1
    <3>3. QED BY <1>1, <1>5, <3>2, KeptIs
  <2>2. q.pc = IF Rq!ValidText(Kept(r)) THEN "delivered" ELSE "not_utf8"
    BY <1>1, <1>5 DEF Verdict
  <2>3. IsReader(q)
    BY <1>1, <1>2, <2>1, <2>2 DEF IsReader, Rq!Results
  <2>4. Delivered(limit, q)
    BY <1>1, <2>1, <2>2 DEF Delivered
  <2>5. QED BY <1>1, <1>2, <2>2, <2>3, <2>4 DEF ReadInv, Rq!Running, Refused
<1>6. CASE ~ r.late /\ r.chunk # <<>> /\ ~ Rq!HasNewline(r.chunk)
  <2>1. /\ q.frame \in Seq(Bytes) /\ Len(q.frame) = r.taken /\ q.frame = Kept(r)
        /\ \A i \in 1 .. r.taken : q.frame[i] = r.sent[i] /\ q.frame[i] # Newline
    BY <1>1, <1>6, KeptIs
  <2>2. q.pc = IF r.taken = limit THEN "oversized" ELSE "top"
    BY <1>1, <1>6, <2>1 DEF Verdict
  <2>3. IsReader(q)
    BY <1>1, <1>2, <2>1, <2>2 DEF IsReader, Rq!Results, Rq!Running
  <2>4. ASSUME r.taken # limit
        PROVE  KeptInv(limit, q)
    <3>1. q.pc = "top" /\ q.frame = Kept(r) /\ q.chunk = <<>> /\ Len(q.chunk) = 0
      BY <1>1, <1>2, <2>1, <2>2, <2>4
    <3>2. Len(q.frame) + Len(q.chunk) = q.taken
      BY <1>1, <1>2, <2>1, <3>1
    <3>3. Len(q.frame) < limit
      BY <1>2, <2>1, <2>4
    <3>4. \A i \in 1 .. Len(q.frame) : q.frame[i] = q.sent[i] /\ q.frame[i] # Newline
      BY <1>1, <2>1
    <3>5. \A i \in 1 .. Len(q.chunk) : q.chunk[i] = q.sent[Len(q.frame) + i]
      BY <3>1
    <3>6. QED BY <3>1, <3>2, <3>3, <3>4, <3>5 DEF KeptInv
  <2>5. Refused(limit, q)
    <3>1. ASSUME r.taken = limit
          PROVE  Len(r.sent) >= limit /\ ~ Rq!HasNewline(SubSeq(r.sent, 1, limit))
      <4>1. limit \in 0 .. Len(r.sent) /\ \A i \in 1 .. limit : r.sent[i] # Newline
        BY <1>2, <2>1, <3>1
      <4>2. QED BY <1>2, <4>1, NoNewline
    <3>2. QED BY <1>1, <1>2, <2>2, <3>1 DEF Refused
  <2>6. QED BY <2>2, <2>3, <2>4, <2>5 DEF ReadInv, Rq!Running, Delivered
<1>7. QED BY <1>3, <1>4, <1>5, <1>6

\* Every step of read_frame keeps what is known of it.
LEMMA ReaderKeeps ==
  ASSUME NEW limit \in Nat \ {0}, NEW r, NEW q, ReadInv(limit, r), ReaderActs(limit, r, q)
  PROVE  ReadInv(limit, q)
<1>1. ASSUME Turns(r, q)
      PROVE  ReadInv(limit, q)
  <2>1. /\ r.pc \in {"top", "reading"} /\ q.pc \in {"reading", "timed_out", "failed"}
        /\ q.pc = "reading" => r.pc = "top"
        /\ q.frame = r.frame /\ q.chunk = r.chunk /\ q.taken = r.taken
        /\ q.late = r.late /\ q.sent = r.sent /\ q.peer = r.peer
    BY <1>1 DEF Turns
  <2>2. IsReader(r) /\ KeptInv(limit, r) /\ Refused(limit, r)
    BY <2>1 DEF ReadInv, Rq!Running
  <2>3. IsReader(q)
    BY <2>1, <2>2 DEF IsReader, Rq!Running, Rq!Results
  <2>4. KeptInv(limit, q)
    BY <2>1, <2>2 DEF KeptInv
  <2>5. Refused(limit, q)
    <3>1. Room(limit, q) > 0
      BY <2>1, <2>2, ReaderIs, LimitsAssumption DEF Room, KeptInv
    <3>2. QED BY <2>1, <2>2, <3>1 DEF Refused
  <2>6. QED BY <2>1, <2>3, <2>4, <2>5 DEF ReadInv, Delivered
<1>2. QED BY <1>1, ReadKeeps, ExamineKeeps DEF ReaderActs

-----------------------------------------------------------------------------
\* Both sides of FramedExchange take the steps above.
LEMMA RequestReader ==
  /\ Rq!Init => Begins(Request)
  /\ Rq!ReaderStep /\ UNCHANGED <<srvReadLate, toServer, clientEnd>> =>
        ReaderActs(MaxRequest, Request, Request')
  /\ Rq!TypeOK <=> IsReader(Request)
  /\ Rq!DeliveredIsFirstLine <=> Delivered(MaxRequest, Request)
  /\ Rq!RefusedJustly <=> Refused(MaxRequest, Request)
<1>1. Rq!Init => Begins(Request)
  BY DEF Rq!Init, Begins, Request
<1>2. ASSUME Rq!ReaderStep, UNCHANGED <<srvReadLate, toServer, clientEnd>>
      PROVE  ReaderActs(MaxRequest, Request, Request')
  <2>1. CASE Rq!StartRead \/ Rq!ReadFails \/ Rq!Expire
    <3>1. Turns(Request, Request')
      BY <1>2, <2>1 DEF Turns, Request, Rq!StartRead, Rq!ReadFails, Rq!Expire
    <3>2. QED BY <3>1 DEF ReaderActs
  <2>2. CASE Rq!Read
    <3>1. Reads(MaxRequest, Request, Request')
      BY <1>2, <2>2 DEF Reads, Request, Rq!Read, Room, Rq!ReadLimit
    <3>2. QED BY <3>1 DEF ReaderActs
  <2>3. CASE Rq!Examine
    <3>1. Kept(Request) = Rq!Kept
      BY DEF Kept, Request, Rq!Kept
    <3>2. Verdict(MaxRequest, Request) = Rq!Verdict
      BY <3>1 DEF Verdict, Request, Rq!Verdict
    <3>3. Examines(MaxRequest, Request, Request')
      BY <1>2, <2>3, <3>1, <3>2 DEF Examines, Request, Rq!Examine
    <3>4. QED BY <3>3 DEF ReaderActs
  <2>4. QED BY <1>2, <2>1, <2>2, <2>3 DEF Rq!ReaderStep
<1>3. Rq!TypeOK <=> IsReader(Request)
  BY DEF Rq!TypeOK, IsReader, Request
<1>4. Rq!DeliveredIsFirstLine <=> Delivered(MaxRequest, Request)
  BY DEF Rq!DeliveredIsFirstLine, Delivered, Request
<1>5. Rq!RefusedJustly <=> Refused(MaxRequest, Request)
  BY DEF Rq!RefusedJustly, Refused, Request, Room, Rq!ReadLimit
<1>6. QED BY <1>1, <1>2, <1>3, <1>4, <1>5

\* The operators on texts are the same on both sides.
LEMMA SameLines ==
  \A s : /\ Rs!ThroughNewline(s) = Rq!ThroughNewline(s)
         /\ Rs!HasNewline(s) <=> Rq!HasNewline(s)
         /\ Rs!ValidText(s) <=> Rq!ValidText(s)
BY DEF Rq!ThroughNewline, Rs!ThroughNewline, Rq!HasNewline, Rs!HasNewline, Rq!ValidText,
       Rs!ValidText, Rq!SetOfBytes, Rs!SetOfBytes

LEMMA AnswerReader ==
  /\ Rs!Init => Begins(Answer)
  /\ Rs!ReaderStep /\ UNCHANGED <<cliLate, toClient, serverEnd>> =>
        ReaderActs(MaxResponse, Answer, Answer')
  /\ Rs!TypeOK <=> IsReader(Answer)
  /\ Rs!DeliveredIsFirstLine <=> Delivered(MaxResponse, Answer)
  /\ Rs!RefusedJustly <=> Refused(MaxResponse, Answer)
<1>1. Rs!Init => Begins(Answer)
  BY DEF Rs!Init, Begins, Answer
<1>2. ASSUME Rs!ReaderStep, UNCHANGED <<cliLate, toClient, serverEnd>>
      PROVE  ReaderActs(MaxResponse, Answer, Answer')
  <2>1. CASE Rs!StartRead \/ Rs!ReadFails \/ Rs!Expire
    <3>1. Turns(Answer, Answer')
      BY <1>2, <2>1 DEF Turns, Answer, Rs!StartRead, Rs!ReadFails, Rs!Expire
    <3>2. QED BY <3>1 DEF ReaderActs
  <2>2. CASE Rs!Read
    <3>1. Reads(MaxResponse, Answer, Answer')
      BY <1>2, <2>2 DEF Reads, Answer, Rs!Read, Room, Rs!ReadLimit
    <3>2. QED BY <3>1 DEF ReaderActs
  <2>3. CASE Rs!Examine
    <3>1. Kept(Answer) = Rs!Kept
      BY SameLines DEF Kept, Answer, Rs!Kept
    <3>2. Verdict(MaxResponse, Answer) = Rs!Verdict
      BY <3>1, SameLines DEF Verdict, Answer, Rs!Verdict
    <3>3. Examines(MaxResponse, Answer, Answer')
      BY <1>2, <2>3, <3>1, <3>2 DEF Examines, Answer, Rs!Examine
    <3>4. QED BY <3>3 DEF ReaderActs
  <2>4. QED BY <1>2, <2>1, <2>2, <2>3 DEF Rs!ReaderStep
<1>3. Rs!TypeOK <=> IsReader(Answer)
  BY DEF Rs!TypeOK, IsReader, Answer, Rs!Running, Rs!Results, Rq!Running, Rq!Results
<1>4. Rs!DeliveredIsFirstLine <=> Delivered(MaxResponse, Answer)
  BY SameLines DEF Rs!DeliveredIsFirstLine, Delivered, Answer
<1>5. Rs!RefusedJustly <=> Refused(MaxResponse, Answer)
  BY SameLines DEF Rs!RefusedJustly, Refused, Answer, Room, Rs!ReadLimit
<1>6. QED BY <1>1, <1>2, <1>3, <1>4, <1>5

-----------------------------------------------------------------------------
\* The text that a client sends ends with a newline, and TooLarge is about all of it.
LEMMA TextIs ==
  ASSUME request \in Requests
  PROVE  /\ Text \in Seq(Bytes) /\ Len(Text) \in Nat \ {0} /\ Text[Len(Text)] = Newline
         /\ TooLarge <=> Len(Text) > MaxRequest
<1>1. request \in Seq(Bytes) /\ Len(request) \in Nat /\ Newline \in Bytes /\ MaxRequest \in Nat
  <2>1. request \in Seq(Bytes \ Invalid)
    BY TextAssumption
  <2>2. QED BY <2>1, TextAssumption, LimitsAssumption, SeqMonotonic
<1>2. CASE NeedsNewline
  <2>1. Text = Append(request, Newline)
    BY <1>2 DEF Text, FramedText, NeedsNewline
  <2>2. Text \in Seq(Bytes) /\ Len(Text) = Len(request) + 1 /\ Text[Len(Text)] = Newline
    BY <1>1, <2>1
  <2>3. QED BY <1>1, <1>2, <2>2 DEF TooLarge
<1>3. CASE ~ NeedsNewline
  <2>1. Text = request /\ request # <<>> /\ request[Len(request)] = Newline
    BY <1>3 DEF Text, FramedText, NeedsNewline, Last
  <2>2. Len(request) # 0
    BY <1>1, <2>1, EmptySeq
  <2>3. QED BY <1>1, <1>3, <2>1, <2>2 DEF TooLarge
<1>4. QED BY <1>2, <1>3

LEMMA ResponseIs ==
  ASSUME NEW r \in Responses
  PROVE  /\ r \in Seq(Bytes) /\ Len(r) \in Nat \ {0} /\ r[Len(r)] = Newline
         /\ \A i \in 1 .. Len(r) - 1 : r[i] # Newline
<1>1. r \in Seq(Bytes \ Invalid) /\ r # <<>> /\ Last(r) = Newline /\ Newline \notin ToSet(Front(r))
  BY TextAssumption
<1>2. r \in Seq(Bytes) /\ Len(r) \in Nat /\ Len(r) # 0
  BY <1>1, SeqMonotonic, EmptySeq
<1>3. \A i \in 1 .. Len(r) - 1 : i \in DOMAIN Front(r) /\ Front(r)[i] = r[i]
  BY <1>2 DEF Front
<1>4. QED BY <1>1, <1>2, <1>3 DEF Last, ToSet

\* A text that has another before it and goes on where that ends, or is all of it.
LEMMA PrefixGrows ==
  ASSUME NEW s \in Seq(Bytes), NEW t \in Seq(Bytes), PrefixOf(s, t), s # t
  PROVE  /\ t[Len(s) + 1] \in Bytes
         /\ Append(s, t[Len(s) + 1]) \in Seq(Bytes)
         /\ PrefixOf(Append(s, t[Len(s) + 1]), t)
<1>1. Len(s) \in Nat /\ Len(t) \in Nat /\ Len(s) <= Len(t) /\ Len(s) # Len(t)
  <2>1. Len(s) # Len(t)
    BY SeqEqual DEF PrefixOf
  <2>2. QED BY <2>1 DEF PrefixOf
<1>2. Len(s) + 1 \in 1 .. Len(t)
  BY <1>1
<1>3. QED BY <1>1, <1>2 DEF PrefixOf

-----------------------------------------------------------------------------
\* For the reader of the request every step of the exchange is its own or one that
\* the peer may make.
LEMMA RequestReaderSteps ==
  ASSUME IInv, [Next]_vars
  PROVE  \/ ReaderActs(MaxRequest, Request, Request')
         \/ PeerActs(Request, Request')
<1>1. TypeOK /\ EndsInv /\ ClientInv /\ srvReadLate \in BOOLEAN
  BY DEF IInv, TypeOK, Rq!TypeOK
<1>2. CASE UNCHANGED <<srvReader, srvReadLate, toServer, clientEnd>>
  BY <1>1, <1>2 DEF PeerActs, Request, srvReader
<1>3. ASSUME clientEnd = "open", clientEnd' \in {"closed", "broken"},
             UNCHANGED <<srvReader, srvReadLate, toServer>>
      PROVE  PeerActs(Request, Request')
  BY <1>1, <1>3 DEF PeerActs, Request, srvReader
<1>4. ASSUME clientEnd = "open", NEW b \in Bytes, toServer' = Append(toServer, b),
             UNCHANGED <<srvReader, srvReadLate, clientEnd>>
      PROVE  PeerActs(Request, Request')
  BY <1>1, <1>4 DEF PeerActs, Request, srvReader
<1>5. ASSUME NEW result, ClientEnds(result), client \in {"ready", "writing", "reading"}
      PROVE  PeerActs(Request, Request')
  BY <1>1, <1>3, <1>5 DEF ClientEnds, EndsInv, serverVars, wires
<1>6. CASE ClientStep \/ ClientKilled
  <2>1. CASE CheckSize
    BY <1>2, <1>5, <2>1 DEF CheckSize, serverVars, wires, ends
  <2>2. CASE ClientWrites
    <3>1. /\ client = "writing" /\ toServer' = Append(toServer, Text[Len(toServer) + 1])
          /\ UNCHANGED <<srvReader, srvReadLate, clientEnd>>
      BY <2>2 DEF ClientWrites, Text, serverVars, ends
    <3>2. Text[Len(toServer) + 1] \in Bytes
      BY <1>1, <3>1, PrefixGrows, TextIs DEF ClientInv, Stranger, TypeOK, Rq!TypeOK
    <3>3. QED BY <1>1, <1>4, <3>1, <3>2 DEF EndsInv
  <2>3. CASE ClientWriteFails
    BY <1>5, <2>3 DEF ClientWriteFails
  <2>4. CASE ClientReads
    BY <1>2, <2>4 DEF ClientReads, serverVars, wires, ends
  <2>5. CASE ClientReturns
    BY <1>5, <2>5 DEF ClientReturns
  <2>6. CASE ClientKilled
    BY <1>5, <2>6 DEF ClientKilled
  <2>7. QED BY <1>6, <2>1, <2>2, <2>3, <2>4, <2>5, <2>6 DEF ClientStep
<1>7. CASE ServerStep
  <2>1. CASE ServerReads
    BY <2>1, RequestReader DEF ServerReads, wires, ends
  <2>2. CASE ServerStep /\ ~ ServerReads
    <3>1. UNCHANGED <<srvReader, srvReadLate, toServer, clientEnd>>
      BY <2>2 DEF ServerStep, Accept, Reject, Handle, ServerWrites, ServerWritten,
                  ServerWriteFails, ServerEnds, serverVars, wires, ends
    <3>2. QED BY <1>2, <3>1
  <2>3. QED BY <1>7, <2>1, <2>2
<1>8. CASE Clock
  <2>1. UNCHANGED <<srvReader, toServer, clientEnd>> /\ srvReadLate' \in BOOLEAN
    BY <1>1, <1>8 DEF Clock, ClientDeadline, ReadDeadline, WriteDeadline, serverVars, wires, ends
  <2>2. QED BY <2>1 DEF PeerActs, Request, srvReader
<1>9. CASE StrangerSends
  <2>1. CASE client = "stranger" /\ \E b \in Bytes : toServer' = Append(toServer, b)
                                   /\ UNCHANGED <<serverVars, ends>>
    BY <1>1, <1>4, <2>1 DEF EndsInv, serverVars, ends
  <2>2. CASE UNCHANGED <<serverVars, toServer, ends>>
    BY <1>2, <2>2 DEF serverVars, ends
  <2>3. QED BY <1>9, <2>1, <2>2 DEF StrangerSends
<1>10. CASE StrangerEnds
  <2>1. CASE /\ client = "stranger" /\ clientEnd' \in {"closed", "broken"}
             /\ UNCHANGED <<serverVars, wires>>
    BY <1>1, <1>3, <2>1 DEF EndsInv, serverVars, wires
  <2>2. CASE UNCHANGED <<srvReadLate, srvReader, wires, clientEnd>>
    BY <1>2, <2>2 DEF wires
  <2>3. QED BY <1>10, <2>1, <2>2 DEF StrangerEnds
<1>11. CASE UNCHANGED vars
  BY <1>2, <1>11 DEF vars, serverVars, wires, ends
<1>12. QED BY <1>6, <1>7, <1>8, <1>9, <1>10, <1>11 DEF Next

\* The same for the reader of the answer.
LEMMA AnswerReaderSteps ==
  ASSUME IInv, [Next]_vars
  PROVE  \/ ReaderActs(MaxResponse, Answer, Answer')
         \/ PeerActs(Answer, Answer')
<1>1. TypeOK /\ EndsInv /\ ServerInv /\ cliLate \in BOOLEAN
  BY DEF IInv, TypeOK, Rs!TypeOK
<1>2. CASE UNCHANGED <<cliReader, cliLate, toClient, serverEnd>>
  BY <1>1, <1>2 DEF PeerActs, Answer, cliReader
<1>3. ASSUME serverEnd = "open", serverEnd' \in {"closed", "broken"},
             UNCHANGED <<cliReader, cliLate, toClient>>
      PROVE  PeerActs(Answer, Answer')
  BY <1>1, <1>3 DEF PeerActs, Answer, cliReader
<1>4. ASSUME serverEnd = "open", NEW b \in Bytes, toClient' = Append(toClient, b),
             UNCHANGED <<cliReader, cliLate, serverEnd>>
      PROVE  PeerActs(Answer, Answer')
  BY <1>1, <1>4 DEF PeerActs, Answer, cliReader
<1>5. ASSUME NEW result, ServerEnds(result), server \in {"reading", "writing"}
      PROVE  PeerActs(Answer, Answer')
  BY <1>1, <1>3, <1>5 DEF ServerEnds, EndsInv, clientVars, wires
<1>6. CASE ClientStep \/ ClientKilled
  <2>1. CASE ClientReads
    BY <2>1, AnswerReader DEF ClientReads, wires, ends
  <2>2. CASE (ClientStep \/ ClientKilled) /\ ~ ClientReads
    <3>1. UNCHANGED <<cliReader, cliLate, toClient, serverEnd>>
      BY <2>2 DEF ClientStep, CheckSize, ClientWrites, ClientWriteFails, ClientReturns,
                  ClientKilled, ClientEnds, wires, ends
    <3>2. QED BY <1>2, <3>1
  <2>3. QED BY <1>6, <2>1, <2>2
<1>7. CASE ServerStep
  <2>1. CASE Accept \/ ServerReads \/ Handle
    BY <1>2, <2>1 DEF Accept, ServerReads, Handle, clientVars, wires, ends
  <2>2. CASE Reject \/ ServerWritten \/ ServerWriteFails
    BY <1>5, <2>2 DEF Reject, ServerWritten, ServerWriteFails
  <2>3. CASE ServerWrites
    <3>1. /\ server = "writing" /\ toClient' = Append(toClient, response[Len(toClient) + 1])
          /\ toClient # response /\ UNCHANGED <<cliReader, cliLate, serverEnd>>
      BY <2>3 DEF ServerWrites, clientVars, ends
    <3>2. response[Len(toClient) + 1] \in Bytes
      BY <1>1, <3>1, PrefixGrows, ResponseIs DEF ServerInv, TypeOK, Rs!TypeOK
    <3>3. QED BY <1>1, <1>4, <3>1, <3>2 DEF EndsInv
  <2>4. QED BY <1>7, <2>1, <2>2, <2>3 DEF ServerStep
<1>8. CASE Clock
  <2>1. UNCHANGED <<cliReader, toClient, serverEnd>> /\ cliLate' \in BOOLEAN
    BY <1>1, <1>8 DEF Clock, ClientDeadline, ReadDeadline, WriteDeadline, clientVars, wires, ends
  <2>2. QED BY <2>1 DEF PeerActs, Answer, cliReader
<1>9. CASE StrangerSends
  <2>1. CASE server = "stranger" /\ \E b \in Bytes : toClient' = Append(toClient, b)
                                   /\ UNCHANGED <<clientVars, ends>>
    BY <1>1, <1>4, <2>1 DEF EndsInv, clientVars, ends
  <2>2. CASE UNCHANGED <<clientVars, toClient, ends>>
    BY <1>2, <2>2 DEF clientVars, ends
  <2>3. QED BY <1>9, <2>1, <2>2 DEF StrangerSends
<1>10. CASE StrangerEnds
  <2>1. CASE /\ server = "stranger" /\ serverEnd' \in {"closed", "broken"}
             /\ UNCHANGED <<clientVars, wires>>
    BY <1>1, <1>3, <2>1 DEF EndsInv, clientVars, wires
  <2>2. CASE UNCHANGED <<cliLate, cliReader, wires, serverEnd>>
    BY <1>2, <2>2 DEF wires
  <2>3. QED BY <1>10, <2>1, <2>2 DEF StrangerEnds
<1>11. CASE UNCHANGED vars
  BY <1>2, <1>11 DEF vars, clientVars, wires, ends
<1>12. QED BY <1>6, <1>7, <1>8, <1>9, <1>10, <1>11 DEF Next

\* Both readers keep what is known of them.
LEMMA ReadersKeep ==
  ASSUME IInv, [Next]_vars
  PROVE  ReadInv(MaxRequest, Request)' /\ ReadInv(MaxResponse, Answer)'
<1>1. ReadInv(MaxRequest, Request)'
  <2>1. ReadInv(MaxRequest, Request) /\ MaxRequest \in Nat \ {0}
    BY LimitsAssumption DEF IInv
  <2>2. CASE ReaderActs(MaxRequest, Request, Request')
    BY <2>1, <2>2, ReaderKeeps
  <2>3. CASE PeerActs(Request, Request')
    BY <2>1, <2>3, PeerKeeps
  <2>4. QED BY <2>2, <2>3, RequestReaderSteps
<1>2. ReadInv(MaxResponse, Answer)'
  <2>1. ReadInv(MaxResponse, Answer) /\ MaxResponse \in Nat \ {0}
    BY LimitsAssumption DEF IInv
  <2>2. CASE ReaderActs(MaxResponse, Answer, Answer')
    BY <2>1, <2>2, ReaderKeeps
  <2>3. CASE PeerActs(Answer, Answer')
    BY <2>1, <2>3, PeerKeeps
  <2>4. QED BY <2>2, <2>3, AnswerReaderSteps
<1>3. QED BY <1>1, <1>2

-----------------------------------------------------------------------------
\* The part of TypeOK that is not about a reader.
OwnTypes ==
    /\ client \in {"ready", "writing", "reading"} \union ClientEnded \union Stranger
    /\ request \in Requests
    /\ server \in {"backlog", "reading", "writing"} \union ServerEnded \union Stranger
    /\ srvWriteLate \in BOOLEAN
    /\ executed \in Seq(Bytes) \union {Nothing}
    /\ response \in Responses \union {Nothing}

Rest == OwnTypes /\ EndsInv /\ ClientInv /\ ResultInv /\ ServerInv

LEMMA RestOf == IInv => Rest /\ toServer \in Seq(Bytes) /\ toClient \in Seq(Bytes)
                             /\ srvFrame \in Seq(Bytes)
BY DEF IInv, Rest, TypeOK, OwnTypes, Rq!TypeOK, Rs!TypeOK

\* What a client that ends leaves behind.
LEMMA ClientEndKeeps ==
  ASSUME Rest, NEW result \in ClientEnded, ClientEnds(result),
         client \in {"ready", "writing", "reading"},
         result = "too_large" => client = "ready" /\ TooLarge,
         client = "ready" => result \in {"too_large", "killed"},
         result = "answered" => cliRead = "delivered",
         result = "empty" => cliRead = "delivered" /\ cliFrame \in EmptyLines,
         result \in {"timed_out", "failed"} => cliRead # "delivered"
  PROVE  Rest'
<1>1. /\ client' = result /\ clientEnd' \in {"closed", "broken"} /\ Text' = Text
      /\ UNCHANGED <<request, cliRead, cliFrame, server, srvWriteLate, srvRead, srvFrame>>
      /\ UNCHANGED <<executed, response, toServer, toClient, serverEnd>>
  BY DEF ClientEnds, cliReader, serverVars, srvReader, wires, Text
<1>2. OwnTypes' /\ EndsInv' /\ ServerInv'
  BY <1>1 DEF Rest, OwnTypes, EndsInv, ServerInv, ClientEnded, PrefixOf
<1>3. ResultInv'
  BY <1>1 DEF ResultInv, EmptyLines
<1>4. ClientInv'
  <2>1. ClientInv /\ client \notin Stranger
    BY DEF Rest, Stranger
  <2>2. result = "too_large" => Len(Text) > MaxRequest
    BY TextIs DEF Rest, OwnTypes
  <2>3. client = "ready" => toServer = <<>>
    BY <2>1 DEF ClientInv
  <2>4. toServer # <<>> \/ result \notin {"ready", "too_large", "killed"} =>
           Len(Text) <= MaxRequest
    BY <2>1, <2>3 DEF ClientInv
  <2>5. QED BY <1>1, <2>1, <2>2, <2>3, <2>4 DEF ClientInv, ClientEnded, PrefixOf
<1>5. QED BY <1>2, <1>3, <1>4 DEF Rest

LEMMA ClientStepKeeps ==
  ASSUME IInv, ClientStep \/ ClientKilled
  PROVE  Rest'
<1>0. /\ Rest /\ OwnTypes /\ EndsInv /\ ClientInv /\ ServerInv /\ ResultInv
      /\ toServer \in Seq(Bytes)
  BY RestOf DEF Rest
<1>1. CASE CheckSize
  <2>1. client = "ready"
    BY <1>1 DEF CheckSize
  <2>2. CASE TooLarge /\ ClientEnds("too_large")
    BY <1>0, <2>1, <2>2, ClientEndKeeps DEF ClientEnded
  <2>3. CASE ~ TooLarge /\ client' = "writing"
             /\ UNCHANGED <<request, cliLate, cliReader, serverVars, wires, ends>>
    <3>1. /\ UNCHANGED <<request, cliRead, cliFrame, server, srvWriteLate, srvRead, srvFrame>>
          /\ UNCHANGED <<executed, response, toServer, toClient, serverEnd, clientEnd>>
          /\ Text' = Text
      BY <2>3 DEF cliReader, serverVars, srvReader, wires, ends, Text
    <3>2. /\ Len(Text) <= MaxRequest /\ Len(Text) \in Nat \ {0} /\ MaxRequest \in Nat
      BY <1>0, <2>3, TextIs, LimitsAssumption DEF OwnTypes
    <3>3. toServer = <<>> /\ toServer # Text /\ PrefixOf(toServer, Text) /\ cliRead = "top"
      <4>1. toServer = <<>> /\ PrefixOf(toServer, Text) /\ cliRead = "top"
        BY <1>0, <2>1 DEF ClientInv, Stranger
      <4>2. QED BY <3>2, <4>1, EmptySeq
    <3>4. ClientInv'
      BY <2>3, <3>1, <3>2, <3>3 DEF ClientInv, PrefixOf
    <3>5. OwnTypes' /\ EndsInv' /\ ServerInv' /\ ResultInv'
      BY <1>0, <2>1, <2>3, <3>1
         DEF OwnTypes, EndsInv, ServerInv, ResultInv, PrefixOf, EmptyLines
    <3>6. QED BY <3>4, <3>5 DEF Rest
  <2>4. QED BY <1>1, <2>2, <2>3 DEF CheckSize
<1>2. CASE ClientWrites
  <2>1. /\ client = "writing" /\ toServer' = Append(toServer, Text[Len(toServer) + 1])
        /\ client' = (IF toServer' = Text THEN "reading" ELSE "writing") /\ Text' = Text
        /\ UNCHANGED <<request, cliRead, cliFrame, server, srvWriteLate, srvRead, srvFrame>>
        /\ UNCHANGED <<executed, response, toClient, serverEnd, clientEnd>>
    BY <1>2 DEF ClientWrites, Text, cliReader, serverVars, srvReader, ends
  <2>2. /\ PrefixOf(toServer, Text) /\ toServer # Text /\ Len(Text) <= MaxRequest
        /\ cliRead = "top"
    BY <1>0, <2>1 DEF ClientInv, Stranger
  <2>3. Text \in Seq(Bytes)
    BY <1>0, TextIs DEF OwnTypes
  <2>4. PrefixOf(toServer', Text)
    BY <1>0, <2>1, <2>2, <2>3, PrefixGrows
  <2>5. ClientInv'
    BY <2>1, <2>2, <2>4 DEF ClientInv, PrefixOf
  <2>6. OwnTypes' /\ EndsInv' /\ ServerInv' /\ ResultInv'
    BY <1>0, <2>1 DEF OwnTypes, EndsInv, ServerInv, ResultInv, PrefixOf, EmptyLines
  <2>7. QED BY <2>5, <2>6 DEF Rest
<1>3. CASE ClientWriteFails
  <2>1. client = "writing" /\ cliRead = "top"
    BY <1>0, <1>3 DEF ClientWriteFails, ClientInv, Stranger
  <2>2. CASE ClientEnds("failed")
    BY <1>0, <2>1, <2>2, ClientEndKeeps DEF ClientEnded
  <2>3. CASE ClientEnds("timed_out")
    BY <1>0, <2>1, <2>3, ClientEndKeeps DEF ClientEnded
  <2>4. QED BY <1>3, <2>2, <2>3 DEF ClientWriteFails
<1>4. CASE ClientReads
  <2>1. /\ client = "reading" /\ Text' = Text
        /\ UNCHANGED <<client, request, server, srvWriteLate, srvRead, srvFrame>>
        /\ UNCHANGED <<executed, response, toServer, toClient, serverEnd, clientEnd>>
    BY <1>4 DEF ClientReads, serverVars, srvReader, wires, ends, Text
  <2>2. OwnTypes' /\ EndsInv' /\ ServerInv' /\ ResultInv'
    BY <1>0, <2>1 DEF OwnTypes, EndsInv, ServerInv, ResultInv, PrefixOf
  <2>3. ClientInv'
    BY <1>0, <2>1 DEF ClientInv, PrefixOf
  <2>4. QED BY <2>2, <2>3 DEF Rest
<1>5. CASE ClientReturns
  <2>1. client = "reading"
    BY <1>5 DEF ClientReturns
  <2>2. CASE cliRead = "delivered"
    <3>1. ClientEnds(IF cliFrame \in EmptyLines THEN "empty" ELSE "answered")
      BY <1>5, <2>2 DEF ClientReturns
    <3>2. QED BY <1>0, <2>1, <2>2, <3>1, ClientEndKeeps DEF ClientEnded
  <2>3. CASE cliRead # "delivered"
    <3>1. ClientEnds("timed_out") \/ ClientEnds("failed")
      BY <1>5, <2>3 DEF ClientReturns
    <3>2. QED BY <1>0, <2>1, <2>3, <3>1, ClientEndKeeps DEF ClientEnded
  <2>4. QED BY <2>2, <2>3
<1>6. CASE ClientKilled
  BY <1>0, <1>6, ClientEndKeeps DEF ClientKilled, ClientEnded
<1>7. QED BY <1>1, <1>2, <1>3, <1>4, <1>5, <1>6 DEF ClientStep

LEMMA ServerStepKeeps ==
  ASSUME IInv, ServerStep
  PROVE  Rest'
<1>0. /\ OwnTypes /\ EndsInv /\ ClientInv /\ ServerInv /\ ResultInv
      /\ toClient \in Seq(Bytes) /\ srvFrame \in Seq(Bytes)
  BY RestOf DEF Rest
<1>1. /\ UNCHANGED <<client, request, cliRead, cliFrame, toServer, clientEnd, srvWriteLate>>
      /\ Text' = Text
  BY DEF ServerStep, Accept, ServerReads, Reject, Handle, ServerWrites, ServerWritten,
         ServerWriteFails, ServerEnds, clientVars, serverVars, cliReader, wires, ends, Text
<1>2. ClientInv' /\ ResultInv'
  BY <1>0, <1>1 DEF ClientInv, ResultInv, PrefixOf, EmptyLines
<1>3. CASE Accept \/ ServerReads
  <2>1. /\ server \in {"backlog", "reading"} /\ server' = "reading"
        /\ UNCHANGED <<executed, response, toClient, serverEnd>>
    BY <1>3 DEF Accept, ServerReads, wires, ends
  <2>2. OwnTypes' /\ EndsInv' /\ ServerInv'
    BY <1>0, <1>1, <2>1 DEF OwnTypes, EndsInv, ServerInv
  <2>3. QED BY <1>2, <2>2 DEF Rest
<1>4. CASE Handle
  <2>1. /\ server = "reading" /\ srvRead = "delivered" /\ executed' = srvFrame
        /\ response' \in Responses /\ server' = "writing"
        /\ UNCHANGED <<srvRead, srvFrame, toClient, serverEnd>>
    BY <1>4 DEF Handle, srvReader, wires, ends
  <2>2. PrefixOf(toClient', response')
    <3>1. toClient' = <<>> /\ Len(response') \in Nat
      BY <1>0, <2>1, ResponseIs DEF ServerInv
    <3>2. QED BY <3>1, EmptySeq DEF PrefixOf
  <2>3. OwnTypes' /\ EndsInv' /\ ServerInv'
    BY <1>0, <1>1, <2>1, <2>2 DEF OwnTypes, EndsInv, ServerInv, PrefixOf, Stranger
  <2>4. QED BY <1>2, <2>3 DEF Rest
<1>5. CASE ServerWrites
  <2>1. /\ server = "writing" /\ toClient' = Append(toClient, response[Len(toClient) + 1])
        /\ toClient # response
        /\ UNCHANGED <<server, srvRead, srvFrame, executed, response, serverEnd>>
    BY <1>5 DEF ServerWrites, serverVars, srvReader, ends
  <2>2. PrefixOf(toClient', response)
    BY <1>0, <2>1, PrefixGrows, ResponseIs DEF ServerInv
  <2>3. OwnTypes' /\ EndsInv'
    BY <1>0, <1>1, <2>1 DEF OwnTypes, EndsInv
  <2>4. ServerInv'
    BY <1>0, <2>1, <2>2 DEF ServerInv, PrefixOf, Stranger
  <2>5. QED BY <1>2, <2>3, <2>4 DEF Rest
<1>6. ASSUME NEW result, ServerEnds(result),
             \/ server = "reading" /\ result = "rejected"
             \/ server = "writing" /\ result \in {"written", "unwritten"}
      PROVE  Rest'
  <2>1. /\ server' = result /\ serverEnd' \in {"closed", "broken"}
        /\ UNCHANGED <<srvRead, srvFrame, executed, response, toClient>>
    BY <1>6 DEF ServerEnds, srvReader, wires
  <2>2. OwnTypes' /\ EndsInv'
    BY <1>0, <1>1, <1>6, <2>1 DEF OwnTypes, EndsInv, ServerEnded
  <2>3. ServerInv'
    BY <1>0, <1>6, <2>1 DEF ServerInv, PrefixOf, Stranger
  <2>4. QED BY <1>2, <2>2, <2>3 DEF Rest
<1>7. CASE Reject \/ ServerWritten \/ ServerWriteFails
  BY <1>6, <1>7 DEF Reject, ServerWritten, ServerWriteFails
<1>8. QED BY <1>3, <1>4, <1>5, <1>7 DEF ServerStep

\* Time and strangers do not touch what a client or a server of the program does.
LEMMA OthersKeep ==
  ASSUME IInv, Clock \/ StrangerSends \/ StrangerEnds
  PROVE  Rest'
<1>0. /\ OwnTypes /\ EndsInv /\ ClientInv /\ ServerInv /\ ResultInv
  BY RestOf DEF Rest
<1>1. /\ UNCHANGED <<request, cliRead, cliFrame, srvRead, srvFrame, executed, response>>
      /\ Text' = Text /\ srvWriteLate' \in BOOLEAN
  BY <1>0 DEF Clock, ClientDeadline, ReadDeadline, WriteDeadline, StrangerSends, StrangerEnds,
              clientVars, serverVars, cliReader, srvReader, Text, OwnTypes
<1>2. CASE Clock
  <2>1. UNCHANGED <<client, server, toServer, toClient, clientEnd, serverEnd>>
    BY <1>2 DEF Clock, ClientDeadline, ReadDeadline, WriteDeadline, clientVars, serverVars,
                wires, ends
  <2>2. OwnTypes' /\ EndsInv'
    BY <1>0, <1>1, <2>1 DEF OwnTypes, EndsInv
  <2>3. ClientInv' /\ ResultInv' /\ ServerInv'
    BY <1>0, <1>1, <2>1 DEF ClientInv, ResultInv, ServerInv, PrefixOf, EmptyLines
  <2>4. QED BY <2>2, <2>3 DEF Rest
<1>3. CASE StrangerSends
  <2>1. /\ UNCHANGED <<client, server, clientEnd, serverEnd>>
        /\ client = "stranger" \/ toServer' = toServer
        /\ server = "stranger" \/ toClient' = toClient
    BY <1>3 DEF StrangerSends, clientVars, serverVars, ends
  <2>2. OwnTypes' /\ EndsInv'
    BY <1>0, <1>1, <2>1 DEF OwnTypes, EndsInv
  <2>3. ClientInv' /\ ResultInv'
    BY <1>0, <1>1, <2>1 DEF ClientInv, ResultInv, PrefixOf, EmptyLines, Stranger
  <2>4. ServerInv'
    BY <1>0, <1>1, <2>1 DEF ServerInv, PrefixOf, Stranger
  <2>5. QED BY <2>2, <2>3, <2>4 DEF Rest
<1>4. CASE StrangerEnds
  <2>1. /\ UNCHANGED <<toServer, toClient>>
        /\ \/ client = "stranger" /\ client' = "gone" /\ clientEnd' \in {"closed", "broken"}
              /\ UNCHANGED <<server, serverEnd>>
           \/ server = "stranger" /\ server' = "gone" /\ serverEnd' \in {"closed", "broken"}
              /\ UNCHANGED <<client, clientEnd>>
    BY <1>4 DEF StrangerEnds, clientVars, serverVars, wires
  <2>2. OwnTypes' /\ EndsInv'
    BY <1>0, <1>1, <2>1 DEF OwnTypes, EndsInv, Stranger
  <2>3. ClientInv' /\ ResultInv'
    BY <1>0, <1>1, <2>1 DEF ClientInv, ResultInv, PrefixOf, EmptyLines, Stranger
  <2>4. ServerInv'
    BY <1>0, <1>1, <2>1 DEF ServerInv, PrefixOf, Stranger
  <2>5. QED BY <2>2, <2>3, <2>4 DEF Rest
<1>5. QED BY <1>2, <1>3, <1>4

\* The types of both readers, in the form to be primed.
LEMMA ReaderTypes == (Rq!TypeOK <=> IsReader(Request)) /\ (Rs!TypeOK <=> IsReader(Answer))
BY RequestReader, AnswerReader

LEMMA Initially == Init => IInv
<1> SUFFICES ASSUME Init
             PROVE  IInv
  OBVIOUS
<1>1. ReadInv(MaxRequest, Request) /\ ReadInv(MaxResponse, Answer)
  BY LimitsAssumption, RequestReader, AnswerReader, BeginsToRead DEF Init
<1>2. /\ toServer = <<>> /\ toClient = <<>> /\ cliRead = "top"
      /\ clientEnd = "open" /\ serverEnd = "open"
  BY DEF Init, Rq!Init, Rs!Init
<1>3. OwnTypes /\ EndsInv /\ ResultInv /\ ServerInv
  BY <1>2 DEF Init, OwnTypes, EndsInv, ResultInv, ServerInv, Stranger
<1>4. ClientInv
  <2>1. Len(Text) \in Nat
    BY <1>3, TextIs DEF OwnTypes
  <2>2. PrefixOf(toServer, Text)
    BY <1>2, <2>1, EmptySeq DEF PrefixOf
  <2>3. client \notin Stranger => client = "ready"
    BY DEF Init, Stranger
  <2>4. QED BY <1>2, <2>2, <2>3 DEF ClientInv
<1>5. TypeOK
  BY <1>1, <1>3, RequestReader, AnswerReader DEF TypeOK, OwnTypes, ReadInv, Request, Answer
<1>6. QED BY <1>1, <1>3, <1>4, <1>5 DEF IInv

LEMMA Inductive == IInv /\ [Next]_vars => IInv'
<1> SUFFICES ASSUME IInv, [Next]_vars
             PROVE  IInv'
  OBVIOUS
<1>1. Rest'
  <2>1. CASE UNCHANGED vars
    <3>1. /\ UNCHANGED <<client, request, cliRead, cliFrame, server, srvWriteLate, srvRead>>
          /\ UNCHANGED <<srvFrame, executed, response, toServer, toClient>>
          /\ UNCHANGED <<clientEnd, serverEnd>> /\ Text' = Text
      BY <2>1 DEF vars, clientVars, serverVars, cliReader, srvReader, wires, ends, Text
    <3>2. OwnTypes' /\ EndsInv'
      BY <3>1, RestOf DEF Rest, OwnTypes, EndsInv
    <3>3. ClientInv' /\ ResultInv' /\ ServerInv'
      BY <3>1, RestOf DEF Rest, ClientInv, ResultInv, ServerInv, PrefixOf, EmptyLines
    <3>4. QED BY <3>2, <3>3 DEF Rest
  <2>2. QED BY <2>1, ClientStepKeeps, ServerStepKeeps, OthersKeep DEF Next
<1>2. ReadInv(MaxRequest, Request)' /\ ReadInv(MaxResponse, Answer)'
  BY ReadersKeep
<1>3. TypeOK'
  <2>1. IsReader(Request)' /\ IsReader(Answer)'
    BY <1>2 DEF ReadInv
  <2>2. Rq!TypeOK' /\ Rs!TypeOK'
    BY <2>1, ReaderTypes, PTL
  <2>3. QED BY <1>1, <2>1, <2>2 DEF TypeOK, Rest, OwnTypes
<1>4. QED BY <1>1, <1>2, <1>3 DEF IInv, Rest

LEMMA Invariance == Spec => []IInv
BY Initially, Inductive, PTL DEF Spec

-----------------------------------------------------------------------------
\* What the handler was given is the first line of what the client meant to send.
LEMMA ExecutedIs ==
  ASSUME IInv, executed # Nothing
  PROVE  executed = FirstLine
<1>1. /\ Rest /\ toServer \in Seq(Bytes)
      /\ srvRead = "delivered" /\ executed = srvFrame
  BY RestOf DEF Rest, ServerInv, OwnTypes, ServerEnded
<1>2. Rq!HasNewline(toServer) /\ executed = Rq!ThroughNewline(toServer)
  BY <1>1 DEF IInv, ReadInv, Request, Delivered
<1>3. CASE client \in Stranger
  BY <1>2, <1>3, SameLines DEF FirstLine
<1>4. CASE client \notin Stranger
  <2>1. PrefixOf(toServer, Text) /\ Text \in Seq(Bytes)
    BY <1>1, <1>4, TextIs DEF Rest, ClientInv, OwnTypes
  <2>2. Rq!ThroughNewline(Text) = Rq!ThroughNewline(toServer)
    BY <1>1, <1>2, <2>1, FirstLineStays DEF PrefixOf
  <2>3. FirstLine = Rq!ThroughNewline(Text)
    BY <1>4 DEF FirstLine, Text
  <2>4. QED BY <1>2, <2>2, <2>3, SameLines
<1>5. QED BY <1>3, <1>4

\* The service executes the whole first line of what its client meant to send, or
\* nothing (read_request and handle_managed_connection, bounded_io.rs and lib.rs).
THEOREM RequestsWhole == Spec => []ExecutedWhole
<1>1. IInv => ExecutedWhole
  <2>1. SUFFICES ASSUME IInv
                 PROVE  ExecutedWhole
    OBVIOUS
  <2>2. TypeOK /\ Rq!DeliveredIsFirstLine
    BY <2>1, RequestReader DEF IInv, ReadInv, Request
  <2>3. QED BY <2>1, <2>2, ExecutedIs DEF ExecutedWhole
<1>2. QED BY <1>1, Invariance, PTL

\* A response of the program that has come to its newline is complete.
LEMMA CompleteAnswer ==
  ASSUME IInv, server \notin Stranger, Rq!HasNewline(toClient)
  PROVE  /\ executed # Nothing /\ toClient = response
         /\ Rq!ThroughNewline(toClient) = response
<1>1. /\ Rest /\ toClient \in Seq(Bytes) /\ srvFrame \in Seq(Bytes)
  BY RestOf
<1>2. PICK k \in Nat : FirstAt(toClient, k)
  BY <1>1, FirstExists
<1>3. k \in 1 .. Len(toClient) /\ toClient[k] = Newline
  BY <1>2 DEF FirstAt
<1>4. server \in {"writing", "written", "unwritten"}
  <2>1. toClient # <<>>
    BY <1>3, EmptySeq
  <2>2. QED BY <1>1, <2>1 DEF Rest, OwnTypes, ServerInv, ServerEnded
<1>5. PrefixOf(toClient, response) /\ response \in Responses /\ executed = srvFrame
  BY <1>1, <1>4 DEF Rest, ServerInv
<1>6. /\ response \in Seq(Bytes) /\ Len(response) \in Nat
      /\ \A i \in 1 .. Len(response) - 1 : response[i] # Newline
  BY <1>5, ResponseIs
<1>7. k = Len(response) /\ Len(toClient) = Len(response)
  BY <1>1, <1>3, <1>5, <1>6 DEF PrefixOf
<1>8. toClient = response
  BY <1>1, <1>5, <1>6, <1>7, SeqEqual DEF PrefixOf
<1>9. Rq!ThroughNewline(toClient) = SubSeq(toClient, 1, Len(toClient))
  BY <1>1, <1>2, <1>7, ThroughFirst
<1>10. SubSeq(toClient, 1, Len(toClient)) = toClient
  BY <1>1, SubSeqFull
<1>11. QED BY <1>1, <1>5, <1>8, <1>9, <1>10, TextAssumption

\* A client that returns an answer returns all of it, and the service has then
\* executed its request; an answer that came in time is not lost (send_request).
THEOREM AnswersTrue == Spec => []AnsweredTruly
<1>1. IInv => AnsweredTruly
  <2>1. SUFFICES ASSUME IInv
                 PROVE  AnsweredTruly
    OBVIOUS
  <2>2. Rs!DeliveredIsFirstLine /\ Rest
    BY <2>1, AnswerReader, RestOf DEF IInv, ReadInv, Answer
  <2>3. client \in {"timed_out", "failed"} => cliRead # "delivered"
    BY <2>2 DEF Rest, ResultInv
  <2>4. ASSUME client \in {"answered", "empty"}
        PROVE  cliRead = "delivered" /\ cliFrame = Rs!ThroughNewline(toClient)
               /\ Rs!HasNewline(toClient)
    BY <2>2, <2>4 DEF Rest, ResultInv, Rs!DeliveredIsFirstLine
  <2>5. client = "empty" => Rs!ThroughNewline(toClient) \in EmptyLines
    BY <2>2, <2>4 DEF Rest, ResultInv
  <2>6. ASSUME client = "answered", server \notin Stranger
        PROVE  executed = FirstLine /\ cliFrame = response
    <3>1. Rq!HasNewline(toClient) /\ cliFrame = Rq!ThroughNewline(toClient)
      BY <2>4, <2>6, SameLines
    <3>2. QED BY <2>1, <2>6, <3>1, CompleteAnswer, ExecutedIs
  <2>7. QED BY <2>2, <2>3, <2>4, <2>5, <2>6 DEF AnsweredTruly
<1>2. QED BY <1>1, Invariance, PTL

\* Neither side refuses a frame that keeps to the limit, and the check of the size in
\* send_request lets through exactly what read_request accepts.
THEOREM RefusalsJust == Spec => []RefusedJustly
<1>1. IInv => RefusedJustly
  <2>1. SUFFICES ASSUME IInv
                 PROVE  RefusedJustly
    OBVIOUS
  <2>2. /\ Rq!RefusedJustly /\ Rs!RefusedJustly /\ Refused(MaxRequest, Request)
        /\ Rest /\ toServer \in Seq(Bytes)
    BY <2>1, RequestReader, AnswerReader, RestOf DEF IInv, ReadInv
  <2>3. client = "too_large" => Len(FramedText(request)) > MaxRequest
    BY <2>2 DEF Rest, ClientInv, Text, Stranger
  <2>4. ASSUME srvRead = "oversized", client \notin Stranger
        PROVE  FALSE
    <3>1. /\ Len(toServer) >= MaxRequest /\ ~ Rq!HasNewline(SubSeq(toServer, 1, MaxRequest))
          /\ MaxRequest \in Nat \ {0}
      BY <2>2, <2>4, LimitsAssumption DEF Refused, Request
    <3>2. /\ Text \in Seq(Bytes) /\ Len(Text) \in Nat \ {0} /\ Text[Len(Text)] = Newline
          /\ PrefixOf(toServer, Text)
      BY <2>2, <2>4, TextIs DEF Rest, OwnTypes, ClientInv
    <3>3. Len(Text) <= MaxRequest
      <4>1. Len(toServer) # 0
        BY <2>2, <3>1
      <4>2. toServer # <<>>
        BY <4>1, EmptySeq
      <4>3. QED BY <2>2, <2>4, <4>2 DEF Rest, ClientInv
    <3>4. Len(toServer) = MaxRequest /\ Len(Text) = MaxRequest
      BY <2>2, <3>1, <3>2, <3>3 DEF PrefixOf
    <3>5. toServer[MaxRequest] = Newline
      BY <3>1, <3>2, <3>4 DEF PrefixOf
    <3>6. \A i \in 1 .. MaxRequest : toServer[i] # Newline
      BY <2>2, <3>1, <3>4, NoNewline
    <3>7. QED BY <3>1, <3>5, <3>6
  <2>5. QED BY <2>2, <2>3, <2>4 DEF RefusedJustly
<1>2. QED BY <1>1, Invariance, PTL

-----------------------------------------------------------------------------
\* No verdict on the contents of a frame is given after the deadline of its read, on
\* either side and whatever the peer does (read_frame looks at the clock again after
\* every read).
THEOREM VerdictsInTime == Spec => Rq!NothingAfterDeadline /\ Rs!NothingAfterDeadline
<1>1. ASSUME IInv, [Next]_vars
      PROVE  srvReadLate => srvRead' \in {srvRead, "reading", "examine", "timed_out", "failed"}
  <2>1. CASE ReaderActs(MaxRequest, Request, Request')
    BY <2>1 DEF ReaderActs, Turns, Reads, Examines, Verdict, Request
  <2>2. CASE PeerActs(Request, Request')
    BY <2>2 DEF PeerActs, Request
  <2>3. QED BY <1>1, <2>1, <2>2, RequestReaderSteps
<1>2. ASSUME IInv, [Next]_vars
      PROVE  cliLate => cliRead' \in {cliRead, "reading", "examine", "timed_out", "failed"}
  <2>1. CASE ReaderActs(MaxResponse, Answer, Answer')
    BY <2>1 DEF ReaderActs, Turns, Reads, Examines, Verdict, Answer
  <2>2. CASE PeerActs(Answer, Answer')
    BY <2>2 DEF PeerActs, Answer
  <2>3. QED BY <1>2, <2>1, <2>2, AnswerReaderSteps
<1>3. QED BY <1>1, <1>2, Invariance, PTL
          DEF Spec, Rq!NothingAfterDeadline, Rs!NothingAfterDeadline
=============================================================================
