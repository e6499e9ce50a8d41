---------------------------- MODULE BoundedFrame ----------------------------
(***************************************************************************)
(* One frame read from one connection: read_frame of daemon/bounded_io.rs  *)
(* under the deadline its callers wrap it in.  What arrives, the end of    *)
(* the connection and the deadline are up to the module that uses this     *)
(* one: FramedExchange reads a frame on both sides of a connection.        *)
(*                                                                         *)
(* A byte is a newline, a byte of Invalid, which no UTF-8 text contains,   *)
(* or an ordinary one.                                                     *)
(***************************************************************************)
EXTENDS Integers, Sequences

CONSTANTS
    MaxBytes,     \* the limit of a frame, including its newline
    BufferBytes,  \* READ_BUFFER_BYTES
    Bytes,
    Newline,
    Invalid

VARIABLES
    pc,     \* where read_frame is, or how it ended
    frame,  \* what it has kept
    chunk,  \* the bytes of the last read
    taken,  \* how many bytes of the connection it has read
    late,   \* the deadline has passed
    sent,   \* what the peer has sent
    peer    \* the state of the peer's half of the connection

reader == <<pc, frame, chunk, taken>>
connection == <<sent, peer>>
vars == <<reader, late, connection>>

Running == {"top", "reading", "examine"}
Results == {"delivered", "unexpected_eof", "truncated", "not_utf8", "oversized", "timed_out",
            "failed"}

SetOfBytes(s) == {s[i] : i \in DOMAIN s}
HasNewline(s) == Newline \in SetOfBytes(s)
ValidText(s) == SetOfBytes(s) \intersect Invalid = {}

Init ==
    /\ pc = "top"
    /\ frame = <<>>
    /\ chunk = <<>>
    /\ taken = 0
    /\ late = FALSE
    /\ sent = <<>>
    /\ peer = "open"

----------------------------------------------------------------------------
(* The reader. *)

ReadLimit == IF BufferBytes < MaxBytes - Len(frame) THEN BufferBytes ELSE MaxBytes - Len(frame)

StartRead ==
    /\ pc = "top"
    /\ pc' = IF late THEN "timed_out" ELSE "reading"
    /\ UNCHANGED <<frame, chunk, taken>>

(* At least one byte that has arrived, and at most what the buffer and the *)
(* limit leave; nothing once the peer has closed and all has been read.  A *)
(* read into a buffer of no bytes returns nothing too.                     *)
Read ==
    /\ pc = "reading"
    /\ \E n \in 0 .. ReadLimit :
          /\ n <= Len(sent) - taken
          /\ n = 0 => ReadLimit = 0 \/ (peer = "closed" /\ taken = Len(sent))
          /\ chunk' = SubSeq(sent, taken + 1, taken + n)
          /\ taken' = taken + n
    /\ pc' = "examine"
    /\ UNCHANGED frame

ReadFails ==
    /\ pc = "reading"
    /\ peer = "broken"
    /\ pc' = "failed"
    /\ UNCHANGED <<frame, chunk, taken>>

(* timeout_at gives up a read that is pending when the deadline passes. *)
Expire ==
    /\ pc = "reading"
    /\ late
    /\ pc' = "timed_out"
    /\ UNCHANGED <<frame, chunk, taken>>

(* The text up to and including the first newline, when there is one: what *)
(* follows it in the chunk is dropped.                                     *)
ThroughNewline(s) ==
    LET first == CHOOSE i \in DOMAIN s : s[i] = Newline /\ ~HasNewline(SubSeq(s, 1, i - 1))
    IN  SubSeq(s, 1, first)

\* Mutant: the rest of the chunk is kept with the line.
MutantKept == frame \o chunk

Kept == IF HasNewline(chunk) THEN frame \o ThroughNewline(chunk) ELSE frame \o chunk

\* Mutant: the size is compared before the newline is looked for.
MutantVerdict ==
    IF late THEN "timed_out"
    ELSE IF chunk = <<>> THEN IF frame = <<>> THEN "unexpected_eof" ELSE "truncated"
    ELSE IF Len(Kept) = MaxBytes THEN "oversized"
    ELSE IF HasNewline(chunk) THEN IF ValidText(Kept) THEN "delivered" ELSE "not_utf8"
    ELSE "top"

\* Mutant: the deadline is not looked at again after the read.
MutantVerdictLate ==
    IF chunk = <<>> THEN IF frame = <<>> THEN "unexpected_eof" ELSE "truncated"
    ELSE IF HasNewline(chunk) THEN IF ValidText(Kept) THEN "delivered" ELSE "not_utf8"
    ELSE IF Len(Kept) = MaxBytes THEN "oversized" ELSE "top"

Verdict ==
    IF late THEN "timed_out"
    ELSE IF chunk = <<>> THEN IF frame = <<>> THEN "unexpected_eof" ELSE "truncated"
    ELSE IF HasNewline(chunk) THEN IF ValidText(Kept) THEN "delivered" ELSE "not_utf8"
    ELSE IF Len(Kept) = MaxBytes THEN "oversized" ELSE "top"

Examine ==
    /\ pc = "examine"
    /\ pc' = Verdict
    /\ frame' = IF late THEN frame ELSE Kept
    /\ chunk' = <<>>
    /\ UNCHANGED taken

ReaderStep == StartRead \/ Read \/ ReadFails \/ Expire \/ Examine

----------------------------------------------------------------------------

TypeOK ==
    /\ pc \in Running \union Results
    /\ frame \in Seq(Bytes)
    /\ chunk \in Seq(Bytes)
    /\ taken \in 0 .. Len(sent)
    /\ late \in BOOLEAN
    /\ sent \in Seq(Bytes)
    /\ peer \in {"open", "closed", "broken"}

(* A frame that read_frame returns is the text the peer sent up to and     *)
(* including its first newline, however it was cut into reads: nothing is  *)
(* lost, repeated or added, no second line gets in, it fits the limit and  *)
(* it is text.                                                             *)
DeliveredIsFirstLine ==
    pc = "delivered" =>
        /\ HasNewline(sent)
        /\ frame = ThroughNewline(sent)
        /\ Len(frame) <= MaxBytes
        /\ ValidText(frame)

(* A frame is refused for its size, or for ending early, only if what the  *)
(* peer sent really has no newline within the limit: a line whose newline  *)
(* is the last byte allowed is not refused, whatever the reads were.  The  *)
(* reader never reads past the limit, not even to find out that a frame is *)
(* too long, and a read always asks for at least one byte, so that no      *)
(* bytes means the end.                                                    *)
RefusedJustly ==
    /\ pc = "oversized" => Len(sent) >= MaxBytes /\ ~HasNewline(SubSeq(sent, 1, MaxBytes))
    /\ pc = "truncated" => peer = "closed" /\ sent # <<>> /\ ~HasNewline(sent)
    /\ pc = "unexpected_eof" => peer = "closed" /\ sent = <<>>
    /\ taken <= MaxBytes
    /\ pc = "reading" => ReadLimit > 0

(* No frame is delivered and no other verdict on its contents is given     *)
(* after the deadline, even when the bytes and the deadline come together. *)
NothingAfterDeadline == [][late => pc' \in {pc, "reading", "examine", "timed_out", "failed"}]_vars
=============================================================================
