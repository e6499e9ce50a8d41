---------------------------- MODULE StateRecord ----------------------------
(***************************************************************************)
(* What the service state file promises to the commands that use it: one   *)
(* record, or none, put there and taken away as a whole; a reader that     *)
(* keeps the record it opened; and something at the path that is no record *)
(* stays until the user deals with it.  StateFile implements this with     *)
(* temporaries, a lock and failures.                                       *)
(***************************************************************************)
CONSTANTS
    Commands,  \* processes of the service commands
    States,    \* records of a service
    Absent,    \* nothing at the path
    Bad,       \* something that is no record
    Unopened   \* a command that has not opened the file

VARIABLES record, view

Init ==
    /\ record \in States \union {Absent, Bad}
    /\ view = [c \in Commands |-> Unopened]

Put ==
    /\ record # Bad
    /\ record' \in States
    /\ UNCHANGED view

TakeAway ==
    /\ record \in States
    /\ record' = Absent
    /\ UNCHANGED view

BeginRead(c) ==
    /\ record # Absent
    /\ view[c] = Unopened
    /\ view' = [view EXCEPT ![c] = record]
    /\ UNCHANGED record

EndRead(c) ==
    /\ view[c] # Unopened
    /\ view' = [view EXCEPT ![c] = Unopened]
    /\ UNCHANGED record

Next == Put \/ TakeAway \/ \E c \in Commands : BeginRead(c) \/ EndRead(c)

Spec == Init /\ [][Next]_<<record, view>>
=============================================================================
