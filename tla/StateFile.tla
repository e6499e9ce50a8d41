----------------------------- MODULE StateFile -----------------------------
(***************************************************************************)
(* The advisory state file of a service, read, replaced and removed by     *)
(* the commands `service status`, `start` and `stop` (service.rs), with    *)
(* the startup lock that start and stop hold across a read and the write   *)
(* or the removal that follows from it.                                    *)
(*                                                                         *)
(* A record of s takes Size[s] units in the file, the closing newline is   *)
(* the last of them.  What a writer has buffered counts as written: no     *)
(* process opens the temporary before it has been flushed.  A file that is *)
(* open is what it contains: the writer closes it before it has the path.  *)
(***************************************************************************)
EXTENDS Naturals

CONSTANTS
    Commands,
    States, Size,   \* records of a service, and their lengths
    Limit,          \* MAX_STATE_BYTES
    Attempts,       \* TEMP_ATTEMPTS
    MaxKills,       \* bound: how many commands are killed
    NoFile,
    Stray,          \* a file that no running command has made
    Absent, Bad, Unopened,  \* the outcomes of a read that is no record
    Nobody

ASSUME SizeAssumption ==
    /\ Size \in [States -> Nat \ {0, 1}]
    /\ Limit \in Nat \ {0}
    /\ Attempts \in Nat \ {0}
    /\ MaxKills \in Nat

ASSUME SentinelAssumption ==
    /\ Nobody \notin Commands
    /\ States \intersect {Absent, Bad, Unopened} = {}
    /\ Absent # Bad
    /\ Unopened # Bad
    /\ NoFile \notin {Bad, Stray}
    /\ {Bad, NoFile, Stray} \intersect [state : States, length : 0 .. Limit] = {}

\* The process, with a timestamp that does not help, and a sequence number that
\* starts over in every process.
Names == Commands \X (0 .. Attempts - 1)

VARIABLES
    path,      \* the file at the path of the state
    temps,     \* the files beside it
    lock,      \* owner of the startup lock
    pc,
    fd,        \* the file that a command has open for reading
    found,     \* what it has read under the lock
    wanted,    \* the record it writes
    own,       \* the temporary it has created
    tries,     \* names it has tried
    kills

files == <<path, temps>>
command == <<fd, found, wanted, own, tries>>
vars == <<files, lock, pc, command, kills>>

Labels == {"off", "peek", "lock", "look", "create", "write", "sync", "rename", "discard",
           "written", "compare", "remove"}
Reading == {"peek", "look", "compare"}
Writing == {"write", "sync", "rename", "discard"}
NoName == <<>>
Contents == [state : States, length : 0 .. Limit]

TypeOK ==
    /\ path \in Contents \union {Bad, NoFile}
    /\ temps \in [Names -> Contents \union {NoFile, Stray}]
    /\ lock \in Commands \union {Nobody}
    /\ pc \in [Commands -> Labels]
    /\ fd \in [Commands -> Contents \union {Bad, NoFile}]
    /\ found \in [Commands -> States \union {Absent}]
    /\ wanted \in [Commands -> States \union {Absent}]
    /\ own \in [Commands -> Names \union {NoName}]
    /\ tries \in [Commands -> 0 .. Attempts]
    /\ kills \in 0 .. MaxKills

Whole(s) == [state |-> s, length |-> Size[s]]

\* The file of an earlier command, or of none, or of somebody else.
Init ==
    /\ path \in {NoFile, Bad} \union {Whole(s) : s \in {t \in States : Size[t] <= Limit}}
    /\ temps \in [Names -> {NoFile, Stray}]
    /\ lock = Nobody
    /\ pc = [c \in Commands |-> "off"]
    /\ fd = [c \in Commands |-> NoFile]
    /\ found = [c \in Commands |-> Absent]
    /\ wanted = [c \in Commands |-> Absent]
    /\ own = [c \in Commands |-> NoName]
    /\ tries = [c \in Commands |-> 0]
    /\ kills = 0

Goto(c, label) == pc' = [pc EXCEPT ![c] = label]

\* The process is gone, and with it its lock and what it knew.
Ends(c) ==
    /\ Goto(c, "off")
    /\ lock' = IF lock = c THEN Nobody ELSE lock
    /\ fd' = [fd EXCEPT ![c] = NoFile]
    /\ found' = [found EXCEPT ![c] = Absent]
    /\ wanted' = [wanted EXCEPT ![c] = Absent]
    /\ own' = [own EXCEPT ![c] = NoName]
    /\ tries' = [tries EXCEPT ![c] = 0]

-----------------------------------------------------------------------------
(***************************************************************************)
(* read_state, and what a command makes of it.                             *)
(***************************************************************************)

\* A record is understood without its newline, but not when more is missing.
Read(contents) ==
    IF contents # Bad /\ contents.length <= Limit /\ contents.length >= Size[contents.state] - 1
    THEN contents.state ELSE Bad

Begin(c) ==
    /\ pc[c] = "off"
    /\ Goto(c, "peek")
    /\ UNCHANGED <<files, lock, command, kills>>

\* status goes no further; start and stop ask for the lock.
Peeked(c, result) ==
    /\ pc[c] = "peek"
    /\ \/ Ends(c)
       \/ /\ result # Bad
          /\ Goto(c, "lock")
          /\ fd' = [fd EXCEPT ![c] = NoFile]
          /\ UNCHANGED <<lock, found, wanted, own, tries>>

\* start writes what its child answers, whether or not a stale record is there;
\* stop takes a stale or ended record away.
Looked(c, result) ==
    /\ pc[c] = "look"
    /\ \/ Ends(c)
       \/ /\ result # Bad
          /\ found' = [found EXCEPT ![c] = result]
          /\ \E s \in States : wanted' = [wanted EXCEPT ![c] = s]
          /\ Goto(c, "create")
          /\ fd' = [fd EXCEPT ![c] = NoFile]
          /\ UNCHANGED <<lock, own, tries>>
       \/ /\ result \in States
          /\ found' = [found EXCEPT ![c] = result]
          /\ Goto(c, "compare")
          /\ fd' = [fd EXCEPT ![c] = NoFile]
          /\ UNCHANGED <<lock, wanted, own, tries>>

\* remove_state_if_matches
Compared(c, result) ==
    /\ pc[c] = "compare"
    /\ IF result = found[c]
       THEN /\ Goto(c, "remove")
            /\ fd' = [fd EXCEPT ![c] = NoFile]
            /\ UNCHANGED <<lock, found, wanted, own, tries>>
       ELSE Ends(c)

Conclude(c, result) ==
    /\ Peeked(c, result) \/ Looked(c, result) \/ Compared(c, result)
    /\ UNCHANGED <<files, kills>>

Open(c) ==
    /\ pc[c] \in Reading
    /\ fd[c] = NoFile
    /\ path # NoFile
    /\ fd' = [fd EXCEPT ![c] = path]
    /\ UNCHANGED <<files, lock, pc, found, wanted, own, tries, kills>>

FindsNothing(c) ==
    /\ fd[c] = NoFile
    /\ path = NoFile
    /\ Conclude(c, Absent)

ReadToEnd(c) ==
    /\ fd[c] # NoFile
    /\ Conclude(c, Read(fd[c]))

-----------------------------------------------------------------------------
(***************************************************************************)
(* The startup lock.                                                       *)
(***************************************************************************)

\* Mutant: two commands may hold the lock.
MutantTakeLock(c) ==
    /\ pc[c] = "lock"
    /\ lock' = c
    /\ Goto(c, "look")
    /\ UNCHANGED <<files, command, kills>>

TakeLock(c) ==
    /\ pc[c] = "lock"
    /\ lock = Nobody
    /\ lock' = c
    /\ Goto(c, "look")
    /\ UNCHANGED <<files, command, kills>>

LockIsHeld(c) ==
    /\ pc[c] = "lock"
    /\ lock # Nobody
    /\ Ends(c)
    /\ UNCHANGED <<files, kills>>

-----------------------------------------------------------------------------
(***************************************************************************)
(* write_state                                                             *)
(***************************************************************************)

NextName(c) == <<c, tries[c]>>

\* create_new under the next name.
CreateTemporary(c) ==
    /\ pc[c] = "create"
    /\ tries[c] < Attempts
    /\ temps[NextName(c)] = NoFile
    /\ temps' = [temps EXCEPT ![NextName(c)] = [state |-> wanted[c], length |-> 0]]
    /\ own' = [own EXCEPT ![c] = NextName(c)]
    /\ Goto(c, "write")
    /\ UNCHANGED <<path, lock, fd, found, wanted, tries, kills>>

\* Mutant: the file that is in the way is removed.
MutantClears(c) ==
    /\ pc[c] = "create"
    /\ tries[c] < Attempts
    /\ temps[NextName(c)] # NoFile
    /\ temps' = [temps EXCEPT ![NextName(c)] = NoFile]
    /\ UNCHANGED <<path, lock, pc, command, kills>>

Collides(c) ==
    /\ pc[c] = "create"
    /\ tries[c] < Attempts
    /\ temps[NextName(c)] # NoFile
    /\ tries' = [tries EXCEPT ![c] = @ + 1]
    /\ UNCHANGED <<files, lock, pc, fd, found, wanted, own, kills>>

NoAttemptLeft(c) ==
    /\ pc[c] = "create"
    /\ tries[c] = Attempts
    /\ Ends(c)
    /\ UNCHANGED <<files, kills>>

\* Another error than a collision.
CreateFails(c) ==
    /\ pc[c] = "create"
    /\ tries[c] < Attempts
    /\ Ends(c)
    /\ UNCHANGED <<files, kills>>

Temporary(c) == temps[own[c]]
Written(c) == Temporary(c).length

\* Mutant: the limit does not count the newline.
MutantWrite(c) ==
    /\ pc[c] = "write"
    /\ IF Written(c) = Size[wanted[c]] THEN /\ Goto(c, "sync")
                                            /\ UNCHANGED temps
       ELSE IF Written(c) = Limit + 1 THEN /\ Goto(c, "discard")
                                           /\ UNCHANGED temps
       ELSE /\ temps' = [temps EXCEPT ![own[c]].length = @ + 1]
            /\ UNCHANGED pc
    /\ UNCHANGED <<path, lock, command, kills>>

\* StateWriter: a piece that does not fit into the rest of the limit is refused.
Write(c) ==
    /\ pc[c] = "write"
    /\ IF Written(c) = Size[wanted[c]] THEN /\ Goto(c, "sync")
                                            /\ UNCHANGED temps
       ELSE IF Written(c) = Limit THEN /\ Goto(c, "discard")
                                       /\ UNCHANGED temps
       ELSE /\ temps' = [temps EXCEPT ![own[c]].length = @ + 1]
            /\ UNCHANGED pc
    /\ UNCHANGED <<path, lock, command, kills>>

Sync(c) ==
    /\ pc[c] = "sync"
    /\ Goto(c, "rename")
    /\ UNCHANGED <<files, lock, command, kills>>

\* Mutant: an error of the flush is ignored.
MutantWriteFails(c) ==
    /\ pc[c] \in {"write", "sync", "rename"}
    /\ Goto(c, "rename")
    /\ UNCHANGED <<files, lock, command, kills>>

\* An error while the record is written, flushed, synchronised or renamed.
WriteFails(c) ==
    /\ pc[c] \in {"write", "sync", "rename"}
    /\ Goto(c, "discard")
    /\ UNCHANGED <<files, lock, command, kills>>

Rename(c) ==
    /\ pc[c] = "rename"
    /\ path' = Temporary(c)
    /\ temps' = [temps EXCEPT ![own[c]] = NoFile]
    /\ Goto(c, "written")
    /\ UNCHANGED <<lock, command, kills>>

\* The drop of StateTemporary, whose error nobody sees.
Discard(c) ==
    /\ pc[c] = "discard"
    /\ temps' = [temps EXCEPT ![own[c]] = NoFile]
    /\ Ends(c)
    /\ UNCHANGED <<path, kills>>

DiscardFails(c) ==
    /\ pc[c] = "discard"
    /\ temps' = [temps EXCEPT ![own[c]] = Stray]
    /\ Ends(c)
    /\ UNCHANGED <<path, kills>>

\* The command says that the service has started.
Succeeds(c) ==
    /\ pc[c] = "written"
    /\ Ends(c)
    /\ UNCHANGED <<files, kills>>

-----------------------------------------------------------------------------
\* The removal, or its error.
Remove(c) ==
    /\ pc[c] = "remove"
    /\ path' \in {NoFile, path}
    /\ Ends(c)
    /\ UNCHANGED <<temps, kills>>

Kill(c) ==
    /\ pc[c] # "off"
    /\ kills < MaxKills
    /\ kills' = kills + 1
    /\ temps' = IF pc[c] \in Writing THEN [temps EXCEPT ![own[c]] = Stray] ELSE temps
    /\ Ends(c)
    /\ UNCHANGED path

Fails(c) == CreateFails(c) \/ WriteFails(c) \/ DiscardFails(c)

Step(c) ==
    \/ Open(c) \/ FindsNothing(c) \/ ReadToEnd(c)
    \/ TakeLock(c) \/ LockIsHeld(c)
    \/ CreateTemporary(c) \/ Collides(c) \/ NoAttemptLeft(c)
    \/ Write(c) \/ Sync(c) \/ Rename(c) \/ Discard(c) \/ Succeeds(c)
    \/ Remove(c)

Next == \E c \in Commands : Begin(c) \/ Step(c) \/ Fails(c) \/ Kill(c)

Spec == Init /\ [][Next]_vars

\* Nothing in a read, a write or a removal waits for another process.
FairSpec == Spec /\ \A c \in Commands : WF_vars(Step(c))

-----------------------------------------------------------------------------
Record == IF path = NoFile THEN Absent ELSE Read(path)

\* A command that has written its state leaves a file that can be read, and that
\* is the state: what write_state admits, with the newline, read_state admits.
SuccessIsReadable ==
    /\ TypeOK
    /\ \A c \in Commands : pc[c] = "written" => Record = wanted[c]

\* The path changes only by a command that replaces or removes what it has itself
\* read there under the startup lock; a failed write leaves it as it was, and
\* there is no moment without a file while one is replaced.
ChangesOnlyWhatItSaw ==
    [][path' # path => \E c \in Commands :
           /\ pc'[c] # pc[c]
           /\ pc[c] = IF path' = NoFile THEN "remove" ELSE "rename"
           /\ found[c] = Record]_vars

Accounted(n) ==
    temps[n] \in {NoFile, Stray} \/ \E c \in Commands : own[c] = n /\ pc[c] \in Writing

\* A temporary belongs to the command that writes it, unless that was killed or could
\* not remove it; one that was left behind is never opened, replaced or removed by
\* another command, and does not keep any status, start or stop from ending.
TemporariesHarmless ==
    /\ [](\A n \in Names : Accounted(n))
    /\ [][\A n \in Names : temps[n] = Stray => temps'[n] = Stray]_vars
    /\ \A c \in Commands : pc[c] # "off" ~> pc[c] = "off"

Promise == INSTANCE StateRecord WITH
    record <- Record,
    view <- [c \in Commands |-> IF fd[c] = NoFile THEN Unopened ELSE Read(fd[c])]

\* Readers find one record or none, as a whole, also while it is replaced under
\* them, and a file that is no record is neither replaced nor removed.
ImplementsStateRecord == Promise!Spec
=============================================================================
