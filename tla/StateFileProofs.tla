--------------------------- MODULE StateFileProofs ---------------------------
(***************************************************************************)
(* Theorems of StateFile for any commands, records, lengths, limit and     *)
(* number of attempts.  The startup lock makes start and stop take turns,  *)
(* so what a command has read under it is still at the path when it        *)
(* replaces or removes the file; and a temporary is renamed only when all  *)
(* of its record is in it, which the limit of the writer allows only for a *)
(* record that the reader admits.                                          *)
(***************************************************************************)
EXTENDS StateFile, TLAPS

\* Labels that are reached only with the startup lock.
Locked == {"look", "create", "write", "sync", "rename", "discard", "written", "compare",
           "remove"}

LockInv == \A c \in Commands : pc[c] \in Locked => lock = c

\* An open file is being read, and under the lock it is the one at the path.
OpenInv == \A c \in Commands : fd[c] # NoFile =>
    /\ pc[c] \in Reading
    /\ pc[c] # "peek" => fd[c] = path

\* What a command found is still there when it acts on it.
FoundInv == \A c \in Commands :
    /\ pc[c] \in {"create", "write", "sync", "rename", "compare", "remove"} =>
          found[c] = Record
    /\ pc[c] \in {"compare", "remove"} => found[c] \in States

\* The temporary holds a beginning of the record, all of it before the rename.
WriteInv == \A c \in Commands :
    /\ pc[c] \in {"create", "written"} \union Writing => wanted[c] \in States
    /\ pc[c] \in Writing => /\ own[c] \in Names
                            /\ temps[own[c]] \in Contents
                            /\ temps[own[c]].state = wanted[c]
    /\ pc[c] \in {"sync", "rename"} => temps[own[c]] = Whole(wanted[c])
    /\ pc[c] = "written" => Record = wanted[c]

IInv == TypeOK /\ LockInv /\ OpenInv /\ FoundInv /\ WriteInv

-----------------------------------------------------------------------------
\* Reading a file gives a record of a service or none.
LEMMA ReadType ==
    ASSUME NEW f \in Contents \union {Bad}
    PROVE  Read(f) \in States \union {Bad}
BY DEF Read, Contents

\* What the path holds is absent, a record of a service, or no record.
LEMMA RecordType == TypeOK => Record \in States \union {Bad, Absent}
BY ReadType DEF TypeOK, Record

\* A record that fits the limit is read back.
LEMMA WholeIsRead ==
    ASSUME NEW s \in States, Whole(s) \in Contents
    PROVE  Whole(s) \notin {Bad, NoFile} /\ Read(Whole(s)) = s
<1>1. Size[s] \in Nat \ {0, 1} /\ Size[s] \in 0 .. Limit
  BY SizeAssumption DEF Whole, Contents
<1>2. Whole(s) \notin {Bad, NoFile}
  BY <1>1, SentinelAssumption DEF Whole
<1>3. QED
  BY <1>1, <1>2, SizeAssumption DEF Whole, Read

\* No temporary that is written to is the mark of a file or of none.
LEMMA ContentsAreFiles ==
    ASSUME NEW f \in Contents
    PROVE  f \notin {Bad, NoFile, Stray}
BY SentinelAssumption DEF Contents

\* Ending a command keeps the types and leaves it without a lock or a file.
LEMMA EndsType ==
    ASSUME TypeOK, NEW c \in Commands, Ends(c)
    PROVE  /\ pc' = [pc EXCEPT ![c] = "off"]
           /\ lock' \in Commands \union {Nobody}
           /\ pc' \in [Commands -> Labels]
           /\ fd' \in [Commands -> Contents \union {Bad, NoFile}]
           /\ found' \in [Commands -> States \union {Absent}]
           /\ wanted' \in [Commands -> States \union {Absent}]
           /\ own' \in [Commands -> Names \union {NoName}]
           /\ tries' \in [Commands -> 0 .. Attempts]
           /\ fd' = [fd EXCEPT ![c] = NoFile]
           /\ \A d \in Commands \ {c} :
                 /\ pc'[d] = pc[d] /\ fd'[d] = fd[d] /\ found'[d] = found[d]
                 /\ wanted'[d] = wanted[d] /\ own'[d] = own[d]
                 /\ lock = d => lock' = d
BY SizeAssumption DEF TypeOK, Ends, Goto, Labels

\* Only one command is past the lock.
LEMMA Turns ==
    ASSUME LockInv, NEW c \in Commands, NEW d \in Commands,
           pc[c] \in Locked, pc[d] \in Locked
    PROVE  c = d
BY DEF LockInv

\* The end of a command keeps the invariant when it leaves the path and the
\* temporaries of the others alone.
LEMMA EndsKeeps ==
    ASSUME IInv, NEW c \in Commands, Ends(c), path' = path,
           temps' \in [Names -> Contents \union {NoFile, Stray}],
           temps' = temps \/ pc[c] \in Locked, kills' \in 0 .. MaxKills
    PROVE  IInv'
<1>1. TypeOK'
  BY EndsType DEF IInv, TypeOK
<1>2. /\ pc'[c] = "off" /\ fd'[c] = NoFile
      /\ \A d \in Commands \ {c} :
            /\ pc'[d] = pc[d] /\ fd'[d] = fd[d] /\ found'[d] = found[d]
            /\ wanted'[d] = wanted[d] /\ own'[d] = own[d]
            /\ lock = d => lock' = d
  BY EndsType DEF IInv, TypeOK
<1>3. Record' = Record
  BY DEF Record
<1>4. LockInv' /\ OpenInv' /\ FoundInv'
  BY <1>2, <1>3 DEF IInv, LockInv, OpenInv, FoundInv, Locked, Reading
<1>5. WriteInv'
  <2>1. SUFFICES ASSUME NEW d \in Commands, d # c
                 PROVE  /\ pc[d] \in {"create", "written"} \union Writing =>
                              wanted[d] \in States
                        /\ pc[d] \in Writing => /\ own[d] \in Names
                                                /\ temps'[own[d]] \in Contents
                                                /\ temps'[own[d]].state = wanted[d]
                        /\ pc[d] \in {"sync", "rename"} =>
                              temps'[own[d]] = Whole(wanted[d])
                        /\ pc[d] = "written" => Record = wanted[d]
    BY <1>2, <1>3 DEF WriteInv, Writing
  <2>2. temps' = temps \/ pc[d] \notin Locked
    BY <2>1, Turns DEF IInv
  <2>3. QED
    BY <2>2 DEF IInv, WriteInv, Writing, Locked
<1>6. QED BY <1>1, <1>4, <1>5 DEF IInv

\* What a command goes on with after a read under the lock is what is there.
LEMMA ConcludeKeeps ==
    ASSUME IInv, NEW c \in Commands, NEW result, Conclude(c, result),
           result \in States \union {Absent, Bad},
           pc[c] \in {"look", "compare"} => result = Record
    PROVE  IInv'
<1>1. CASE Ends(c)
  BY <1>1, EndsKeeps DEF Conclude, IInv, TypeOK, files
<1>2. CASE ~ Ends(c)
  <2>1. TypeOK /\ Record' = Record /\ UNCHANGED <<path, temps, lock, own, tries, kills>>
    BY <1>2 DEF Conclude, Peeked, Looked, Compared, IInv, files, Record
  <2>2. /\ pc[c] \in {"peek", "look", "compare"}
        /\ fd' = [fd EXCEPT ![c] = NoFile]
        /\ \/ pc' = [pc EXCEPT ![c] = "lock"] /\ UNCHANGED <<found, wanted>> /\ pc[c] = "peek"
           \/ /\ pc' = [pc EXCEPT ![c] = "create"] /\ pc[c] = "look"
              /\ result # Bad
              /\ found' = [found EXCEPT ![c] = result]
              /\ \E s \in States : wanted' = [wanted EXCEPT ![c] = s]
           \/ /\ pc' = [pc EXCEPT ![c] = "compare"] /\ pc[c] = "look"
              /\ result \in States
              /\ found' = [found EXCEPT ![c] = result] /\ UNCHANGED wanted
           \/ /\ pc' = [pc EXCEPT ![c] = "remove"] /\ pc[c] = "compare"
              /\ UNCHANGED <<found, wanted>>
    BY <1>2 DEF Conclude, Peeked, Looked, Compared, Goto
  <2>3. TypeOK'
    BY <2>1, <2>2 DEF TypeOK, Labels
  <2>4. LockInv' /\ OpenInv'
    BY <2>1, <2>2 DEF IInv, TypeOK, LockInv, OpenInv, Locked, Reading
  <2>5. FoundInv'
    BY <2>1, <2>2 DEF IInv, TypeOK, FoundInv
  <2>6. WriteInv'
    BY <2>1, <2>2 DEF IInv, TypeOK, WriteInv, Writing
  <2>7. QED BY <2>3, <2>4, <2>5, <2>6 DEF IInv
<1>3. QED BY <1>1, <1>2

-----------------------------------------------------------------------------
\* The directory and the commands start with the invariant.
LEMMA InitInv == Init => IInv
<1> SUFFICES ASSUME Init
             PROVE  IInv
  OBVIOUS
<1>1. path \in Contents \union {Bad, NoFile}
  BY SizeAssumption DEF Init, Whole, Contents
<1>2. TypeOK
  BY <1>1, SizeAssumption DEF Init, TypeOK, Labels
<1>3. QED
  BY <1>2 DEF Init, IInv, LockInv, OpenInv, FoundInv, WriteInv, Locked, Writing, Reading

\* Every step keeps it.
LEMMA Inductive == IInv /\ [Next]_vars => IInv'
<1> SUFFICES ASSUME IInv, [Next]_vars
             PROVE  IInv'
  OBVIOUS
<1>0. TypeOK /\ kills \in 0 .. MaxKills /\ temps \in [Names -> Contents \union {NoFile, Stray}]
  BY DEF IInv, TypeOK
<1>1. ASSUME NEW c \in Commands, Begin(c)
      PROVE  IInv'
  <2>1. TypeOK' /\ Record' = Record
    BY <1>0, <1>1 DEF Begin, TypeOK, Goto, Labels, files, command, Record
  <2>2. QED
    BY <1>1, <2>1 DEF Begin, IInv, TypeOK, Goto, files, command, LockInv, OpenInv, FoundInv,
       WriteInv, Locked, Reading, Writing
<1>2. ASSUME NEW c \in Commands, Open(c)
      PROVE  IInv'
  <2>1. TypeOK' /\ Record' = Record
    BY <1>0, <1>2 DEF Open, TypeOK, files, Record
  <2>2. QED
    BY <1>2, <2>1 DEF Open, IInv, TypeOK, files, LockInv, OpenInv, FoundInv, WriteInv
<1>3. ASSUME NEW c \in Commands, FindsNothing(c)
      PROVE  IInv'
  <2>1. Record = Absent
    BY <1>3 DEF FindsNothing, Record
  <2>2. QED
    BY <1>3, <2>1, ConcludeKeeps DEF FindsNothing
<1>4. ASSUME NEW c \in Commands, ReadToEnd(c)
      PROVE  IInv'
  <2>1. Read(fd[c]) \in States \union {Bad}
    BY <1>0, <1>4, ReadType DEF ReadToEnd, TypeOK
  <2>2. pc[c] \in {"look", "compare"} => Read(fd[c]) = Record
    BY <1>4 DEF ReadToEnd, IInv, OpenInv, Record
  <2>3. QED
    BY <1>4, <2>1, <2>2, ConcludeKeeps DEF ReadToEnd
<1>5. ASSUME NEW c \in Commands, TakeLock(c)
      PROVE  IInv'
  <2>1. TypeOK' /\ Record' = Record
    BY <1>0, <1>5 DEF TakeLock, TypeOK, Goto, Labels, files, command, Record
  <2>2. \A d \in Commands : pc[d] \notin Locked
    BY <1>5, SentinelAssumption DEF TakeLock, IInv, LockInv
  <2>3. fd[c] = NoFile
    BY <1>5 DEF TakeLock, IInv, OpenInv, Reading
  <2>4. QED
    BY <1>5, <2>1, <2>2, <2>3 DEF TakeLock, IInv, TypeOK, Goto, files, command, LockInv, OpenInv,
       FoundInv, WriteInv, Locked, Reading, Writing
<1>6. ASSUME NEW c \in Commands, LockIsHeld(c) \/ NoAttemptLeft(c) \/ CreateFails(c) \/ Succeeds(c)
      PROVE  IInv'
  BY <1>0, <1>6, EndsKeeps DEF LockIsHeld, NoAttemptLeft, CreateFails, Succeeds, files
<1>7. ASSUME NEW c \in Commands, Discard(c) \/ DiscardFails(c)
      PROVE  IInv'
  <2>1. Ends(c) /\ path' = path /\ kills' = kills /\ pc[c] \in Locked
        /\ temps' \in [Names -> Contents \union {NoFile, Stray}]
    BY <1>0, <1>7 DEF Discard, DiscardFails, Locked
  <2>2. QED
    BY <1>0, <2>1, EndsKeeps
<1>8. ASSUME NEW c \in Commands, Kill(c)
      PROVE  IInv'
  <2>1. Ends(c) /\ path' = path /\ kills' \in 0 .. MaxKills
    BY <1>0, <1>8, SizeAssumption DEF Kill
  <2>2. temps' = temps \/ (pc[c] \in Locked /\ temps' = [temps EXCEPT ![own[c]] = Stray])
    BY <1>8 DEF Kill, Locked, Writing
  <2>3. temps' \in [Names -> Contents \union {NoFile, Stray}]
    BY <1>0, <2>2
  <2>4. QED
    BY <2>1, <2>2, <2>3, EndsKeeps
<1>9. ASSUME NEW c \in Commands, CreateTemporary(c)
      PROVE  IInv'
  <2>1. NextName(c) \in Names /\ wanted[c] \in States
    BY <1>0, <1>9, SizeAssumption DEF CreateTemporary, NextName, Names, TypeOK, IInv, WriteInv
  <2>2. [state |-> wanted[c], length |-> 0] \in Contents
    BY <2>1, SizeAssumption DEF Contents
  <2>3. TypeOK' /\ Record' = Record
    BY <1>0, <1>9, <2>1, <2>2 DEF CreateTemporary, TypeOK, Goto, Labels, Record
  <2>4. \A d \in Commands \ {c} : pc[d] \notin Locked
    BY <1>9, Turns DEF CreateTemporary, IInv, Locked
  <2>5. pc' = [pc EXCEPT ![c] = "write"] /\ pc[c] = "create"
        /\ own'[c] = NextName(c)
        /\ temps'[NextName(c)] = [state |-> wanted[c], length |-> 0]
        /\ UNCHANGED <<path, lock, fd, found, wanted>>
    BY <1>0, <1>9, <2>1 DEF CreateTemporary, TypeOK, Goto
  <2>6. LockInv' /\ OpenInv' /\ FoundInv'
    BY <2>3, <2>5 DEF IInv, TypeOK, LockInv, OpenInv, FoundInv, Locked, Reading
  <2>7. WriteInv'
    BY <1>0, <2>1, <2>2, <2>3, <2>4, <2>5 DEF TypeOK, WriteInv, Writing, Locked
  <2>8. QED BY <2>3, <2>6, <2>7 DEF IInv
<1>10. ASSUME NEW c \in Commands, Collides(c)
      PROVE  IInv'
  <2>1. TypeOK' /\ Record' = Record
    BY <1>0, <1>10, SizeAssumption DEF Collides, TypeOK, files, Record
  <2>2. QED
    BY <1>10, <2>1 DEF Collides, IInv, files, LockInv, OpenInv, FoundInv, WriteInv
<1>11. ASSUME NEW c \in Commands, Write(c)
      PROVE  IInv'
  <2> DEFINE t == temps[own[c]]
  <2>1. /\ pc[c] = "write" /\ wanted[c] \in States /\ own[c] \in Names
        /\ t \in Contents /\ t.state = wanted[c]
        /\ t = [state |-> wanted[c], length |-> t.length] /\ t.length \in 0 .. Limit
    BY <1>11 DEF Write, IInv, WriteInv, Writing, Contents
  <2>2. \A d \in Commands \ {c} : pc[d] \notin Locked
    BY <2>1, Turns DEF IInv, Locked
  <2>3. UNCHANGED <<path, lock, fd, found, wanted, own, tries, kills>> /\ Record' = Record
    BY <1>11 DEF Write, command, Record
  <2>4. CASE t.length = Size[wanted[c]]
    <3>1. pc' = [pc EXCEPT ![c] = "sync"] /\ temps' = temps
      BY <1>11, <2>4 DEF Write, Written, Temporary, Goto
    <3>2. t = Whole(wanted[c])
      BY <2>1, <2>4 DEF Whole
    <3>3. QED
      BY <1>0, <2>1, <2>2, <2>3, <3>1, <3>2 DEF IInv, TypeOK, Labels, LockInv, OpenInv,
         FoundInv, WriteInv, Locked, Reading, Writing
  <2>5. CASE t.length # Size[wanted[c]] /\ t.length = Limit
    <3>1. pc' = [pc EXCEPT ![c] = "discard"] /\ temps' = temps
      BY <1>11, <2>5 DEF Write, Written, Temporary, Goto
    <3>2. QED
      BY <1>0, <2>1, <2>2, <2>3, <3>1 DEF IInv, TypeOK, Labels, LockInv, OpenInv,
         FoundInv, WriteInv, Locked, Reading, Writing
  <2>6. CASE t.length # Size[wanted[c]] /\ t.length # Limit
    <3>1. pc' = pc /\ temps' = [temps EXCEPT ![own[c]] = [t EXCEPT !.length = @ + 1]]
      BY <1>11, <2>6 DEF Write, Written, Temporary, Goto
    <3>2. [t EXCEPT !.length = @ + 1] = [state |-> wanted[c], length |-> t.length + 1]
      BY <2>1
    <3>3. [state |-> wanted[c], length |-> t.length + 1] \in Contents
      BY <2>1, <2>6, SizeAssumption DEF Contents
    <3>4. temps'[own[c]] = [state |-> wanted[c], length |-> t.length + 1]
      BY <1>0, <2>1, <3>1, <3>2
    <3>5. TypeOK'
      BY <1>0, <2>1, <2>3, <3>1, <3>2, <3>3 DEF TypeOK
    <3>6. LockInv' /\ OpenInv' /\ FoundInv'
      BY <2>3, <3>1 DEF IInv, LockInv, OpenInv, FoundInv
    <3>7. WriteInv'
      BY <2>1, <2>2, <2>3, <3>1, <3>3, <3>4 DEF IInv, WriteInv, Locked, Writing
    <3>8. QED BY <3>5, <3>6, <3>7 DEF IInv
  <2>7. QED BY <2>4, <2>5, <2>6
<1>12. ASSUME NEW c \in Commands, Sync(c) \/ WriteFails(c)
      PROVE  IInv'
  <2>1. TypeOK' /\ Record' = Record
    BY <1>0, <1>12 DEF Sync, WriteFails, TypeOK, Goto, Labels, files, command, Record
  <2>2. QED
    BY <1>12, <2>1 DEF Sync, WriteFails, IInv, TypeOK, Goto, files, command, LockInv, OpenInv,
       FoundInv, WriteInv, Locked, Reading, Writing
<1>13. ASSUME NEW c \in Commands, Rename(c)
      PROVE  IInv'
  <2>1. /\ pc[c] = "rename" /\ wanted[c] \in States /\ own[c] \in Names
        /\ Temporary(c) = Whole(wanted[c]) /\ Whole(wanted[c]) \in Contents
    BY <1>13 DEF Rename, IInv, WriteInv, Writing, Temporary
  <2>2. \A d \in Commands \ {c} : pc[d] \notin Locked
    BY <2>1, Turns DEF IInv, Locked
  <2>3. Record' = wanted[c]
    BY <1>13, <2>1, WholeIsRead DEF Rename, Record
  <2>4. /\ pc' = [pc EXCEPT ![c] = "written"] /\ path' = Whole(wanted[c])
        /\ temps' = [temps EXCEPT ![own[c]] = NoFile]
        /\ UNCHANGED <<lock, fd, found, wanted, own, tries, kills>>
    BY <1>13, <2>1 DEF Rename, Goto, command
  <2>5. TypeOK'
    BY <1>0, <2>1, <2>4 DEF TypeOK, Labels
  <2>6. LockInv' /\ OpenInv'
    BY <1>0, <2>1, <2>2, <2>4 DEF TypeOK, IInv, LockInv, OpenInv, Locked, Reading
  <2>7. FoundInv' /\ WriteInv'
    BY <1>0, <2>1, <2>2, <2>3, <2>4 DEF TypeOK, FoundInv, WriteInv, Locked, Writing
  <2>8. QED BY <2>5, <2>6, <2>7 DEF IInv
<1>14. ASSUME NEW c \in Commands, Remove(c)
      PROVE  IInv'
  <2>1. /\ pc[c] = "remove" /\ Ends(c) /\ path' \in {NoFile, path} /\ temps' = temps
        /\ kills' = kills
    BY <1>14 DEF Remove
  <2>2. \A d \in Commands \ {c} : pc[d] \notin Locked
    BY <2>1, Turns DEF IInv, Locked
  <2>3. /\ pc'[c] = "off" /\ fd'[c] = NoFile
        /\ \A d \in Commands \ {c} : pc'[d] = pc[d] /\ fd'[d] = fd[d]
    BY <1>0, <2>1, EndsType DEF TypeOK
  <2>4. TypeOK'
    BY <1>0, <2>1, EndsType DEF TypeOK
  <2>5. LockInv' /\ OpenInv' /\ FoundInv' /\ WriteInv'
    BY <2>2, <2>3 DEF IInv, LockInv, OpenInv, FoundInv, WriteInv, Locked, Reading, Writing
  <2>6. QED BY <2>4, <2>5 DEF IInv
<1>15. CASE UNCHANGED vars
  BY <1>15 DEF vars, files, command, IInv, TypeOK, LockInv, OpenInv, FoundInv, WriteInv, Record
<1>16. QED
  BY <1>1, <1>2, <1>3, <1>4, <1>5, <1>6, <1>7, <1>8, <1>9, <1>10, <1>11, <1>12, <1>13,
     <1>14, <1>15 DEF Next, Step, Fails

\* The invariant holds in every reachable state.
THEOREM Invariance == Spec => []IInv
BY InitInv, Inductive, PTL DEF Spec

\* What write_state has put in place read_state admits and understands, the
\* record at the limit included.
THEOREM SuccessReadable == Spec => []SuccessIsReadable
<1>1. IInv => SuccessIsReadable
  BY DEF IInv, WriteInv, SuccessIsReadable
<1>2. QED
  BY <1>1, Invariance, PTL

-----------------------------------------------------------------------------
\* The path changes by a rename or a removal of what its command has found.
LEMMA PathStep ==
    ASSUME IInv, [Next]_vars, path' # path
    PROVE  \E c \in Commands :
              /\ pc'[c] # pc[c] /\ found[c] = Record
              /\ \/ /\ pc[c] = "rename" /\ Rename(c)
                    /\ path' = Whole(wanted[c]) /\ wanted[c] \in States
                    /\ Whole(wanted[c]) \in Contents
                 \/ pc[c] = "remove" /\ Remove(c) /\ path' = NoFile
<1>1. PICK c \in Commands : Begin(c) \/ Step(c) \/ Fails(c) \/ Kill(c)
  BY DEF Next, vars, files
<1>2. Rename(c) \/ Remove(c)
  BY <1>1 DEF Begin, Step, Fails, Kill, Open, FindsNothing, ReadToEnd, Conclude, TakeLock,
     LockIsHeld, CreateTemporary, Collides, NoAttemptLeft, CreateFails, Write, Sync, WriteFails,
     Discard, DiscardFails, Succeeds, files
<1>3. CASE Rename(c)
  BY <1>3 DEF Rename, Goto, IInv, TypeOK, FoundInv, WriteInv, Writing, Temporary
<1>4. CASE Remove(c)
  BY <1>4 DEF Remove, Ends, Goto, IInv, TypeOK, FoundInv
<1>5. QED BY <1>2, <1>3, <1>4

\* write_state replaces, and remove_state_if_matches removes, exactly the
\* record that the command has read itself.
THEOREM ChangesSeen == Spec => ChangesOnlyWhatItSaw
<1>1. IInv /\ [Next]_vars =>
         (path' # path => \E c \in Commands :
             /\ pc'[c] # pc[c]
             /\ pc[c] = IF path' = NoFile THEN "remove" ELSE "rename"
             /\ found[c] = Record)
  BY PathStep, ContentsAreFiles
<1>2. QED
  BY <1>1, Invariance, PTL DEF Spec, ChangesOnlyWhatItSaw

-----------------------------------------------------------------------------
\* What a step does to the temporaries: it leaves them and who writes them alone, or a
\* command begins one under a free name, goes on with its own, or is done with it.
TempsLeft == temps' = temps /\ \A d \in Commands :
    pc[d] \in Writing => pc'[d] \in Writing /\ own'[d] = own[d]

TempsBegun(c) ==
    /\ temps[NextName(c)] = NoFile /\ NextName(c) \in Names
    /\ \A n \in Names \ {NextName(c)} : temps'[n] = temps[n]
    /\ pc'[c] \in Writing /\ own'[c] = NextName(c) /\ pc[c] \notin Writing
    /\ \A d \in Commands \ {c} : pc'[d] = pc[d] /\ own'[d] = own[d]

TempsGoOn(c) ==
    /\ pc[c] \in Writing /\ pc'[c] \in Writing /\ own' = own
    /\ \A n \in Names \ {own[c]} : temps'[n] = temps[n]
    /\ \A d \in Commands \ {c} : pc'[d] = pc[d]

TempsDone(c) ==
    /\ pc[c] \in Writing /\ temps'[own[c]] \in {NoFile, Stray}
    /\ \A n \in Names \ {own[c]} : temps'[n] = temps[n]
    /\ \A d \in Commands \ {c} : pc'[d] = pc[d] /\ own'[d] = own[d]

LEMMA TempsStep ==
    ASSUME IInv, [Next]_vars
    PROVE  TempsLeft \/ \E c \in Commands : TempsBegun(c) \/ TempsGoOn(c) \/ TempsDone(c)
<1>0. /\ pc \in [Commands -> Labels] /\ own \in [Commands -> Names \union {NoName}]
      /\ temps \in [Names -> Contents \union {NoFile, Stray}]
      /\ tries \in [Commands -> 0 .. Attempts]
      /\ \A c \in Commands : pc[c] \in Writing => own[c] \in Names
  BY DEF IInv, TypeOK, WriteInv
<1>1. ASSUME NEW c \in Commands, Ends(c)
      PROVE  \A d \in Commands \ {c} : pc'[d] = pc[d] /\ own'[d] = own[d]
  BY <1>0, <1>1 DEF Ends, Goto
<1>2. ASSUME NEW c \in Commands, pc[c] \notin Writing, temps' = temps,
             \A d \in Commands \ {c} : pc'[d] = pc[d] /\ own'[d] = own[d]
      PROVE  TempsLeft
  BY <1>2 DEF TempsLeft
<1>3. ASSUME NEW c \in Commands, Begin(c) \/ Open(c) \/ TakeLock(c) \/ Collides(c)
      PROVE  TempsLeft
  <2>1. pc[c] \notin Writing /\ temps' = temps /\ own' = own
    BY <1>3 DEF Begin, Open, TakeLock, Collides, Reading, Writing, files, command
  <2>2. \A d \in Commands \ {c} : pc'[d] = pc[d]
    BY <1>0, <1>3 DEF Begin, Open, TakeLock, Collides, Goto
  <2>3. QED BY <1>2, <2>1, <2>2
<1>4. ASSUME NEW c \in Commands, FindsNothing(c) \/ ReadToEnd(c)
      PROVE  TempsLeft
  <2>1. PICK result : Conclude(c, result)
    BY <1>4 DEF FindsNothing, ReadToEnd
  <2>2. pc[c] \notin Writing /\ temps' = temps
    BY <2>1 DEF Conclude, Peeked, Looked, Compared, Writing, files
  <2>3. Ends(c) \/ (own' = own /\ \A d \in Commands \ {c} : pc'[d] = pc[d])
    BY <1>0, <2>1 DEF Conclude, Peeked, Looked, Compared, Goto
  <2>4. QED BY <1>1, <1>2, <2>2, <2>3
<1>5. ASSUME NEW c \in Commands, LockIsHeld(c) \/ NoAttemptLeft(c) \/ CreateFails(c)
                                    \/ Succeeds(c) \/ Remove(c)
      PROVE  TempsLeft
  <2>1. pc[c] \notin Writing /\ temps' = temps /\ Ends(c)
    BY <1>5 DEF LockIsHeld, NoAttemptLeft, CreateFails, Succeeds, Remove, Writing, files
  <2>2. QED BY <1>1, <1>2, <2>1
<1>6. ASSUME NEW c \in Commands, Sync(c) \/ WriteFails(c) \/ Write(c)
      PROVE  TempsGoOn(c)
  <2>1. pc[c] \in Writing /\ own' = own
    BY <1>6 DEF Sync, WriteFails, Write, Writing, command
  <2>2. pc'[c] \in Writing /\ \A d \in Commands \ {c} : pc'[d] = pc[d]
    BY <1>0, <1>6 DEF Sync, WriteFails, Write, Goto, Writing
  <2>3. \A n \in Names \ {own[c]} : temps'[n] = temps[n]
    BY <1>0, <1>6 DEF Sync, WriteFails, Write, files
  <2>4. QED BY <2>1, <2>2, <2>3 DEF TempsGoOn
<1>7. ASSUME NEW c \in Commands, CreateTemporary(c)
      PROVE  TempsBegun(c)
  <2>1. NextName(c) \in Names
    BY <1>0, <1>7, SizeAssumption DEF CreateTemporary, NextName, Names
  <2>2. pc'[c] = "write" /\ own'[c] = NextName(c) /\ pc[c] = "create"
        /\ \A d \in Commands \ {c} : pc'[d] = pc[d] /\ own'[d] = own[d]
    BY <1>0, <1>7 DEF CreateTemporary, Goto
  <2>3. temps[NextName(c)] = NoFile /\ \A n \in Names \ {NextName(c)} : temps'[n] = temps[n]
    BY <1>0, <1>7 DEF CreateTemporary
  <2>4. QED BY <2>1, <2>2, <2>3 DEF TempsBegun, Writing
<1>8. ASSUME NEW c \in Commands, pc[c] \in Writing, NEW v \in {NoFile, Stray},
             temps' = [temps EXCEPT ![own[c]] = v],
             \A d \in Commands \ {c} : pc'[d] = pc[d] /\ own'[d] = own[d]
      PROVE  TempsDone(c)
  BY <1>0, <1>8 DEF TempsDone
<1>9. ASSUME NEW c \in Commands, Rename(c) \/ Discard(c) \/ DiscardFails(c)
      PROVE  TempsDone(c)
  <2>1. \A d \in Commands \ {c} : pc'[d] = pc[d] /\ own'[d] = own[d]
    BY <1>0, <1>1, <1>9 DEF Rename, Discard, DiscardFails, Goto, command
  <2>2. pc[c] \in Writing /\ \E v \in {NoFile, Stray} : temps' = [temps EXCEPT ![own[c]] = v]
    BY <1>9 DEF Rename, Discard, DiscardFails, Writing
  <2>3. QED BY <1>8, <2>1, <2>2
<1>10. ASSUME NEW c \in Commands, Kill(c)
       PROVE  TempsLeft \/ TempsDone(c)
  BY <1>1, <1>2, <1>8, <1>10 DEF Kill
<1>11. CASE UNCHANGED vars
  BY <1>11 DEF vars, files, command, TempsLeft
<1>12. QED
  BY <1>3, <1>4, <1>5, <1>6, <1>7, <1>9, <1>10, <1>11 DEF Next, Step, Fails

\* Every temporary is that of a running writer, or of nobody.
LEMMA AccountedKept ==
    IInv /\ (\A n \in Names : Accounted(n)) /\ [Next]_vars => (\A n \in Names : Accounted(n))'
<1> SUFFICES ASSUME IInv, \A n \in Names : Accounted(n), [Next]_vars, NEW n \in Names
             PROVE  Accounted(n)'
  OBVIOUS
<1>1. CASE TempsLeft
  BY <1>1 DEF TempsLeft, Accounted
<1>2. ASSUME NEW c \in Commands, TempsBegun(c)
      PROVE  Accounted(n)'
  <2>1. CASE n = NextName(c)
    BY <1>2, <2>1 DEF TempsBegun, Accounted
  <2>2. CASE n # NextName(c)
    BY <1>2, <2>2 DEF TempsBegun, Accounted
  <2>3. QED BY <2>1, <2>2
<1>3. ASSUME NEW c \in Commands, TempsGoOn(c)
      PROVE  Accounted(n)'
  <2>1. CASE n = own[c]
    BY <1>3, <2>1 DEF TempsGoOn, Accounted
  <2>2. CASE n # own[c]
    BY <1>3, <2>2 DEF TempsGoOn, Accounted
  <2>3. QED BY <2>1, <2>2
<1>4. ASSUME NEW c \in Commands, TempsDone(c)
      PROVE  Accounted(n)'
  <2>1. CASE n = own[c]
    BY <1>4, <2>1 DEF TempsDone, Accounted
  <2>2. CASE n # own[c]
    BY <1>4, <2>2 DEF TempsDone, Accounted
  <2>3. QED BY <2>1, <2>2
<1>5. QED BY <1>1, <1>2, <1>3, <1>4, TempsStep

\* No command touches what another one has left behind.
LEMMA StrayKept ==
    IInv /\ [Next]_vars => \A n \in Names : temps[n] = Stray => temps'[n] = Stray
<1> SUFFICES ASSUME IInv, [Next]_vars, NEW n \in Names, temps[n] = Stray
             PROVE  temps'[n] = Stray
  OBVIOUS
<1>1. \A c \in Commands : pc[c] \in Writing => own[c] # n
  BY ContentsAreFiles DEF IInv, WriteInv
<1>2. NoFile # Stray
  BY SentinelAssumption
<1>3. QED
  BY <1>1, <1>2, TempsStep DEF TempsLeft, TempsBegun, TempsGoOn, TempsDone

\* What TemporariesHarmless says of safety: a temporary that no running writer accounts for
\* is one left behind by a killed command or a failed removal, and stays what it is.
THEOREM TemporariesAccounted ==
    Spec => /\ [](\A n \in Names : Accounted(n))
            /\ [][\A n \in Names : temps[n] = Stray => temps'[n] = Stray]_vars
<1>1. Init => \A n \in Names : Accounted(n)
  BY DEF Init, Accounted
<1>2. IInv /\ [Next]_vars =>
         [\A n \in Names : temps[n] = Stray => temps'[n] = Stray]_vars
  BY StrayKept
<1>3. QED
  BY <1>1, <1>2, AccountedKept, Invariance, PTL DEF Spec

-----------------------------------------------------------------------------
View == [c \in Commands |-> IF fd[c] = NoFile THEN Unopened ELSE Read(fd[c])]

\* The files of the commands that are open change by one open or one close.
LEMMA FdStep ==
    ASSUME IInv, [Next]_vars
    PROVE  \/ fd' = fd
           \/ \E c \in Commands : Open(c)
           \/ \E c \in Commands : fd' = [fd EXCEPT ![c] = NoFile]
<1>1. CASE UNCHANGED vars
  BY <1>1 DEF vars, command
<1>2. CASE Next
  <2>1. PICK c \in Commands : Begin(c) \/ Step(c) \/ Fails(c) \/ Kill(c)
    BY <1>2 DEF Next
  <2>2. CASE \/ Begin(c) \/ TakeLock(c) \/ CreateTemporary(c) \/ Collides(c) \/ Write(c)
             \/ Sync(c) \/ Rename(c) \/ WriteFails(c)
    BY <2>2 DEF Begin, TakeLock, CreateTemporary, Collides, Write, Sync, Rename, WriteFails,
       command
  <2>3. CASE \/ LockIsHeld(c) \/ NoAttemptLeft(c) \/ CreateFails(c) \/ Discard(c)
             \/ DiscardFails(c) \/ Succeeds(c) \/ Remove(c) \/ Kill(c)
    BY <2>3 DEF LockIsHeld, NoAttemptLeft, CreateFails, Discard, DiscardFails, Succeeds, Remove,
       Kill, Ends
  <2>4. CASE FindsNothing(c) \/ ReadToEnd(c)
    BY <2>4 DEF FindsNothing, ReadToEnd, Conclude, Peeked, Looked, Compared, Ends
  <2>5. QED
    BY <2>1, <2>2, <2>3, <2>4 DEF Step, Fails
<1>3. QED BY <1>1, <1>2

\* What is at the path at first is one of the beginnings of the promise.
LEMMA InitMaps == Init => Promise!Init
<1> SUFFICES ASSUME Init
             PROVE  Promise!Init
  OBVIOUS
<1>1. Record \in States \union {Absent, Bad}
  BY InitInv, RecordType DEF IInv
<1>2. View = [c \in Commands |-> Unopened]
  BY DEF Init, View
<1>3. QED
  BY <1>1, <1>2 DEF Promise!Init, View

\* Every step is a step of the promise or a stutter.
LEMMA NextMaps == IInv /\ [Next]_vars => [Promise!Next]_<<Record, View>>
<1> SUFFICES ASSUME IInv, [Next]_vars
             PROVE  Promise!Next \/ (Record' = Record /\ View' = View)
  OBVIOUS
<1>0. fd \in [Commands -> Contents \union {Bad, NoFile}] /\ Record \in States \union {Bad, Absent}
  BY RecordType DEF IInv, TypeOK
<1>1. CASE path' # path
  <2>1. PICK c \in Commands :
           /\ pc'[c] # pc[c] /\ found[c] = Record
           /\ \/ /\ pc[c] = "rename" /\ Rename(c)
                 /\ path' = Whole(wanted[c]) /\ wanted[c] \in States
                 /\ Whole(wanted[c]) \in Contents
              \/ pc[c] = "remove" /\ Remove(c) /\ path' = NoFile
    BY <1>1, PathStep
  <2>2. CASE pc[c] = "rename"
    <3>1. View' = View
      BY <2>1, <2>2 DEF View, Rename, command
    <3>2. Record # Bad
      BY <2>1, SentinelAssumption DEF IInv, TypeOK
    <3>3. Record' \in States
      BY <2>1, <2>2, WholeIsRead DEF Record
    <3>4. Promise!Put
      BY <3>1, <3>2, <3>3 DEF Promise!Put, View
    <3>5. QED BY <3>4 DEF Promise!Next
  <2>3. CASE pc[c] = "remove"
    <3>1. fd[c] = NoFile
      BY <2>3 DEF IInv, OpenInv, Reading
    <3>2. View' = View
      BY <1>0, <2>1, <2>3, <3>1 DEF View, Remove, Ends
    <3>3. Record \in States
      BY <2>1, <2>3 DEF IInv, FoundInv
    <3>4. Record' = Absent
      BY <2>1, <2>3 DEF Record
    <3>5. Promise!TakeAway
      BY <3>2, <3>3, <3>4 DEF Promise!TakeAway, View
    <3>6. QED BY <3>5 DEF Promise!Next
  <2>4. QED BY <2>1, <2>2, <2>3
<1>2. CASE path' = path
  <2>1. Record' = Record
    BY <1>2 DEF Record
  <2>2. CASE fd' = fd
    BY <2>1, <2>2 DEF View
  <2>3. CASE \E c \in Commands : Open(c)
    <3>1. PICK c \in Commands : Open(c)
      BY <2>3
    <3>2. path # NoFile /\ fd[c] = NoFile /\ fd' = [fd EXCEPT ![c] = path]
      BY <3>1 DEF Open
    <3>3. Record = Read(path) /\ Record # Absent
      BY <3>2, ReadType, SentinelAssumption DEF Record, IInv, TypeOK
    <3>4. View[c] = Unopened /\ View' = [View EXCEPT ![c] = Record]
      BY <1>0, <3>2, <3>3 DEF View
    <3>5. Promise!BeginRead(c)
      BY <2>1, <3>3, <3>4 DEF Promise!BeginRead, View
    <3>6. QED BY <3>5 DEF Promise!Next
  <2>4. CASE \E c \in Commands : fd' = [fd EXCEPT ![c] = NoFile]
    <3>1. PICK c \in Commands : fd' = [fd EXCEPT ![c] = NoFile]
      BY <2>4
    <3>2. CASE fd[c] = NoFile
      BY <1>0, <2>1, <3>1, <3>2 DEF View
    <3>3. CASE fd[c] # NoFile
      <4>1. View' = [View EXCEPT ![c] = Unopened]
        BY <1>0, <3>1 DEF View
      <4>2. View[c] # Unopened
        BY <1>0, <3>3, ReadType, SentinelAssumption DEF View
      <4>3. Promise!EndRead(c)
        BY <2>1, <4>1, <4>2 DEF Promise!EndRead, View
      <4>4. QED BY <4>3 DEF Promise!Next
    <3>4. QED BY <3>2, <3>3
  <2>5. QED BY <2>2, <2>3, <2>4, FdStep
<1>3. QED BY <1>1, <1>2

\* Temporaries, attempts, failures, kills and the lock amount, for everybody who
\* reads the path, to one record that is put there or taken away as a whole.
THEOREM Implements == Spec => ImplementsStateRecord
BY Invariance, InitMaps, NextMaps, PTL
   DEF Spec, ImplementsStateRecord, Promise!Spec, View

=============================================================================
