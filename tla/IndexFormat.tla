----------------------------- MODULE IndexFormat -----------------------------
(***************************************************************************)
(* The text of an index: what save_with writes for a snapshot, and         *)
(* FileIndexStore::from_reader, which reads a text line by line, from this *)
(* version, an older one or an editor.                                     *)
(*                                                                         *)
(* A text is a sequence of characters, numbered by their code points.  The *)
(* keywords of the format and decimal numbers are characters of their own. *)
(* So are, in the path of a root, the sequences of bytes that no character *)
(* is made of.                                                             *)
(***************************************************************************)
EXTENDS Integers, Sequences, FiniteSets, SequencesExt

CONSTANTS
    NoRoot,
    Unknown,    \* no scan policy
    NoSnapshot

VARIABLES
    text,      \* the file
    saved,     \* the snapshot it was written from (a record of a root, a policy and
               \* files), or NoSnapshot if something else has written it
    position,  \* how many characters have been read
    header,    \* "unread", "present" or "absent"
    files,     \* the records so far, by path
    root,
    policySeen, exclusionsSeen, exclusions,
    pc

given == <<text, saved>>
metadata == <<root, policySeen, exclusionsSeen, exclusions>>
vars == <<given, position, header, files, metadata, pc>>

Tab == 9
LineFeed == 10
Return == 13
Dot == 46
Slash == 47
Backslash == 92
LetterN == 110
LetterR == 114
LetterT == 116
IndexHeader == 2001
Meta == 2002
RootKey == 2003
ScanPolicyKey == 2004
ExcludeNameKey == 2005
Replacement == 2006  \* U+FFFD
NotUtf8 == 2100 .. 2999
Number(n) == 3000 + n

----------------------------------------------------------------------------
(* PathId::from_user_path: backslashes are separators, and empty segments  *)
(* and those that are one dot go.                                          *)

Separators(path) == {i \in DOMAIN path : path[i] \in {Slash, Backslash}}

Segment(path, i) ==  \* between the separator before position i and the next
    LET next == {j \in Separators(path) : j >= i} \union {Len(path) + 1}
    IN  SubSeq(path, i, Min(next) - 1)

Normalized(path) ==
    LET Kept(i) == /\ i = 1 \/ i - 1 \in Separators(path)
                   /\ Segment(path, i) \notin {<<>>, <<Dot>>}
        Joined(done, segment) == IF done = <<>> THEN segment ELSE done \o <<Slash>> \o segment
        upTo[i \in 0 .. Len(path)] ==
            IF i = 0 THEN <<>>
            ELSE IF Kept(i) THEN Joined(upTo[i - 1], Segment(path, i)) ELSE upTo[i - 1]
    IN  upTo[Len(path)]

----------------------------------------------------------------------------
(* Writing. *)

\* Mutant: a carriage return is written as it is.
MutantEscapedCharacter(c) ==
    CASE c = Backslash -> <<Backslash, Backslash>>
      [] c = Tab -> <<Backslash, LetterT>>
      [] c = LineFeed -> <<Backslash, LetterN>>
      [] OTHER -> <<c>>

EscapedCharacter(c) ==
    CASE c = Backslash -> <<Backslash, Backslash>>
      [] c = Tab -> <<Backslash, LetterT>>
      [] c = LineFeed -> <<Backslash, LetterN>>
      [] c = Return -> <<Backslash, LetterR>>
      [] OTHER -> <<c>>

Escaped(value) == FlattenSeq([i \in DOMAIN value |-> EscapedCharacter(value[i])])

\* to_string_lossy: a path need not be UTF-8.
Lossy(path) ==
    [i \in DOMAIN path |-> IF path[i] \in NotUtf8 THEN Replacement ELSE path[i]]

MetadataRecord(key, value) == <<Meta, Tab, key, Tab>> \o Escaped(value) \o <<LineFeed>>

Before(a, b) ==  \* the order of strings
    \/ IsStrictPrefix(a, b)
    \/ \E i \in DOMAIN a \intersect DOMAIN b :
          a[i] < b[i] /\ SubSeq(a, 1, i - 1) = SubSeq(b, 1, i - 1)

InOrder(S) ==  \* what a BTreeMap or BTreeSet iterates over
    CHOOSE s \in SetToSeqs(S) : \A i, j \in DOMAIN s : i < j => Before(s[i], s[j])

FileRecord(path, data) ==
    <<Number(data.size), Tab, Number(data.time), Tab>> \o path \o <<LineFeed>>

Saved(s) ==
    LET names == IF s.policy = Unknown THEN <<>> ELSE InOrder(s.policy)
        paths == InOrder(DOMAIN s.files)
    IN  <<IndexHeader, LineFeed>>
        \o (IF s.root = NoRoot THEN <<>> ELSE MetadataRecord(RootKey, Lossy(s.root)))
        \o (IF s.policy = Unknown THEN <<>> ELSE MetadataRecord(ScanPolicyKey, <<Number(1)>>))
        \o FlattenSeq([i \in DOMAIN names |-> MetadataRecord(ExcludeNameKey, names[i])])
        \o FlattenSeq([i \in DOMAIN paths |-> FileRecord(paths[i], s.files[paths[i]])])

----------------------------------------------------------------------------
(* Reading. *)

(* The escape that is open is remembered; an unknown one stands for itself. *)
Unescaped(value) ==
    LET Meaning(c) == CASE c = Backslash -> <<Backslash>>
                        [] c = LetterT -> <<Tab>>
                        [] c = LetterN -> <<LineFeed>>
                        [] c = LetterR -> <<Return>>
                        [] OTHER -> <<Backslash, c>>
        Take(state, c) ==
            IF state.open THEN [open |-> FALSE, out |-> state.out \o Meaning(c)]
            ELSE IF c = Backslash THEN [state EXCEPT !.open = TRUE]
            ELSE [state EXCEPT !.out = Append(@, c)]
        after[n \in 0 .. Len(value)] ==
            IF n = 0 THEN [open |-> FALSE, out |-> <<>>] ELSE Take(after[n - 1], value[n])
        end == after[Len(value)]
    IN  IF end.open THEN Append(end.out, Backslash) ELSE end.out

(* splitn(3, TAB): at the first two tabs. *)
Parts(line) ==
    LET first == SelectInSeq(line, LAMBDA c : c = Tab)
        second == SelectInSubSeq(line, first + 1, Len(line), LAMBDA c : c = Tab)
    IN  IF first = 0 THEN <<line>>
        ELSE IF second = 0
             THEN <<SubSeq(line, 1, first - 1), SubSeq(line, first + 1, Len(line))>>
             ELSE <<SubSeq(line, 1, first - 1), SubSeq(line, first + 1, second - 1),
                    SubSeq(line, second + 1, Len(line))>>

(* The end of the line that starts after position n, with its line feed,   *)
(* and the line: without the line feed and, before one, without a return.  *)
LineEnd(n) ==
    LET feed == SelectInSubSeq(text, n + 1, Len(text), LAMBDA c : c = LineFeed)
    IN  IF feed = 0 THEN Len(text) ELSE feed

LineAfter(n) ==
    LET raw == SubSeq(text, n + 1, LineEnd(n))
        body == IF Last(raw) = LineFeed THEN Front(raw) ELSE raw
    IN  IF Last(raw) = LineFeed /\ body # <<>> /\ Last(body) = Return THEN Front(body) ELSE body

IsMetadata(line, key) ==
    Len(Parts(line)) >= 2 /\ Parts(line)[1] = <<Meta>> /\ Parts(line)[2] = <<key>>
IsAnyMetadata(line) == Len(Parts(line)) >= 2 /\ Parts(line)[1] = <<Meta>>

Parsed(field) == IF Len(field) = 1 /\ field[1] >= Number(0) THEN field[1] - Number(0) ELSE 0
Part(line, i) == IF i <= Len(Parts(line)) THEN Parts(line)[i] ELSE <<>>

(* parse_index_record and upsert_file: a later record replaces an earlier  *)
(* one of the same path.                                                   *)
Upsert(line) ==
    LET path == Normalized(IF header = "present" THEN Part(line, 3) ELSE line)
        data == IF header = "present"
                THEN [size |-> Parsed(Part(line, 1)), time |-> Parsed(Part(line, 2))]
                ELSE [size |-> 0, time |-> 0]
    IN  files' = [p \in DOMAIN files \union {path} |-> IF p = path THEN data ELSE files[p]]

----------------------------------------------------------------------------

NoRecords == [p \in {} |-> [size |-> 0, time |-> 0]]

Init ==
    /\ position = 0
    /\ header = "unread"
    /\ files = NoRecords
    /\ root = NoRoot
    /\ policySeen = FALSE
    /\ exclusionsSeen = FALSE
    /\ exclusions = {}
    /\ pc = "reading"

(* Another text at the path of the index, opened anew. *)
Replace(snapshot) ==
    /\ saved' = snapshot
    /\ text' = Saved(snapshot)
    /\ position' = 0
    /\ header' = "unread"
    /\ files' = NoRecords
    /\ root' = NoRoot
    /\ policySeen' = FALSE
    /\ exclusionsSeen' = FALSE
    /\ exclusions' = {}
    /\ pc' = "reading"

AtLine ==
    /\ pc = "reading"
    /\ position < Len(text)
    /\ ToSet(LineAfter(position)) \intersect NotUtf8 = {}

ReadHeader ==
    /\ AtLine
    /\ header = "unread"
    /\ IF LineAfter(0) = <<IndexHeader>>
       THEN header' = "present" /\ position' = LineEnd(0)
       ELSE header' = "absent" /\ UNCHANGED position
    /\ UNCHANGED <<files, metadata, pc>>

ReadLine(Interpret(_)) ==
    /\ AtLine
    /\ header # "unread"
    /\ position' = LineEnd(position)
    /\ Interpret(LineAfter(position))
    /\ UNCHANGED header

InVersioned(line) == header = "present" /\ line # <<>>

\* Mutant: a second marker replaces the first.
MutantReadScanPolicy == ReadLine(LAMBDA line :
    /\ InVersioned(line)
    /\ IsMetadata(line, ScanPolicyKey)
    /\ IF Len(Parts(line)) < 3 \/ Part(line, 3) # <<Number(1)>>
       THEN pc' = "invalid" /\ UNCHANGED policySeen
       ELSE policySeen' = TRUE /\ UNCHANGED pc
    /\ UNCHANGED <<files, root, exclusionsSeen, exclusions>>)

ReadScanPolicy == ReadLine(LAMBDA line :
    /\ InVersioned(line)
    /\ IsMetadata(line, ScanPolicyKey)
    /\ IF policySeen \/ Len(Parts(line)) < 3 \/ Part(line, 3) # <<Number(1)>>
       THEN pc' = "invalid" /\ UNCHANGED policySeen
       ELSE policySeen' = TRUE /\ UNCHANGED pc
    /\ UNCHANGED <<files, root, exclusionsSeen, exclusions>>)

ReadExcludeName == ReadLine(LAMBDA line :
    /\ InVersioned(line)
    /\ IsMetadata(line, ExcludeNameKey)
    /\ IF Len(Parts(line)) < 3
       THEN pc' = "invalid" /\ UNCHANGED <<exclusionsSeen, exclusions>>
       ELSE /\ exclusionsSeen' = TRUE
            /\ exclusions' = exclusions \union {Unescaped(Part(line, 3))}
            /\ UNCHANGED pc
    /\ UNCHANGED <<files, root, policySeen>>)

ReadRoot == ReadLine(LAMBDA line :
    /\ InVersioned(line)
    /\ IsMetadata(line, RootKey)
    /\ Len(Parts(line)) = 3
    /\ root' = Unescaped(Part(line, 3))
    /\ UNCHANGED <<files, policySeen, exclusionsSeen, exclusions, pc>>)

(* An empty line, or metadata this version does not know. *)
SkipLine == ReadLine(LAMBDA line :
    /\ line # <<>> =>
          /\ header = "present"
          /\ IsAnyMetadata(line)
          /\ ~IsMetadata(line, ScanPolicyKey)
          /\ ~IsMetadata(line, ExcludeNameKey)
          /\ IsMetadata(line, RootKey) => Len(Parts(line)) < 3
    /\ UNCHANGED <<files, metadata, pc>>)

ReadRecord == ReadLine(LAMBDA line :
    /\ line # <<>>
    /\ header = "present" => ~IsAnyMetadata(line)
    /\ Upsert(line)
    /\ UNCHANGED <<metadata, pc>>)

Finish ==
    /\ pc = "reading"
    /\ position = Len(text)
    /\ pc' = IF exclusionsSeen /\ ~policySeen THEN "invalid" ELSE "loaded"
    /\ UNCHANGED <<position, header, files, metadata>>

(* A read error, or a line that is not UTF-8. *)
ReadFails ==
    /\ pc = "reading"
    /\ pc' = "failed"
    /\ UNCHANGED <<position, header, files, metadata>>

Next ==
    /\ \/ ReadHeader \/ ReadScanPolicy \/ ReadExcludeName \/ ReadRoot \/ SkipLine \/ ReadRecord
       \/ Finish \/ ReadFails
    /\ UNCHANGED given

Policy == IF policySeen THEN exclusions ELSE Unknown

----------------------------------------------------------------------------

TypeOK ==
    /\ position \in 0 .. Len(text)
    /\ header \in {"unread", "present", "absent"}
    /\ \A p \in DOMAIN files : files[p] \in [size : Nat, time : Nat] /\ Normalized(p) = p
    /\ {policySeen, exclusionsSeen} \subseteq BOOLEAN
    /\ exclusionsSeen \/ exclusions = {}
    /\ pc \in {"reading", "loaded", "invalid", "failed"}

(* What a path needs to keep to its line. *)
FitsLine(path) == LineFeed \notin ToSet(path) /\ (path = <<>> \/ Last(path) # Return)

(* What a root is after it has been saved and loaded. *)
AfterSaving(path) == IF path = NoRoot THEN NoRoot ELSE Lossy(path)

(* A snapshot that was saved is loaded again: it is not taken for a text without *)
(* a header, and, as long as every path keeps to its line, not refused, and has   *)
(* the names of the policy whatever characters they have, and the records         *)
(* whatever tabs and single dots or returns their paths have; and the root, too,  *)
(* whatever characters it has, but for the bytes of it that are not UTF-8, each   *)
(* sequence of which comes back as U+FFFD.  Every path in memory is one that      *)
(* normalisation leaves as it is.                                                 *)
SavedIsLoaded ==
    /\ TypeOK
    /\ saved # NoSnapshot => header # "absent"
    /\ saved # NoSnapshot /\ (\A p \in DOMAIN saved.files : FitsLine(p)) =>
          /\ pc # "invalid"
          /\ pc = "loaded" => /\ root = AfterSaving(saved.root)
                              /\ Policy = saved.policy
                              /\ files = saved.files

(* The lines of the whole text, wherever the loader is. *)
LineStarts == {n \in 0 .. Len(text) - 1 : n = 0 \/ text[n] = LineFeed}
Lines(key) == {n \in LineStarts : n # 0 /\ IsMetadata(LineAfter(n), key)}
HasMarker(n) == Len(Parts(LineAfter(n))) = 3 /\ Part(LineAfter(n), 3) = <<Number(1)>>

(* Fail closed: a text is loaded with a scan policy exactly if it has one  *)
(* well-formed marker; without one the policy is unknown, never empty, and *)
(* excluded names without a marker, before or after it, malformed ones and *)
(* a second marker are refused.                                            *)
PolicyFailsClosed ==
    LET markers == IF header = "present" THEN Lines(ScanPolicyKey) ELSE {}
        names == IF header = "present" THEN Lines(ExcludeNameKey) ELSE {}
        wellFormed ==
            /\ Cardinality(markers) <= 1
            /\ \A n \in markers : HasMarker(n)
            /\ \A n \in names : Len(Parts(LineAfter(n))) = 3
            /\ names # {} => markers # {}
    IN  /\ pc = "loaded" => wellFormed /\ (Policy = Unknown <=> markers = {})
        /\ pc = "invalid" => ~wellFormed
=============================================================================
