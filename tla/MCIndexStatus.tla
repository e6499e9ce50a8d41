---------------------------- MODULE MCIndexStatus ----------------------------
(***************************************************************************)
(* Instances of IndexStatus for TLC: snapshots with one unusual part each, *)
(* of an untouched tree; plain ones, compared with scans that have every   *)
(* kind of difference and duplicates; and texts of a few lines of every    *)
(* kind, ended by a line feed, by a return and a line feed, or by the end  *)
(* of the file.                                                            *)
(***************************************************************************)
EXTENDS IndexStatus

Strings(characters, n) == UNION {[1 .. k -> characters] : k \in 0 .. n}

LetterA == 97
Data(k) == [size |-> k, time |-> k + 1]
NoFiles == [p \in {} |-> Data(0)]
FilesAt(S) == [p \in S |-> Data(Len(p))]

Snapshot(r, p, f) == [root |-> r, policy |-> p, files |-> f]
Untouched(snapshot) == [saved |-> snapshot, scan |-> InPathOrder(snapshot.files)]

UserPaths(n) ==
    Strings({LetterA, Load!Tab, Load!Return, Load!Slash, Load!Backslash, Load!Dot}, n)
PathSets ==
    {{Load!Normalized(p)} : p \in UserPaths(4)}
    \union {{Load!Normalized(p), Load!Normalized(q)} :
               p \in UserPaths(2), q \in Strings({LetterA, Load!Slash}, 3)}
NotUtf8 == {2100, 2101}
Roots ==
    Strings({Load!LetterN, Load!Tab, Load!LineFeed, Load!Return, Load!Backslash}, 4)
    \union Strings({Load!LetterN, Load!Backslash} \union NotUtf8, 3)
Names == Strings({Load!LetterT, Load!Tab, Load!LineFeed, Load!Return, Load!Backslash}, 2)
Policies == {{a, b} : a \in Names, b \in Names} \union {{}}

UnusualSnapshots ==
    {Snapshot(NoRoot, Unknown, FilesAt(S)) : S \in PathSets}
    \union {Snapshot(r, {}, FilesAt({<<LetterA>>})) : r \in Roots}
    \union {Snapshot(<<LetterA>>, p, NoFiles) : p \in Policies}

\* Three paths, one of which is the beginning of another.
PlainPaths == {<<LetterA>>, <<LetterA, Load!Slash, LetterA>>, <<Load!LetterN>>}
PlainFiles == UNION {[S -> {Data(1), Data(2)}] : S \in SUBSET PlainPaths}
Scans == {scan \in Strings([path : PlainPaths, data : {Data(1), Data(2)}], 4) :
             Merge!Ordered(scan)}

MCCases ==
    {Untouched(snapshot) : snapshot \in UnusualSnapshots}
    \union {[saved |-> Snapshot(<<LetterA>>, {}, f), scan |-> scan] :
               f \in PlainFiles, scan \in Scans}

MCLineBreaks ==
    {Untouched(Snapshot(NoRoot, Unknown, FilesAt({Load!Normalized(p)}))) :
        p \in Strings({LetterA, Load!LineFeed, Load!Return, Load!Slash}, 4)}

NoDocuments == {}

Policy(value) == <<Load!Meta, Load!Tab, Load!ScanPolicyKey>> \o value
Exclude(value) == <<Load!Meta, Load!Tab, Load!ExcludeNameKey>> \o value
Root(value) == <<Load!Meta, Load!Tab, Load!RootKey>> \o value

LinesOfText ==
    {<<>>, <<Load!IndexHeader>>, <<LetterA>>, <<Load!Return>>,
     Policy(<<Load!Tab, Load!Number(1)>>), Policy(<<Load!Tab, Load!Number(2)>>), Policy(<<>>),
     Exclude(<<Load!Tab, LetterA>>), Exclude(<<>>),
     Root(<<Load!Tab, LetterA, Load!Backslash>>), Root(<<>>),
     <<Load!Meta, Load!Tab, LetterA, Load!Tab, LetterA>>, <<Load!Meta>>,
     <<Load!Number(4), Load!Tab, Load!Number(5), Load!Tab, LetterA>>,
     <<LetterA, Load!Tab, Load!Tab, LetterA, Load!Tab, LetterA>>}

Ended(line, ending) ==
    line \o (IF ending = "crlf" THEN <<Load!Return, Load!LineFeed>> ELSE <<Load!LineFeed>>)
OneLine(ending) == {Ended(line, ending) : line \in LinesOfText}
UpToTwo(ending) ==
    {<<>>} \union OneLine(ending) \union {a \o b : a \in OneLine(ending), b \in OneLine(ending)}

MCDocuments ==
    UNION {{<<Load!IndexHeader, Load!LineFeed>> \o body \o final :
                body \in UpToTwo(ending), final \in LinesOfText} : ending \in {"lf", "crlf"}}
    \union UNION {{body \o final : body \in OneLine(ending), final \in LinesOfText} :
                ending \in {"lf", "crlf"}}
=============================================================================
