----------------------------- MODULE SpacePaths -----------------------------
(***************************************************************************)
(* The paths of requests as strings (pkg/vfs/spacelookup): a client types  *)
(* a path, the request server cleans it, and the commands split it, look   *)
(* for the space and make a reference of the rest.  A string is a sequence *)
(* of characters.                                                          *)
(***************************************************************************)
EXTENDS Lookup, SequencesExt

CONSTANTS
    Letters, Slash, Dot,
    Ids,            \* ids of spaces
    SpaceLists,     \* lists of spaces, of [id, name]
    MaxLength       \* bound: characters of a path

Chars == Letters \cup {Slash, Dot}
Names == Seq(Chars \ {Slash}) \ {<<>>}

\* Spaces have names.
ASSUME SpacePathsAssumption ==
    /\ Slash # Dot /\ Letters \cap {Slash, Dot} = {} /\ MaxLength \in Nat
    /\ SpaceLists \subseteq Seq([id : Ids, name : Seq(Chars) \ {<<>>}])

VARIABLES typed, spaces

vars == <<typed, spaces>>

-----------------------------------------------------------------------------
(* Paths outside of the repository *)

\* Where the steps for the elements of seq lead from start, one by one.
Run(step, start, seq) ==
    LET at[n \in 0 .. Len(seq)] == IF n = 0 THEN start ELSE step[seq[n]][at[n - 1]]
    IN  at[Len(seq)]

\* The names between the slashes of a string: those read, and the one that is
\* being read.
Reading == [names : Seq(Names), name : Seq(Chars \ {Slash})]
Start   == [names |-> <<>>, name |-> <<>>]
Ends(r) == IF r.name = <<>> THEN r.names ELSE Append(r.names, r.name)

Read ==
    [c \in Chars |-> [r \in Reading |->
        IF c = Slash THEN [names |-> Ends(r), name |-> <<>>]
        ELSE [names |-> r.names, name |-> Append(r.name, c)]]]

Elements(path) == Ends(Run(Read, Start, path))

\* The path of these names; without names the root.
Enter == [name \in Names |-> [path \in Seq(Chars) |-> path \o <<Slash>> \o name]]

Joined(names) == IF names = <<>> THEN <<Slash>> ELSE Run(Enter, <<>>, names)

\* Where the names lead, as path.Clean has it.
Go == [name \in Names |-> [at \in Seq(Names) |->
        IF name = <<Dot>> THEN at
        ELSE IF name = <<Dot, Dot>> THEN SubSeq(at, 1, Len(at) - 1)
        ELSE Append(at, name)]]

Walk(names) == Run(Go, <<>>, names)

\* The request server makes every path absolute and clean.
Clean(path) == Joined(Walk(Elements(path)))

\* MakeRelativePath of reva.
MakeRelativePath(path) ==
    IF Clean(path) = <<Slash>> THEN <<Dot>> ELSE <<Dot>> \o Clean(path)

-----------------------------------------------------------------------------
(* SplitAbsolutePath and FindSpaceForPath *)

Keep(path)       == path        \* a mutant of TrimPrefix and TrimSuffix
TrimPrefix(path) == IF path # <<>> /\ Head(path) = Slash THEN Tail(path) ELSE path
TrimSuffix(path) == IF path # <<>> /\ Last(path) = Slash THEN Front(path) ELSE path

NoSplit == [space |-> <<>>, rest |-> <<>>]

\* The place of the first slash, 0 if there is none.
FirstSlash(path) == SelectInSeq(path, LAMBDA c : c = Slash)

SplitAbsolutePath(path) ==
    LET trimmed == TrimPrefix(path)
        cut     == FirstSlash(trimmed)
        space   == IF cut = 0 THEN trimmed ELSE SubSeq(trimmed, 1, cut - 1)
        rest    == IF cut = 0 THEN <<Slash>> ELSE SubSeq(trimmed, cut, Len(trimmed))
    IN  IF space = <<>> THEN NoSplit
        ELSE [space |-> space, rest |-> IF rest = <<Slash>> THEN rest ELSE TrimSuffix(rest)]

NotFound == [id |-> <<>>, relPath |-> <<>>]

\* The first space of that name; a mutant takes the last one.
LastHit(list, name)  == SelectLastInSeq(list, LAMBDA space : space.name = name)
FirstHit(list, name) == SelectInSeq(list, LAMBDA space : space.name = name)

FindSpaceForPath(path, list) ==
    LET split == SplitAbsolutePath(path)
        hit   == FirstHit(list, split.space)
    IN  IF hit = 0 THEN NotFound ELSE [id |-> <<list[hit].id>>, relPath |-> split.rest]

-----------------------------------------------------------------------------
(* A client types, among spaces that come and go *)

Init == typed = <<>> /\ spaces \in SpaceLists

Type ==
    /\ Len(typed) < MaxLength
    /\ \E c \in Chars : typed' = Append(typed, c)
    /\ UNCHANGED spaces

ForeignSpaces ==
    /\ \E list \in SpaceLists : spaces' = list
    /\ UNCHANGED typed

Next == Type \/ ForeignSpaces

Spec == Init /\ [][Next]_vars

-----------------------------------------------------------------------------
(* What the lookup has to keep *)

\* What the lookup makes of a path names what the names of the path name, in
\* the form that the commands send: a clean path from the root of the space.
\* Most of them send it as a relative path, mkdir and the touch of OpenFile as
\* it is (cs3.go:43, sftp.go:92); these name the same.
LooksUpWhatIsNamed ==
    LET names == Walk(Elements(typed))
        found == FindSpaceForPath(Clean(typed), spaces)
        below == Elements(MakeRelativePath(found.relPath))
    IN  IF found.id = <<>> THEN Resolve(names, spaces) = NoRef
        ELSE /\ Resolve(names, spaces) = found.id \o Elements(found.relPath)
             /\ found.relPath = Joined(Tail(names))
             /\ below = <<<<Dot>>>> \o Elements(found.relPath)

\* A slash at the end of a path, as clients add to directories, does not
\* change what it names, nor does a missing one at its beginning.
SlashesDoNotMatter ==
    LET path == Clean(typed) IN
    path # <<Slash>> =>
        /\ FindSpaceForPath(path \o <<Slash>>, spaces) = FindSpaceForPath(path, spaces)
        /\ FindSpaceForPath(Tail(path), spaces) = FindSpaceForPath(path, spaces)

=============================================================================
