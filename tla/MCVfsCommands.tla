--------------------------- MODULE MCVfsCommands ----------------------------
(***************************************************************************)
(* Values for model checking VfsCommands: two spaces that may swap their   *)
(* names, and trees of two levels.                                         *)
(***************************************************************************)
EXTENDS VfsCommands

CONSTANTS s1, s2, id1, id2, Personal, Project, docs, pics

Roots == {<<id1>>, <<id2>>}
MCRefs == Roots \cup {<<id, n>> : id \in {id1, id2}, n \in {docs, pics}}
                \cup {<<id1, docs, docs>>}
MCHomes == {<<id1>>, <<id1, docs>>, <<id1, pics>>}
              \cup {<<id1, n, m>> : n \in {docs, pics}, m \in {docs, pics}}

Space(id, name) == [id |-> id, name |-> name]
OneList   == {<<Space(id1, Personal)>>}
SwapLists == {<<Space(id1, Personal), Space(id2, Project)>>,
              <<Space(id2, Personal), Space(id1, Project)>>,
              <<Space(id2, Personal), Space(id1, Personal)>>}

Tree(dirs, files) ==
    [r \in Refs |-> IF Len(r) = 1 \/ r \in dirs THEN "dir"
                    ELSE IF r \in files THEN "file" ELSE "none"]
MixedTrees == {Tree({<<id1, docs>>}, {<<id1, docs, docs>>}),
               Tree({}, {<<id1, docs>>, <<id2, docs>>})}
HomeTrees  == {Tree({<<id1, docs>>, <<id1, pics>>},
                    {<<id1, docs, docs>>, <<id1, pics, pics>>})}
FileTree   == {Tree({}, {<<id1, docs>>, <<id1, pics>>})}

Cmd(op, path)            == [op |-> op, path |-> path, target |-> <<>>]
CmdTo(op, path, target)  == [op |-> op, path |-> path, target |-> target]
On(paths) ==
    {Cmd(op, path) : op \in {"mkdir", "remove", "rmdir", "list", "stat"}, path \in paths}
Opens(paths) == {Cmd(op, path) : op \in {"open", "openTouch"}, path \in paths}
Renames(paths) ==
    {CmdTo(op, path, target) : op \in {"rename", "posixRename"},
                               path \in paths, target \in paths}

AllCommands ==
    [s \in Sessions |->
        On({<<Personal>>, <<Personal, docs>>}) \cup Opens({<<Personal, docs>>})
        \cup {Cmd("list", <<>>)}
        \cup {CmdTo(op, <<Personal, docs>>, t) : op \in {"rename", "posixRename"},
                                       t \in {<<Personal, pics>>, <<Project, docs>>}}]

\* Each session has docs directory of its own.
Home(s) == IF s = s1 THEN <<Personal, docs>> ELSE <<Personal, pics>>
HomeCommands ==
    [s \in Sessions |->
        LET paths == {Append(Home(s), docs), Append(Home(s), pics)}
        IN  On(paths) \cup Opens(paths) \cup Renames(paths) \cup On({Home(s)})]

\* The sessions of vfs_homes work apart.
ASSUME HomesAreApart == Commands = HomeCommands => WorkApart

OnlyRename == [s \in Sessions |-> {CmdTo("rename", <<Personal, docs>>, <<Personal, pics>>)}]

TwoSessions == {s1, s2}
OneSession  == {s1}
=============================================================================
