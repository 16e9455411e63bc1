---------------------------- MODULE VfsCommands -----------------------------
(***************************************************************************)
(* The requests of a session that name paths: the commands of              *)
(* pkg/vfs/cs3.go, dispatched by Filecmd, PosixRename and Filelist of      *)
(* pkg/vfs/sftp.go, and OpenFile up to the handle it returns.              *)
(*                                                                         *)
(* The request server of a session runs one such command at a time; every  *)
(* session runs its own, and other clients of OpenCloud work on the same   *)
(* spaces.  A command lists the spaces, finds the one its path begins with *)
(* and then makes one to three calls of the gateway.  A step of a session  *)
(* is one call with what the command does with the answer, so the tree may *)
(* change between the calls of a command.                                  *)
(***************************************************************************)
EXTENDS Trees, Lookup, FiniteSets

CONSTANTS
    Sessions,
    SpaceLists,     \* the lists of spaces, of [id, name], other clients choose from
    StartTrees,     \* the trees there may be at the start
    Commands,       \* for each session the commands it may be given
    MoveReplaces,   \* may (TRUE, FALSE) Move replace a destination that exists
    Faults,         \* the calls that may fail
    MaxCommands,    \* bound: commands in a behaviour
    MaxForeign      \* bound: changes by other clients

Calls == {"spaces", "stat", "list", "create", "delete", "move", "touch"}

\* The other faults: a status that is not OK where the code does not look at
\* it, and a change that is made though its answer does not arrive.
FaultKinds == Calls \cup {"status", "lost"}

ASSUME VfsAssumption ==
    /\ Faults \subseteq FaultKinds /\ MoveReplaces \subseteq BOOLEAN
    /\ MaxCommands \in Nat /\ MaxForeign \in Nat
    /\ \A t \in StartTrees : IsTree(t)

VARIABLES
    tree,       \* the nodes of all spaces
    spaces,     \* the spaces of the user, in the order they are listed
    pc, cmd,
    ref, to,    \* what path and target were resolved to
    answer,     \* what the last command of the session was answered
    views,      \* history: what its names and references named while it ran
    ignored,    \* history: it took an answer whose status was not OK
    commands, foreign

session == <<pc, cmd, ref, to, answer, ignored>>
vars    == <<tree, spaces, session, views, commands, foreign>>

NoCommand == [op |-> "none", path |-> <<>>, target |-> <<>>]
NoAnswer  == [is |-> "running", names |-> {}]

\* The requests; openTouch is that of a client that writes and wants the file
\* created or truncated, open every other.
Ops == {"mkdir", "rename", "posixRename", "remove", "rmdir", "list", "stat", "open", "openTouch"}

\* Commands are those the dispatch knows, and what they name is in the model.
ASSUME CommandsAssumption ==
    \A s \in Sessions : \A c \in Commands[s] :
        /\ c.op \in Ops
        /\ \A list \in SpaceLists :
              {Resolve(c.path, list), Resolve(c.target, list)} \subseteq Refs \cup {NoRef}

\* What the names of the command of s are resolved to at this moment, and what
\* is where the command was told to look.
KindAt(r) == IF r = NoRef THEN "unknown" ELSE tree[r]

View(s) ==
    [ref |-> Resolve(cmd[s].path, spaces), to |-> Resolve(cmd[s].target, spaces),
     kind |-> KindAt(ref[s]), target |-> KindAt(to[s]),
     names |-> IF cmd[s].path = <<>> THEN {spaces[k].name : k \in DOMAIN spaces}
               ELSE IF ref[s] = NoRef THEN {} ELSE Names(tree, ref[s])]

Init ==
    /\ spaces \in SpaceLists /\ tree \in StartTrees
    /\ pc = [s \in Sessions |-> "idle"]
    /\ cmd = [s \in Sessions |-> NoCommand]
    /\ ref = [s \in Sessions |-> NoRef] /\ to = [s \in Sessions |-> NoRef]
    /\ answer = [s \in Sessions |-> NoAnswer]
    /\ views = [s \in Sessions |-> {}]
    /\ ignored = [s \in Sessions |-> FALSE]
    /\ commands = 0 /\ foreign = 0

-----------------------------------------------------------------------------
(* A command and its calls *)

\* While a command runs, it sees every change of what it names.
Observe ==
    views' = [s \in Sessions |->
        IF pc[s] = "idle" /\ pc'[s] = "idle" THEN views[s]
        ELSE (IF pc[s] = "idle" THEN {} ELSE views[s]) \cup {View(s)'}]

\* Filecmd, PosixRename and Filelist hand the path to the command.
Call(s) ==
    /\ pc[s] = "idle" /\ commands < MaxCommands
    /\ \E c \in Commands[s] : cmd' = [cmd EXCEPT ![s] = c]
    /\ pc' = [pc EXCEPT ![s] = "spaces"]
    /\ answer' = [answer EXCEPT ![s] = NoAnswer]
    /\ ignored' = [ignored EXCEPT ![s] = FALSE]
    /\ commands' = commands + 1
    /\ ref' = [ref EXCEPT ![s] = NoRef] /\ to' = [to EXCEPT ![s] = NoRef]
    /\ UNCHANGED <<tree, spaces, foreign>>
    /\ Observe

Goto(s, call) ==
    /\ pc' = [pc EXCEPT ![s] = call]
    /\ UNCHANGED answer

Listed(s, names) ==
    /\ pc' = [pc EXCEPT ![s] = "idle"]
    /\ answer' = [answer EXCEPT ![s] = [is |-> "listed", names |-> names]]

Answer(s, is) ==
    /\ pc' = [pc EXCEPT ![s] = "idle"]
    /\ answer' = [answer EXCEPT ![s] = [is |-> is, names |-> {}]]

Op(s) == cmd[s].op

\* A mutant of FirstCall: remove deletes without looking.
FirstCallDeletes ==
    [mkdir |-> "create", rename |-> "stat", posixRename |-> "move",
     remove |-> "delete", rmdir |-> "stat", list |-> "list", stat |-> "stat",
     openTouch |-> "touch"]

\* The first call of each command once its paths are resolved.
FirstCall ==
    [mkdir |-> "create", rename |-> "stat", posixRename |-> "move",
     remove |-> "stat", rmdir |-> "stat", list |-> "list", stat |-> "stat",
     openTouch |-> "touch"]

IsRename(op) == op \in {"rename", "posixRename"}

\* Both paths of a rename have to be in one space; and a mutant of that check.
AnySpace(s, p, q) == TRUE
InOneSpace(s, p, q) == IsRename(Op(s)) => p[1] = q[1]

IsFound(s, p, q) == p # NoRef /\ (IsRename(Op(s)) => q # NoRef)
ListsSpaces(s)   == Op(s) = "list" /\ cmd[s].path = <<>>

\* listStorageSpaces, and FindSpaceForPath on what it returned.  A status that
\* is not OK gives no spaces and no error.
Spaces(s) ==
    /\ pc[s] = "spaces"
    /\ \E list \in {spaces} \cup (IF "status" \in Faults THEN {<<>>} ELSE {}) :
          LET p == Resolve(cmd[s].path, list)
              q == Resolve(cmd[s].target, list)
          IN  /\ ignored' = [ignored EXCEPT ![s] = list # spaces]
              /\ ref' = [ref EXCEPT ![s] = p] /\ to' = [to EXCEPT ![s] = q]
              /\ \/ ListsSpaces(s) /\ Listed(s, {list[k].name : k \in DOMAIN list})
                 \/ ~ListsSpaces(s) /\ ~IsFound(s, p, q) /\ Answer(s, "notExist")
                 \/ IsFound(s, p, q) /\ ~InOneSpace(s, p, q) /\ Answer(s, "error")
                 \/ Op(s) = "open" /\ IsFound(s, p, q) /\ Answer(s, "opened")
                 \/ /\ Op(s) # "open" /\ IsFound(s, p, q) /\ InOneSpace(s, p, q)
                    /\ Goto(s, FirstCall[Op(s)])
    /\ UNCHANGED <<tree, spaces, cmd, commands, foreign>>
    /\ Observe

\* toFileInfos: what is not a container is a file, also what is missing.  A
\* mutant hands out what the gateway said.
RawType(kind)  == kind
FileType(kind) == IF kind = "dir" THEN "dir" ELSE "file"

Ignore(s) == ignored' = [ignored EXCEPT ![s] = TRUE]

\* A call that fails ends the command with an error.  Not so the Stat of a
\* rename, which is only asked whether it found something, nor that of stat
\* when it answers: stat does not look at the status and makes a file of it.
\* Where there is no gateway to call, OpenFile fails as the others do.
CallFails(s) ==
    /\ pc[s] \in Faults
    /\ \/ pc[s] = "stat" /\ Op(s) = "rename" /\ Goto(s, "move") /\ UNCHANGED ignored
       \/ pc[s] = "stat" /\ Op(s) = "stat" /\ Answer(s, FileType("none")) /\ Ignore(s)
       \/ ~(pc[s] = "stat" /\ Op(s) = "rename") /\ Answer(s, "error") /\ UNCHANGED ignored
    /\ UNCHANGED <<tree, spaces, cmd, ref, to, commands, foreign>>
    /\ Observe

-----------------------------------------------------------------------------
(* Calls that read *)

\* What the command asks about; and a mutant, which looks at the source of a
\* rename and not at its target.
StatSource(s) == ref[s]
StatTarget(s) == IF Op(s) = "rename" THEN to[s] ELSE ref[s]

\* What each command does with the type that Stat reported.
Stat(s) ==
    /\ pc[s] = "stat"
    /\ LET kind == tree[StatTarget(s)] IN
       /\ \/ Op(s) = "rename" /\ kind # "none" /\ Answer(s, "exist")
          \/ Op(s) = "rename" /\ kind = "none" /\ Goto(s, "move")
          \/ Op(s) \in {"remove", "rmdir"} /\ kind = "none" /\ Answer(s, "notExist")
          \/ Op(s) = "remove" /\ kind = "dir" /\ Answer(s, "invalid")
          \/ Op(s) = "remove" /\ kind = "file" /\ Goto(s, "delete")
          \/ Op(s) = "rmdir" /\ kind = "file" /\ Answer(s, "notDir")
          \/ Op(s) = "rmdir" /\ kind = "dir" /\ Goto(s, "list")
          \/ Op(s) = "stat" /\ Answer(s, FileType(kind))
       /\ IF Op(s) = "stat" /\ kind = "none" THEN Ignore(s) ELSE UNCHANGED ignored
    /\ UNCHANGED <<tree, spaces, cmd, ref, to, commands, foreign>>
    /\ Observe

List(s) ==
    /\ pc[s] = "list"
    /\ \/ tree[ref[s]] # "dir" /\ Answer(s, "error")
       \/ /\ tree[ref[s]] = "dir"
          /\ \/ Op(s) = "list" /\ Listed(s, Names(tree, ref[s]))
             \/ Op(s) = "rmdir" /\ Entries(tree, ref[s]) # {} /\ Answer(s, "notEmpty")
             \/ Op(s) = "rmdir" /\ Entries(tree, ref[s]) = {} /\ Goto(s, "delete")
    /\ UNCHANGED <<tree, spaces, cmd, ref, to, ignored, commands, foreign>>
    /\ Observe

-----------------------------------------------------------------------------
(* Calls that change the tree *)

\* The gateway did it; the answer may be lost.
Done(s, newTree) ==
    /\ tree' = newTree
    /\ \/ Answer(s, "ok")
       \/ "lost" \in Faults /\ Answer(s, "error")

\* CreateContainer answers ALREADY_EXISTS, or fails without a parent.
Create(s) ==
    /\ pc[s] = "create"
    /\ \/ tree[ref[s]] # "none" /\ Answer(s, "exist") /\ UNCHANGED tree
       \/ /\ tree[ref[s]] = "none" /\ ~IsFree(tree, ref[s])
          /\ Answer(s, "error") /\ UNCHANGED tree
       \/ IsFree(tree, ref[s]) /\ Done(s, [tree EXCEPT ![ref[s]] = "dir"])
    /\ UNCHANGED <<spaces, cmd, ref, to, ignored, commands, foreign>>
    /\ Observe

\* TouchFile makes an empty file where nothing is.  OpenFile ignores its error
\* and does not look at its status.
Touch(s) ==
    /\ pc[s] = "touch"
    /\ \/ IsFree(tree, ref[s]) /\ tree' = [tree EXCEPT ![ref[s]] = "file"]
       \/ ~IsFree(tree, ref[s]) /\ UNCHANGED tree
       \/ "touch" \in Faults /\ UNCHANGED tree
    /\ Answer(s, "opened")
    /\ UNCHANGED <<spaces, cmd, ref, to, ignored, commands, foreign>>
    /\ Observe

\* Delete takes a file or a directory with all it has; not a space.
Delete(s) ==
    /\ pc[s] = "delete"
    /\ \/ tree[ref[s]] = "none" /\ Answer(s, "notExist") /\ UNCHANGED tree
       \/ IsRoot(ref[s]) /\ Answer(s, "error") /\ UNCHANGED tree
       \/ tree[ref[s]] # "none" /\ ~IsRoot(ref[s]) /\ Done(s, Without(tree, ref[s]))
    /\ UNCHANGED <<spaces, cmd, ref, to, ignored, commands, foreign>>
    /\ Observe

CanBeMoved(s) == ~IsRoot(ref[s]) /\ ~IsRoot(to[s]) /\ CanMove(tree, ref[s], to[s])

\* Move answers NOT_FOUND and ALREADY_EXISTS, unless it replaces.
Move(s) ==
    /\ pc[s] = "move"
    /\ \/ tree[ref[s]] = "none" /\ Answer(s, "notExist") /\ UNCHANGED tree
       \/ /\ tree[ref[s]] # "none" /\ tree[to[s]] # "none" /\ FALSE \in MoveReplaces
          /\ Answer(s, "exist") /\ UNCHANGED tree
       \/ /\ tree[ref[s]] # "none" /\ ~CanBeMoved(s)
          /\ Answer(s, "error") /\ UNCHANGED tree
       \/ /\ tree[ref[s]] # "none" /\ CanBeMoved(s)
          /\ tree[to[s]] = "none" \/ TRUE \in MoveReplaces
          /\ Done(s, Moved(tree, ref[s], to[s]))
    /\ UNCHANGED <<spaces, cmd, ref, to, ignored, commands, foreign>>
    /\ Observe

-----------------------------------------------------------------------------
(* Other clients *)

ByOthers == foreign < MaxForeign /\ foreign' = foreign + 1

ForeignCreate ==
    /\ ByOthers
    /\ \E r \in Nodes, kind \in {"file", "dir"} : IsFree(tree, r) /\ tree' = [tree EXCEPT ![r] = kind]
    /\ UNCHANGED <<spaces, session, commands>>
    /\ Observe

ForeignDelete ==
    /\ ByOthers
    /\ \E r \in Nodes : tree[r] # "none" /\ tree' = Without(tree, r)
    /\ UNCHANGED <<spaces, session, commands>>
    /\ Observe

\* Spaces are created, deleted, shared and renamed.
ForeignSpaces ==
    /\ ByOthers
    /\ \E list \in SpaceLists : spaces' = list
    /\ UNCHANGED <<tree, session, commands>>
    /\ Observe

-----------------------------------------------------------------------------

Step(s) ==
    \/ Call(s) \/ Spaces(s) \/ CallFails(s)
    \/ Stat(s) \/ List(s) \/ Create(s) \/ Touch(s) \/ Delete(s) \/ Move(s)

Next ==
    \/ \E s \in Sessions : Step(s)
    \/ ForeignCreate \/ ForeignDelete \/ ForeignSpaces

Spec == Init /\ [][Next]_vars

-----------------------------------------------------------------------------
(* Types *)

Answers == {"running", "error", "ok", "listed", "opened", "file", "dir", "notExist", "exist",
            "invalid", "notDir", "notEmpty"}

\* The types of the variables; whatever is in the tree is in a directory.
TypeOK ==
    /\ IsTree(tree) /\ spaces \in SpaceLists
    /\ pc \in [Sessions -> Calls \cup {"idle"}]
    /\ ref \in [Sessions -> Refs \cup {NoRef}] /\ to \in [Sessions -> Refs \cup {NoRef}]
    /\ DOMAIN cmd = Sessions /\ DOMAIN answer = Sessions /\ DOMAIN views = Sessions
    /\ \A s \in Sessions :
          /\ cmd[s] \in Commands[s] \cup {NoCommand} /\ answer[s].is \in Answers
          /\ \A v \in views[s] : v.kind \in Kinds \cup {"unknown"}
    /\ ignored \in [Sessions -> BOOLEAN]
    /\ commands \in Nat /\ foreign \in Nat

-----------------------------------------------------------------------------
(* What the commands have to keep *)

\* The answer a to the command c is what c finds when things are as in v.
Explains(c, a, v) ==
    \/ a.is = "notExist" /\ (v.kind = "none" \/ v.ref = NoRef)
    \/ a.is = "notExist" /\ IsRename(c.op) /\ v.to = NoRef
    \/ a.is = "exist" /\ (IF IsRename(c.op) THEN v.target ELSE v.kind) \in {"file", "dir"}
    \/ a.is \in {"invalid", "dir"} /\ v.kind = "dir"
    \/ a.is = "notDir" /\ v.kind = "file"
    \/ a.is = "notEmpty" /\ v.kind = "dir" /\ v.names # {}
    \/ a.is = "listed" /\ a.names = v.names /\ (c.path = <<>> \/ v.kind = "dir")
    \/ a.is = "file" /\ v.kind = "file"
    \/ a.is = "opened" /\ v.ref # NoRef
    \/ a.is = "ok" /\ (IF c.op = "mkdir" THEN v.kind = "none" ELSE v.kind \in {"file", "dir"})

\* Every answer was true at one moment between the request and the answer,
\* though a command makes up to four calls while others change the tree and
\* the spaces.  Excepted are the answers made of a status that is not OK: a
\* file for what stat does not find, and nothing without a list of the spaces.
AnswersTrue ==
    \A s \in Sessions : pc[s] = "idle" /\ answer[s].is \notin {"running", "error"} =>
        \/ ignored[s]
        \/ \E v \in views[s] : Explains(cmd[s], answer[s], v)

Changed(s) == {x \in Refs : tree'[x] # tree[x]}

\* A command changes nothing but what its names named at one moment while it
\* ran, and in one space only, also when spaces are renamed between listing
\* them and the change (FindSpaceForPath, the check for cross-space moves).
ChangesOnlyNamed ==
    [][\A s \in Sessions : pc[s] \in {"create", "touch", "delete", "move"} /\ pc'[s] = "idle" =>
         \E v \in views[s] :
            /\ \A x \in Changed(s) :
                  x \in Under(v.ref) \/ (IsRename(Op(s)) /\ x \in Under(v.to))
            /\ \A x, y \in Changed(s) : x[1] = y[1]]_vars

\* What the paths of a session may be resolved to.
Named(s) ==
    {r \in Refs : \E c \in Commands[s], list \in SpaceLists :
                     r \in {Resolve(c.path, list), Resolve(c.target, list)}}

\* No session names anything above, at or below what another names, and no
\* other client changes anything.
NamesApart ==
    /\ MaxForeign = 0
    /\ \A s, d \in Sessions : s # d =>
          \A p \in Named(s), q \in Named(d) : Under(p) \cap Under(q) = {}

\* Move does not replace its destination, or nobody relies on that: the Stat
\* of rename does not fail, and there is no posixRename, which has none.
TargetsChecked ==
    \/ TRUE \notin MoveReplaces
    \/ /\ "stat" \notin Faults
       /\ \A s \in Sessions : \A c \in Commands[s] : c.op # "posixRename"

WorkApart == NamesApart /\ TargetsChecked

\* When sessions work apart, the commands change the tree as SFTP promises,
\* however the calls interleave and whichever fail on the way, as far as
\* TargetsChecked lets them.
NS == INSTANCE Namespace

ImplementsNamespace == NS!Spec

-----------------------------------------------------------------------------
(* What the repository says and the code does not do *)

\* "It is an error if there already exists a file with the name specified by
\* newpath" (sftp.go:109): a rename replaces nothing.
RenameKeepsTarget ==
    [][\A s \in Sessions : Op(s) = "rename" /\ pc[s] = "move" /\ pc'[s] = "idle" =>
         tree' = tree \/ tree[to[s]] = "none"]_vars

=============================================================================
