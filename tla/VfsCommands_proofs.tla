------------------------- MODULE VfsCommands_proofs -------------------------
(***************************************************************************)
(* Theorems about VfsCommands, for any sessions, commands and trees, any   *)
(* lists of spaces, and without the bounds on commands and changes.        *)
(***************************************************************************)
EXTENDS VfsCommands, SequenceTheorems, TLAPS

-----------------------------------------------------------------------------
(* References *)

\* A reference is a path from a root, and so is the way to it.
LEMMA RefFacts ==
    ASSUME NEW r \in Refs
    PROVE  /\ r \in Seq(PathNames) /\ Len(r) \in Nat /\ Len(r) >= 1 /\ r # NoRef
           /\ ~IsRoot(r) => /\ Parent(r) \in Refs /\ Len(r) > 1 /\ Len(Parent(r)) = Len(r) - 1
                            /\ \A i \in 1 .. Len(r) - 1 : Parent(r)[i] = r[i]
<1>1. r \in Seq(PathNames) /\ r # <<>> /\ \A n \in 1 .. Len(r) : SubSeq(r, 1, n) \in Refs
  BY TreesAssumption DEF TreesAssumption
<1>2. Len(r) \in Nat /\ Len(r) >= 1
  BY <1>1
<1>3. ASSUME ~IsRoot(r)
      PROVE  /\ Parent(r) \in Refs /\ Len(r) > 1 /\ Len(Parent(r)) = Len(r) - 1
             /\ \A i \in 1 .. Len(r) - 1 : Parent(r)[i] = r[i]
  <2>0. Len(r) # 1
    BY <1>3 DEF IsRoot
  <2>1. Len(r) > 1 /\ Len(r) - 1 \in 1 .. Len(r)
    <3>1. \A n \in Nat : n >= 1 /\ n # 1 => n > 1 /\ n - 1 \in 1 .. n
      OBVIOUS
    <3> QED BY <1>2, <2>0, <3>1
  <2>2. \A i \in 1 .. Len(r) - 1 : r[i] \in PathNames
    BY <1>1, <1>2
  <2>3. /\ Len(Parent(r)) = Len(r) - 1
        /\ \A i \in 1 .. Len(r) - 1 : Parent(r)[i] = r[1 + i - 1]
    BY <1>2, <2>1, <2>2, SubSeqProperties DEF Parent
  <2>4. Parent(r) \in Refs
    BY <1>1, <2>1 DEF Parent
  <2> QED BY <1>2, <2>1, <2>3, <2>4
<1> QED BY <1>1, <1>2, <1>3 DEF NoRef

\* What is under a reference agrees with it as far as that goes.
LEMMA UnderIs ==
    ASSUME NEW r \in Refs, NEW x \in Refs
    PROVE  x \in Under(r) <=> Len(r) <= Len(x) /\ \A i \in 1 .. Len(r) : x[i] = r[i]
<1>1. r \in Seq(PathNames) /\ x \in Seq(PathNames)
  BY RefFacts
<1>2. ASSUME Len(r) <= Len(x)
      PROVE  /\ SubSeq(x, 1, Len(r)) \in Seq(PathNames) /\ Len(SubSeq(x, 1, Len(r))) = Len(r)
             /\ \A i \in 1 .. Len(r) : SubSeq(x, 1, Len(r))[i] = x[i]
  BY <1>1, <1>2
<1>3. ASSUME Len(r) <= Len(x), \A i \in 1 .. Len(r) : x[i] = r[i]
      PROVE  SubSeq(x, 1, Len(r)) = r
  BY <1>1, <1>2, <1>3, SeqEqual
<1> QED BY <1>2, <1>3 DEF Under

\* A reference is under itself, and what is under it is in its space.
LEMMA UnderFacts ==
    ASSUME NEW r \in Refs
    PROVE  r \in Under(r) /\ \A x \in Under(r) : x \in Refs /\ x[1] = r[1]
<1>1. Len(r) \in Nat /\ Len(r) >= 1
  BY RefFacts
<1>2. \A x \in Under(r) : x \in Refs
  BY DEF Under
<1> QED BY <1>1, <1>2, UnderIs

\* What is under a reference but not the reference has its directory there.
LEMMA UnderParent ==
    ASSUME NEW r \in Refs, NEW x \in Under(r), x # r
    PROVE  x \in Nodes /\ Parent(x) \in Under(r) /\ Len(r) < Len(x)
<1>1. /\ x \in Refs /\ Len(r) <= Len(x) /\ \A i \in 1 .. Len(r) : x[i] = r[i]
  BY UnderFacts, UnderIs
<1>2. x \in Seq(PathNames) /\ r \in Seq(PathNames) /\ Len(r) >= 1
  BY <1>1, RefFacts
<1>3. Len(x) # Len(r)
  BY <1>1, <1>2, SeqEqual
<1>4. Len(r) < Len(x) /\ ~IsRoot(x)
  BY <1>1, <1>2, <1>3 DEF IsRoot
<1>5. /\ Parent(x) \in Refs /\ Len(Parent(x)) = Len(x) - 1
      /\ \A i \in 1 .. Len(x) - 1 : Parent(x)[i] = x[i]
  BY <1>1, <1>4, RefFacts
<1>6. Parent(x) \in Under(r)
  BY <1>1, <1>2, <1>4, <1>5, UnderIs
<1> QED BY <1>1, <1>4, <1>6 DEF Nodes

-----------------------------------------------------------------------------
(* Trees *)

\* What is under something that is under r is under r.
LEMMA UnderTransitive ==
    ASSUME NEW r \in Refs, NEW y \in Under(r), NEW x \in Under(y)
    PROVE  x \in Under(r)
<1>1. y \in Refs /\ x \in Refs
  BY DEF Under
<1>2. Len(r) \in Nat /\ Len(y) \in Nat /\ Len(x) \in Nat
  BY <1>1, RefFacts
<1> QED BY <1>1, <1>2, UnderIs

\* Of two references above the same, one is above the other.
LEMMA UnderBoth ==
    ASSUME NEW q \in Refs, NEW y \in Refs, NEW x \in Under(q), x \in Under(y)
    PROVE  y \in Under(q) \/ q \in Under(y)
<1>1. x \in Refs
  BY DEF Under
<1>2. Len(q) \in Nat /\ Len(y) \in Nat /\ Len(x) \in Nat
  BY <1>1, RefFacts
<1>3. /\ \A i \in 1 .. Len(q) : x[i] = q[i]
      /\ \A i \in 1 .. Len(y) : x[i] = y[i]
  BY <1>1, UnderIs
<1>4. CASE Len(q) <= Len(y)
  <2>1. \A i \in 1 .. Len(q) : y[i] = q[i]
    BY <1>2, <1>3, <1>4
  <2> QED BY <1>4, <2>1, UnderIs
<1>5. CASE Len(y) <= Len(q)
  <2>1. \A i \in 1 .. Len(y) : q[i] = y[i]
    BY <1>2, <1>3, <1>5
  <2> QED BY <1>5, <2>1, UnderIs
<1> QED BY <1>2, <1>4, <1>5

\* A root is under nothing but itself.
LEMMA RootsAreAbove ==
    ASSUME NEW r \in Nodes, NEW x \in Refs, IsRoot(x)
    PROVE  x \notin Under(r)
<1>1. Len(r) > 1 /\ Len(r) \in Nat
  BY RefFacts DEF Nodes
<1> QED BY <1>1, UnderIs DEF IsRoot, Nodes

\* Whatever has something above it has a directory right above it.
LEMMA AboveIsDir ==
    ASSUME NEW t, IsTree(t), NEW y \in Refs, NEW x \in Under(y), x # y, t[Parent(x)] = "dir"
    PROVE  t[y] = "dir"
<1>1. x \in Nodes /\ Parent(x) \in Under(y)
  BY UnderParent
<1> QED BY <1>1 DEF IsTree

\* A tree without what is under a reference is a tree.
LEMMA WithoutIsTree ==
    ASSUME NEW t, IsTree(t), NEW r \in Nodes
    PROVE  IsTree(Without(t, r))
<1>0. r \in Refs
  BY DEF Nodes
<1>1. Without(t, r) \in [Refs -> Kinds]
  BY DEF IsTree, Without, Kinds
<1>2. ASSUME NEW x \in Refs, IsRoot(x) PROVE Without(t, r)[x] = "dir"
  BY <1>2, RootsAreAbove DEF IsTree, Without
<1>3. ASSUME NEW y \in Refs, NEW x \in Under(y) \ {y}, Without(t, r)[x] # "none"
      PROVE  Without(t, r)[y] = "dir"
  <2>1. x \in Refs
    BY DEF Under
  <2>2. x \notin Under(r) /\ t[x] # "none"
    BY <1>3, <2>1 DEF Without
  <2>3. y \notin Under(r)
    BY <1>0, <2>2, UnderTransitive
  <2> QED BY <2>2, <2>3 DEF IsTree, Without
<1> QED BY <1>1, <1>2, <1>3 DEF IsTree

\* A tree with something put where it is free is a tree.
LEMMA PutIsTree ==
    ASSUME NEW t, IsTree(t), NEW r \in Refs, IsFree(t, r), NEW kind \in Kinds
    PROVE  IsTree([t EXCEPT ![r] = kind]) /\ r \in Nodes
<1> DEFINE new == [t EXCEPT ![r] = kind]
<1>0. /\ t \in [Refs -> Kinds] /\ t[r] = "none" /\ t[Parent(r)] = "dir"
      /\ \A x \in Refs : x # r => new[x] = t[x]
  BY DEF IsTree, IsFree
<1>1. new \in [Refs -> Kinds]
  BY <1>0
<1>2. ~IsRoot(r)
  BY <1>0 DEF IsTree
<1>3. ASSUME NEW x \in Refs, IsRoot(x) PROVE new[x] = "dir"
  BY <1>0, <1>2, <1>3 DEF IsTree
<1>4. ASSUME NEW y \in Refs, NEW x \in Under(y) \ {y}, new[x] # "none"
      PROVE  new[y] = "dir"
  <2>1. x \in Refs
    BY DEF Under
  <2>2. CASE x = r
    <3>1. t[y] = "dir"
      BY <1>0, <2>2, AboveIsDir
    <3> QED BY <1>0, <3>1
  <2>3. CASE x # r
    <3>1. t[x] # "none"
      BY <1>0, <1>4, <2>1, <2>3
    <3>2. t[y] = "dir"
      BY <3>1 DEF IsTree
    <3> QED BY <1>0, <3>2
  <2> QED BY <2>2, <2>3
<1> HIDE DEF new
<1>5. IsTree(new)
  BY <1>1, <1>3, <1>4 DEF IsTree
<1> QED BY <1>2, <1>5 DEF Nodes, new

\* The way on from q to x, and the same way on from p.
LEMMA RestFacts ==
    ASSUME NEW p \in Refs, NEW q \in Refs, NEW x \in Under(q)
    PROVE  /\ p \o Rest(q, x) \in Seq(PathNames)
           /\ Len(p \o Rest(q, x)) = Len(p) + Len(x) - Len(q)
           /\ \A i \in 1 .. Len(p) + Len(x) - Len(q) :
                 (p \o Rest(q, x))[i] = IF i <= Len(p) THEN p[i] ELSE x[i - Len(p) + Len(q)]
<1>1. x \in Refs /\ Len(q) <= Len(x)
  BY UnderIs DEF Under
<1>2. /\ p \in Seq(PathNames) /\ q \in Seq(PathNames) /\ x \in Seq(PathNames)
      /\ Len(p) \in Nat /\ Len(q) \in Nat /\ Len(x) \in Nat /\ Len(p) >= 1 /\ Len(q) >= 1
  BY <1>1, RefFacts
<1> DEFINE rest == Rest(q, x)
<1>3. /\ rest \in Seq(PathNames) /\ Len(rest) = Len(x) - Len(q)
      /\ \A i \in 1 .. Len(x) - Len(q) : rest[i] = x[Len(q) + i]
  <2>1. \A i \in Len(q) + 1 .. Len(x) : x[i] \in PathNames
    BY <1>2
  <2>2. Len(q) + 1 \in Int /\ Len(x) \in Int
    BY <1>2
  <2>3. /\ SubSeq(x, Len(q) + 1, Len(x)) \in Seq(PathNames)
        /\ Len(SubSeq(x, Len(q) + 1, Len(x))) =
              IF Len(q) + 1 <= Len(x) THEN Len(x) - (Len(q) + 1) + 1 ELSE 0
        /\ \A i \in 1 .. Len(x) - (Len(q) + 1) + 1 :
              SubSeq(x, Len(q) + 1, Len(x))[i] = x[Len(q) + 1 + i - 1]
    BY <2>1, <2>2, SubSeqProperties
  <2> QED BY <1>1, <1>2, <2>3 DEF Rest
<1> HIDE DEF rest
<1>4. /\ p \o rest \in Seq(PathNames) /\ Len(p \o rest) = Len(p) + Len(rest)
      /\ \A i \in 1 .. Len(p) + Len(rest) :
            (p \o rest)[i] = IF i <= Len(p) THEN p[i] ELSE rest[i - Len(p)]
  BY <1>2, <1>3, ConcatProperties
<1>5. Len(p \o rest) = Len(p) + Len(x) - Len(q)
  BY <1>2, <1>3, <1>4
<1>6. ASSUME NEW i \in 1 .. Len(p) + Len(x) - Len(q)
      PROVE  (p \o rest)[i] = IF i <= Len(p) THEN p[i] ELSE x[i - Len(p) + Len(q)]
  <2>1. i \in 1 .. Len(p) + Len(rest)
    BY <1>2, <1>3
  <2>2. CASE i <= Len(p)
    BY <1>4, <2>1, <2>2
  <2>3. CASE ~(i <= Len(p))
    <3>1. i - Len(p) \in 1 .. Len(x) - Len(q) /\ Len(q) + (i - Len(p)) = i - Len(p) + Len(q)
      BY <1>1, <1>2, <2>3
    <3>2. rest[i - Len(p)] = x[i - Len(p) + Len(q)]
      BY <1>3, <3>1
    <3> QED BY <1>4, <2>1, <2>3, <3>2
  <2> QED BY <2>2, <2>3
<1> QED BY <1>4, <1>5, <1>6 DEF rest

\* What is below what, below q, was so below p before it was moved.
LEMMA MovedBelow ==
    ASSUME NEW p \in Refs, NEW q \in Refs, NEW y \in Under(q), NEW x \in Under(y), x # y,
           p \o Rest(q, x) \in Refs
    PROVE  p \o Rest(q, y) \in Refs /\ p \o Rest(q, x) \in Under(p \o Rest(q, y)) \ {p \o Rest(q, y)}
<1>1. /\ y \in Refs /\ x \in Refs /\ x \in Under(q) /\ Len(q) <= Len(y) /\ Len(y) < Len(x)
      /\ \A i \in 1 .. Len(y) : x[i] = y[i]
  BY UnderTransitive, UnderIs, UnderParent DEF Under
<1>2. Len(p) \in Nat /\ Len(q) \in Nat /\ Len(x) \in Nat /\ Len(y) \in Nat /\ Len(p) >= 1
  BY <1>1, RefFacts
<1> DEFINE whole == p \o Rest(q, x)
           front == p \o Rest(q, y)
<1>3. /\ whole \in Seq(PathNames) /\ Len(whole) = Len(p) + Len(x) - Len(q)
      /\ front \in Seq(PathNames) /\ Len(front) = Len(p) + Len(y) - Len(q)
      /\ \A i \in 1 .. Len(p) + Len(x) - Len(q) :
            whole[i] = IF i <= Len(p) THEN p[i] ELSE x[i - Len(p) + Len(q)]
      /\ \A i \in 1 .. Len(p) + Len(y) - Len(q) :
            front[i] = IF i <= Len(p) THEN p[i] ELSE y[i - Len(p) + Len(q)]
  BY <1>1, RestFacts
<1> HIDE DEF whole, front
<1>4. ASSUME NEW i \in 1 .. Len(front) PROVE whole[i] = front[i]
  <2>1. i \in 1 .. Len(p) + Len(y) - Len(q) /\ i \in 1 .. Len(p) + Len(x) - Len(q)
    BY <1>1, <1>2, <1>3
  <2>2. CASE i <= Len(p)
    BY <1>3, <2>1, <2>2
  <2>3. CASE ~(i <= Len(p))
    <3>1. i - Len(p) + Len(q) \in 1 .. Len(y)
      BY <1>1, <1>2, <2>1, <2>3
    <3>2. x[i - Len(p) + Len(q)] = y[i - Len(p) + Len(q)]
      BY <1>1, <3>1
    <3> QED BY <1>3, <2>1, <2>3, <3>2
  <2> QED BY <2>2, <2>3
<1>5. Len(front) \in 1 .. Len(whole) /\ Len(front) < Len(whole) /\ Len(front) \in Nat
  BY <1>1, <1>2, <1>3
<1>6. SubSeq(whole, 1, Len(front)) = front
  <2>1. \A i \in 1 .. Len(front) : whole[i] \in PathNames
    BY <1>3, <1>5
  <2>2. /\ SubSeq(whole, 1, Len(front)) \in Seq(PathNames)
        /\ Len(SubSeq(whole, 1, Len(front))) = Len(front)
        /\ \A i \in 1 .. Len(front) : SubSeq(whole, 1, Len(front))[i] = whole[1 + i - 1]
    BY <1>5, <2>1, SubSeqProperties
  <2> QED BY <1>3, <1>4, <1>5, <2>2, SeqEqual
<1>7. front \in Refs
  <2>1. whole \in Refs
    BY DEF whole
  <2> QED BY <1>5, <1>6, <2>1, TreesAssumption DEF TreesAssumption
<1>8. whole \in Under(front) /\ whole # front
  <2>1. whole \in Refs
    BY DEF whole
  <2>2. Len(front) <= Len(whole) /\ Len(whole) # Len(front)
    BY <1>5
  <2> QED BY <1>6, <2>1, <2>2 DEF Under
<1> QED BY <1>7, <1>8 DEF whole, front

\* A tree in which something was moved is a tree.
LEMMA MovedIsTree ==
    ASSUME NEW t, IsTree(t), NEW p \in Nodes, NEW q \in Nodes, CanMove(t, p, q)
    PROVE  IsTree(Moved(t, p, q))
<1>0. /\ p \in Refs /\ q \in Refs /\ q \notin Under(p) /\ p \notin Under(q)
      /\ t[Parent(q)] = "dir"
  BY DEF Nodes, CanMove
<1>1. Moved(t, p, q) \in [Refs -> Kinds]
  BY DEF IsTree, Moved, Kinds
<1>2. ASSUME NEW x \in Refs, IsRoot(x) PROVE Moved(t, p, q)[x] = "dir"
  BY <1>2, RootsAreAbove DEF IsTree, Moved
<1>3. ASSUME NEW y \in Refs, NEW x \in Under(y) \ {y}, Moved(t, p, q)[x] # "none"
      PROVE  Moved(t, p, q)[y] = "dir"
  <2>1. x \in Refs
    BY DEF Under
  <2>2. CASE x \in Under(q) /\ y \in Under(q)
    <3>1. p \o Rest(q, x) \in Refs /\ t[p \o Rest(q, x)] # "none"
      BY <1>3, <2>1, <2>2 DEF Moved
    <3>2. /\ p \o Rest(q, y) \in Refs
          /\ p \o Rest(q, x) \in Under(p \o Rest(q, y)) \ {p \o Rest(q, y)}
      BY <1>0, <2>2, <3>1, MovedBelow
    <3>3. t[p \o Rest(q, y)] = "dir"
      BY <3>1, <3>2 DEF IsTree
    <3> QED BY <2>2, <3>2, <3>3 DEF Moved
  <2>3. CASE x \in Under(q) /\ y \notin Under(q)
    <3>1. q \in Under(y) /\ q # y
      BY <1>0, <2>3, UnderBoth, UnderFacts
    <3>2. t[y] = "dir"
      BY <1>0, <3>1, AboveIsDir
    <3>3. y \notin Under(p)
      BY <1>0, <3>1, UnderTransitive
    <3> QED BY <2>3, <3>2, <3>3 DEF Moved
  <2>4. CASE x \notin Under(q)
    <3>1. x \notin Under(p) /\ t[x] # "none"
      BY <1>3, <2>1, <2>4 DEF Moved
    <3>2. y \notin Under(p) /\ y \notin Under(q)
      BY <1>0, <2>4, <3>1, UnderTransitive
    <3>3. t[y] = "dir"
      BY <3>1 DEF IsTree
    <3> QED BY <3>2, <3>3 DEF Moved
  <2> QED BY <2>2, <2>3, <2>4
<1> QED BY <1>1, <1>2, <1>3 DEF IsTree

-----------------------------------------------------------------------------
(* Commands and their calls *)

\* The commands that make a call.
OpsOf(call) ==
    CASE call = "stat"   -> {"rename", "remove", "rmdir", "stat"}
      [] call = "list"   -> {"list", "rmdir"}
      [] call = "create" -> {"mkdir"}
      [] call = "touch"  -> {"openTouch"}
      [] call = "delete" -> {"remove", "rmdir"}
      [] call = "move"   -> {"rename", "posixRename"}
      [] OTHER           -> {}

\* Whoever makes a call has resolved what it needs, and is to make that call.
CallsHere(s) ==
    pc[s] \notin {"idle", "spaces"} =>
        /\ Op(s) \in OpsOf(pc[s]) /\ ref[s] \in Refs /\ cmd[s].path # <<>>
        /\ IsRename(Op(s)) => to[s] \in Refs /\ to[s][1] = ref[s][1]

CallsInv == \A s \in Sessions : CallsHere(s)

\* What a path is resolved to: nothing, or something in the model.
LEMMA ResolveFacts ==
    ASSUME TypeOK, NEW s \in Sessions, NEW list, list = spaces \/ list = <<>>
    PROVE  /\ Resolve(cmd[s].path, list) \in Refs \cup {NoRef}
           /\ Resolve(cmd[s].target, list) \in Refs \cup {NoRef}
           /\ cmd[s].path = <<>> => Resolve(cmd[s].path, list) = NoRef
           /\ list = <<>> => Resolve(cmd[s].path, list) = NoRef
<1>1. Resolve(<<>>, list) = NoRef
  BY DEF Resolve
<1>2. \A path : Resolve(path, <<>>) = NoRef
  BY DEF Resolve
<1>3. cmd[s] \in Commands[s] \cup {NoCommand} /\ spaces \in SpaceLists
  BY DEF TypeOK
<1>4. CASE cmd[s] = NoCommand
  BY <1>1, <1>2, <1>4 DEF NoCommand
<1>5. CASE cmd[s] \in Commands[s]
  BY <1>1, <1>2, <1>3, <1>5, CommandsAssumption DEF CommandsAssumption
<1> QED BY <1>3, <1>4, <1>5

\* A step of one session leaves the others and the spaces alone.
LEMMA OwnStep ==
    ASSUME TypeOK, NEW s \in Sessions, Step(s)
    PROVE  /\ UNCHANGED spaces
           /\ \A d \in Sessions \ {s} :
                 UNCHANGED <<pc[d], cmd[d], ref[d], to[d], answer[d], ignored[d]>>
           /\ DOMAIN cmd' = Sessions /\ DOMAIN answer' = Sessions
<1>1. /\ DOMAIN pc = Sessions /\ DOMAIN cmd = Sessions /\ DOMAIN ref = Sessions
      /\ DOMAIN to = Sessions /\ DOMAIN answer = Sessions /\ DOMAIN ignored = Sessions
  BY DEF TypeOK
<1>2. CASE Call(s)
  BY <1>1, <1>2 DEF Call
<1>3. CASE Spaces(s)
  BY <1>1, <1>3 DEF Spaces, Goto, Answer, Listed
<1>4. CASE CallFails(s)
  BY <1>1, <1>4 DEF CallFails, Goto, Answer, Ignore
<1>5. CASE Stat(s)
  BY <1>1, <1>5 DEF Stat, Goto, Answer, Ignore
<1>6. CASE List(s)
  BY <1>1, <1>6 DEF List, Goto, Answer, Listed
<1>7. CASE Create(s) \/ Touch(s) \/ Delete(s) \/ Move(s)
  BY <1>1, <1>7 DEF Create, Touch, Delete, Move, Answer, Done
<1> QED BY <1>2, <1>3, <1>4, <1>5, <1>6, <1>7 DEF Step

\* A command that names a path has a first call.
LEMMA FirstCalls ==
    ASSUME TypeOK, NEW s \in Sessions, cmd[s].path # <<>>, Op(s) # "open"
    PROVE  FirstCall[Op(s)] \in Calls /\ Op(s) \in OpsOf(FirstCall[Op(s)])
<1>1. cmd[s] \in Commands[s]
  BY DEF TypeOK, NoCommand
<1>2. Op(s) \in Ops \ {"open"}
  BY <1>1, CommandsAssumption DEF CommandsAssumption, Op
<1> QED BY <1>2 DEF FirstCall, Calls, OpsOf, Ops

\* The types of what a session keeps.
SessionTypes ==
    /\ pc \in [Sessions -> Calls \cup {"idle"}]
    /\ ref \in [Sessions -> Refs \cup {NoRef}] /\ to \in [Sessions -> Refs \cup {NoRef}]
    /\ ignored \in [Sessions -> BOOLEAN]
    /\ \A s \in Sessions : cmd[s] \in Commands[s] \cup {NoCommand} /\ answer[s].is \in Answers

\* A step keeps the types of its session, and what it needs for the next call.
LEMMA SessionStep ==
    ASSUME TypeOK, NEW s \in Sessions, CallsHere(s), Step(s)
    PROVE  SessionTypes' /\ CallsHere(s)'
<1>0. SessionTypes /\ DOMAIN cmd = Sessions /\ DOMAIN answer = Sessions
  BY DEF TypeOK, SessionTypes
<1>1. CASE Call(s)
  <2>1. PICK c \in Commands[s] : cmd' = [cmd EXCEPT ![s] = c]
    BY <1>1 DEF Call
  <2>2. pc' = [pc EXCEPT ![s] = "spaces"] /\ answer' = [answer EXCEPT ![s] = NoAnswer]
        /\ ignored' = [ignored EXCEPT ![s] = FALSE]
        /\ ref' = [ref EXCEPT ![s] = NoRef] /\ to' = [to EXCEPT ![s] = NoRef]
    BY <1>1 DEF Call
  <2> QED BY <1>0, <2>1, <2>2 DEF SessionTypes, CallsHere, Calls, Answers, NoAnswer
<1>2. CASE Spaces(s)
  <2>1. PICK list \in {spaces} \cup (IF "status" \in Faults THEN {<<>>} ELSE {}) :
          LET p == Resolve(cmd[s].path, list)
              q == Resolve(cmd[s].target, list)
          IN  /\ ignored' = [ignored EXCEPT ![s] = list # spaces]
              /\ ref' = [ref EXCEPT ![s] = p] /\ to' = [to EXCEPT ![s] = q]
              /\ \/ ListsSpaces(s) /\ Listed(s, {list[k].name : k \in DOMAIN list})
                 \/ ~ListsSpaces(s) /\ ~IsFound(s, p, q) /\ Answer(s, "notExist")
                 \/ IsFound(s, p, q) /\ ~InOneSpace(s, p, q) /\ Answer(s, "error")
                 \/ Op(s) = "open" /\ IsFound(s, p, q) /\ Answer(s, "opened")
                 \/ /\ Op(s) # "open" /\ IsFound(s, p, q) /\ InOneSpace(s, p, q)
                    /\ Goto(s, FirstCall[Op(s)])
    BY <1>2, Zenon DEF Spaces
  <2> DEFINE p == Resolve(cmd[s].path, list)
             q == Resolve(cmd[s].target, list)
  <2>2. /\ p \in Refs \cup {NoRef} /\ q \in Refs \cup {NoRef}
        /\ cmd[s].path = <<>> => p = NoRef
    BY <2>1, ResolveFacts
  <2>3. UNCHANGED cmd
    BY <1>2 DEF Spaces
  <2> HIDE DEF p, q
  <2>4. /\ ref' = [ref EXCEPT ![s] = p] /\ to' = [to EXCEPT ![s] = q]
        /\ ignored' = [ignored EXCEPT ![s] = list # spaces]
    BY <2>1 DEF p, q
  <2>5. CASE /\ pc' = [pc EXCEPT ![s] = "idle"]
             /\ answer'[s].is \in Answers
             /\ \A d \in Sessions \ {s} : UNCHANGED answer[d]
    BY <1>0, <2>2, <2>3, <2>4, <2>5 DEF SessionTypes, CallsHere
  <2>6. CASE /\ Op(s) # "open" /\ IsFound(s, p, q) /\ InOneSpace(s, p, q)
             /\ Goto(s, FirstCall[Op(s)])
    <3>1. cmd[s].path # <<>> /\ p \in Refs /\ (IsRename(Op(s)) => q \in Refs /\ q[1] = p[1])
      BY <2>2, <2>6 DEF IsFound, InOneSpace
    <3>2. FirstCall[Op(s)] \in Calls /\ Op(s) \in OpsOf(FirstCall[Op(s)])
      BY <2>6, <3>1, FirstCalls
    <3>3. /\ pc' = [pc EXCEPT ![s] = FirstCall[Op(s)]] /\ UNCHANGED answer /\ Op(s)' = Op(s)
      BY <2>3, <2>6 DEF Goto, Op
    <3> QED BY <1>0, <2>2, <2>3, <2>4, <3>1, <3>2, <3>3 DEF SessionTypes, CallsHere
  <2>7. \/ /\ Op(s) # "open" /\ IsFound(s, p, q) /\ InOneSpace(s, p, q)
           /\ Goto(s, FirstCall[Op(s)])
        \/ Answer(s, "notExist") \/ Answer(s, "error") \/ Answer(s, "opened")
        \/ Listed(s, {list[k].name : k \in DOMAIN list})
    BY <2>1 DEF p, q
  <2> QED BY <1>0, <2>5, <2>6, <2>7 DEF Answer, Listed, Answers
<1>3. CASE CallFails(s) \/ Stat(s) \/ List(s) \/ Create(s) \/ Touch(s) \/ Delete(s) \/ Move(s)
  <2>1. UNCHANGED <<cmd, ref, to>> /\ Op(s)' = Op(s)
    BY <1>3 DEF CallFails, Stat, List, Create, Touch, Delete, Move, Op
  <2>2. ignored' \in [Sessions -> BOOLEAN]
    BY <1>0, <1>3 DEF CallFails, Stat, List, Create, Touch, Delete, Move, SessionTypes, Ignore
  <2>3. CASE \E is \in Answers : \E names :
              /\ pc' = [pc EXCEPT ![s] = "idle"]
              /\ answer' = [answer EXCEPT ![s] = [is |-> is, names |-> names]]
    BY <1>0, <2>1, <2>2, <2>3 DEF SessionTypes, CallsHere
  <2>4. CASE \E call \in {"move", "delete", "list"} :
               Op(s) \in OpsOf(call) /\ Op(s) \in OpsOf(pc[s]) /\ pc[s] \in {"stat", "list"} /\ Goto(s, call)
    <3>1. PICK call \in {"move", "delete", "list"} :
             Op(s) \in OpsOf(call) /\ pc[s] \in {"stat", "list"} /\ Goto(s, call)
      BY <2>4
    <3>2. /\ pc' = [pc EXCEPT ![s] = call] /\ UNCHANGED answer
      BY <3>1 DEF Goto
    <3> QED BY <1>0, <2>1, <2>2, <3>1, <3>2 DEF SessionTypes, CallsHere, Calls
  <2>5. CASE CallFails(s)
    <3>1. CASE pc[s] = "stat" /\ Op(s) = "rename" /\ Goto(s, "move")
      BY <2>4, <3>1 DEF OpsOf
    <3> QED BY <2>3, <2>5, <3>1 DEF CallFails, Answer, Answers, FileType
  <2>6. CASE Stat(s)
    <3>1. CASE \/ Op(s) = "rename" /\ Goto(s, "move")
               \/ Op(s) = "remove" /\ Goto(s, "delete")
               \/ Op(s) = "rmdir" /\ Goto(s, "list")
      BY <2>4, <2>6, <3>1 DEF OpsOf, Stat
    <3> QED BY <2>3, <2>6, <3>1 DEF Stat, Answer, Answers, FileType
  <2>7. CASE List(s)
    <3>1. CASE Op(s) = "rmdir" /\ Goto(s, "delete")
      BY <2>4, <2>7, <3>1 DEF OpsOf, List
    <3> QED BY <2>3, <2>7, <3>1 DEF List, Answer, Listed, Answers
  <2>8. CASE Create(s) \/ Touch(s) \/ Delete(s) \/ Move(s)
    BY <2>3, <2>8 DEF Create, Touch, Delete, Move, Done, Answer, Answers
  <2> QED BY <1>3, <2>5, <2>6, <2>7, <2>8
<1> QED BY <1>1, <1>2, <1>3 DEF Step

\* Other clients leave the sessions alone.
Foreign == ForeignCreate \/ ForeignDelete \/ ForeignSpaces

LEMMA ForeignStep ==
    ASSUME Foreign
    PROVE  UNCHANGED session /\ Observe /\ (UNCHANGED spaces \/ UNCHANGED tree)
           /\ (TypeOK => spaces' \in SpaceLists)
BY DEF Foreign, ForeignCreate, ForeignDelete, ForeignSpaces, TypeOK

\* Every step keeps CallsInv and the types of the sessions.
LEMMA SessionsStep == TypeOK /\ CallsInv /\ [Next]_vars => SessionTypes' /\ CallsInv'
<1> SUFFICES ASSUME TypeOK, CallsInv, [Next]_vars PROVE SessionTypes' /\ CallsInv'
  OBVIOUS
<1>1. ASSUME NEW s \in Sessions, Step(s) PROVE SessionTypes' /\ CallsInv'
  <2>1. SessionTypes' /\ CallsHere(s)'
    BY <1>1, SessionStep DEF CallsInv
  <2>2. \A d \in Sessions \ {s} : UNCHANGED <<pc[d], cmd[d], ref[d], to[d]>>
    BY <1>1, OwnStep
  <2>3. \A d \in Sessions \ {s} : CallsHere(d)'
    BY <2>2 DEF CallsInv, CallsHere, Op
  <2> QED BY <2>1, <2>3 DEF CallsInv
<1>2. CASE Foreign \/ UNCHANGED vars
  <2>1. UNCHANGED session
    BY <1>2, ForeignStep DEF vars
  <2> QED BY <2>1 DEF session, TypeOK, SessionTypes, CallsInv, CallsHere, Op
<1> QED BY <1>1, <1>2 DEF Next, Foreign

\* A tree stays a tree.
LEMMA TreeStep == TypeOK /\ CallsInv /\ [Next]_vars => IsTree(tree')
<1> SUFFICES ASSUME TypeOK, CallsInv, [Next]_vars PROVE IsTree(tree')
  OBVIOUS
<1>0. IsTree(tree) /\ \A r \in Nodes : r \in Refs
  BY DEF TypeOK, Nodes
<1>1. ASSUME NEW s \in Sessions, Create(s) PROVE IsTree(tree')
  <2>1. ref[s] \in Refs
    BY <1>1 DEF Create, CallsInv, CallsHere
  <2>2. UNCHANGED tree \/ (IsFree(tree, ref[s]) /\ tree' = [tree EXCEPT ![ref[s]] = "dir"])
    BY <1>1 DEF Create, Done
  <2>3. IsFree(tree, ref[s]) => IsTree([tree EXCEPT ![ref[s]] = "dir"])
    BY <1>0, <2>1, PutIsTree DEF Kinds
  <2> QED BY <1>0, <2>2, <2>3, Zenon
<1>2. ASSUME NEW s \in Sessions, Touch(s) PROVE IsTree(tree')
  <2>1. ref[s] \in Refs
    BY <1>2 DEF Touch, CallsInv, CallsHere
  <2>2. UNCHANGED tree \/ (IsFree(tree, ref[s]) /\ tree' = [tree EXCEPT ![ref[s]] = "file"])
    BY <1>2 DEF Touch
  <2>3. IsFree(tree, ref[s]) => IsTree([tree EXCEPT ![ref[s]] = "file"])
    BY <1>0, <2>1, PutIsTree DEF Kinds
  <2> QED BY <1>0, <2>2, <2>3, Zenon
<1>3. ASSUME NEW s \in Sessions, Delete(s) PROVE IsTree(tree')
  <2>1. ref[s] \in Refs
    BY <1>3 DEF Delete, CallsInv, CallsHere
  <2>2. UNCHANGED tree \/ (ref[s] \in Nodes /\ tree' = Without(tree, ref[s]))
    BY <1>3, <2>1 DEF Delete, Done, Nodes
  <2> QED BY <1>0, <2>1, <2>2, WithoutIsTree
<1>4. ASSUME NEW s \in Sessions, Move(s) PROVE IsTree(tree')
  <2>1. ref[s] \in Refs /\ to[s] \in Refs
    BY <1>4 DEF Move, CallsInv, CallsHere, OpsOf, IsRename
  <2>2. UNCHANGED tree \/ (CanBeMoved(s) /\ tree' = Moved(tree, ref[s], to[s]))
    BY <1>4 DEF Move, Done
  <2>3. CanBeMoved(s) => ref[s] \in Nodes /\ to[s] \in Nodes /\ CanMove(tree, ref[s], to[s])
    BY <2>1 DEF CanBeMoved, Nodes
  <2> QED BY <1>0, <2>1, <2>2, <2>3, MovedIsTree
<1>5. CASE ForeignCreate
  BY <1>0, <1>5, PutIsTree DEF ForeignCreate, Kinds
<1>6. CASE ForeignDelete
  BY <1>0, <1>6, WithoutIsTree DEF ForeignDelete
<1>7. CASE UNCHANGED tree
  BY <1>0, <1>7
<1>8. ASSUME NEW s \in Sessions, Call(s) \/ Spaces(s) \/ CallFails(s) \/ Stat(s) \/ List(s)
      PROVE  UNCHANGED tree
  BY <1>8 DEF Call, Spaces, CallFails, Stat, List
<1> QED BY <1>1, <1>3, <1>4, <1>5, <1>6, <1>7, <1>8, <1>2 DEF Next, Step, ForeignSpaces, vars

-----------------------------------------------------------------------------
(* Views *)

\* A running command has seen how things are.
SeesHere(s) == pc[s] # "idle" => View(s) \in views[s]

\* What Observe does for one session.
LEMMA Observes ==
    ASSUME Observe, NEW s \in Sessions
    PROVE  /\ DOMAIN views' = Sessions
           /\ pc[s] = "idle" /\ pc'[s] = "idle" => views'[s] = views[s]
           /\ pc[s] = "idle" /\ pc'[s] # "idle" => views'[s] = {View(s)'}
           /\ pc[s] # "idle" => views'[s] = views[s] \cup {View(s)'}
           /\ SeesHere(s)'
BY DEF Observe, SeesHere

\* Every step observes, or changes nothing that a view shows.
LEMMA StepObserves ==
    ASSUME TypeOK, [Next]_vars
    PROVE  Observe \/ UNCHANGED vars
BY DEF Next, Step, Call, Spaces, CallFails, Stat, List, Create, Touch, Delete, Move, ForeignCreate,
       ForeignDelete, ForeignSpaces

\* Every step keeps the types.
LEMMA TypeStep == TypeOK /\ CallsInv /\ [Next]_vars => TypeOK' /\ CallsInv'
<1> SUFFICES ASSUME TypeOK, CallsInv, [Next]_vars PROVE TypeOK' /\ CallsInv'
  OBVIOUS
<1>1. SessionTypes' /\ CallsInv' /\ IsTree(tree')
  BY SessionsStep, TreeStep
<1>2. spaces' \in SpaceLists
  BY OwnStep, ForeignStep DEF TypeOK, Next, Foreign, vars
<1>3. DOMAIN cmd' = Sessions /\ DOMAIN answer' = Sessions
  BY OwnStep, ForeignStep DEF TypeOK, Next, Foreign, vars, session
<1>4. commands' \in Nat /\ foreign' \in Nat
  <2>1. commands' \in {commands, commands + 1}
    BY DEF Next, Step, Call, Spaces, CallFails, Stat, List, Create, Touch, Delete, Move,
           ForeignCreate, ForeignDelete, ForeignSpaces, vars
  <2>2. foreign' \in {foreign, foreign + 1}
    BY DEF Next, Step, Call, Spaces, CallFails, Stat, List, Create, Touch, Delete, Move,
           ForeignCreate, ForeignDelete, ForeignSpaces, ByOthers, vars
  <2> QED BY <2>1, <2>2 DEF TypeOK
<1>5. DOMAIN views' = Sessions /\
      \A s \in Sessions : \A v \in views'[s] : v.kind \in Kinds \cup {"unknown"}
  <2>1. \A s \in Sessions : View(s)'.kind \in Kinds \cup {"unknown"}
    BY <1>1 DEF View, KindAt, SessionTypes, IsTree
  <2>2. CASE Observe
    BY <2>1, <2>2, Observes DEF TypeOK, Observe
  <2>3. CASE UNCHANGED vars
    BY <2>3 DEF vars, TypeOK
  <2> QED BY <2>2, <2>3, StepObserves
<1> QED BY <1>1, <1>2, <1>3, <1>4, <1>5 DEF TypeOK, SessionTypes

\* TypeOK and CallsInv hold at the start.
LEMMA TypeInit == Init => TypeOK /\ CallsInv
BY VfsAssumption
   DEF VfsAssumption, Init, TypeOK, CallsInv, CallsHere, NoCommand, NoAnswer, Answers, NoRef

\* Every variable keeps its type, and whatever the commands and the other
\* clients do, what is in the tree is in a directory.
THEOREM TypesHold == Spec => []TypeOK
BY TypeInit, TypeStep, PTL DEF Spec

\* Whoever makes a call has resolved what it needs.
LEMMA CallsHold == Spec => []CallsInv
BY TypeInit, TypeStep, PTL DEF Spec

-----------------------------------------------------------------------------
(* Calls *)

\* How many calls a command has left at most.
Left == [idle |-> 0, create |-> 1, touch |-> 1, delete |-> 1, move |-> 1,
         list |-> 2, stat |-> 3, spaces |-> 4]

\* A command makes at most four calls: each one that it makes brings it nearer to
\* its answer, and nothing that others do, no change of the tree and no failure
\* makes it ask again.
THEOREM CommandsAdvance ==
    Spec => [][\A s \in Sessions : pc[s] # "idle" =>
                  pc'[s] = pc[s] \/ Left[pc'[s]] < Left[pc[s]]]_vars
<1>1. ASSUME TypeOK, CallsInv, [Next]_vars, NEW s \in Sessions, pc[s] # "idle"
      PROVE  pc'[s] = pc[s] \/ Left[pc'[s]] < Left[pc[s]]
  <2>0. pc \in [Sessions -> Calls \cup {"idle"}]
    BY <1>1 DEF TypeOK
  <2>a. ASSUME NEW call \in {"idle"} \cup Calls, pc' = [pc EXCEPT ![s] = call],
               Left[call] < Left[pc[s]]
        PROVE  pc'[s] = pc[s] \/ Left[pc'[s]] < Left[pc[s]]
    BY <2>0, <2>a
  <2>b. Left["idle"] < Left[pc[s]]
    BY <1>1, <2>0 DEF Left, Calls
  <2>1. CASE Spaces(s)
    <3>1. PICK list \in {spaces} \cup (IF "status" \in Faults THEN {<<>>} ELSE {}) :
            \/ pc' = [pc EXCEPT ![s] = "idle"]
            \/ /\ Op(s) # "open" /\ pc' = [pc EXCEPT ![s] = FirstCall[Op(s)]]
               /\ Resolve(cmd[s].path, list) # NoRef
      BY <2>1, Zenon DEF Spaces, IsFound, Listed, Answer, Goto
    <3>2. CASE Op(s) # "open" /\ Resolve(cmd[s].path, list) # NoRef
      <4>1. cmd[s].path # <<>>
        BY <3>2 DEF Resolve
      <4>2. FirstCall[Op(s)] \in Calls /\ Op(s) \in OpsOf(FirstCall[Op(s)])
        BY <1>1, <3>2, <4>1, FirstCalls
      <4>3. FirstCall[Op(s)] \in Calls \ {"spaces"}
        BY <4>2 DEF OpsOf
      <4>4. Left[FirstCall[Op(s)]] < Left["spaces"] /\ pc[s] = "spaces"
        BY <2>1, <4>3 DEF Left, Calls, Spaces
      <4> QED BY <2>a, <2>b, <3>1, <4>3, <4>4
    <3> QED BY <2>a, <2>b, <3>1, <3>2
  <2>2. CASE CallFails(s) \/ Stat(s)
    <3>1. \/ pc' = [pc EXCEPT ![s] = "idle"]
          \/ /\ pc[s] = "stat"
             /\ \E call \in {"move", "delete", "list"} : pc' = [pc EXCEPT ![s] = call]
      BY <2>2 DEF CallFails, Stat, Answer, Goto
    <3>2. \A call \in {"move", "delete", "list"} : call \in Calls /\ Left[call] < Left["stat"]
      BY DEF Left, Calls
    <3> QED BY <2>a, <2>b, <3>1, <3>2
  <2>3. CASE List(s)
    <3>1. \/ pc' = [pc EXCEPT ![s] = "idle"]
          \/ pc[s] = "list" /\ pc' = [pc EXCEPT ![s] = "delete"]
      BY <2>3 DEF List, Listed, Answer, Goto
    <3>2. "delete" \in Calls /\ Left["delete"] < Left["list"]
      BY DEF Left, Calls
    <3> QED BY <2>a, <2>b, <3>1, <3>2
  <2>4. CASE Create(s) \/ Touch(s) \/ Delete(s) \/ Move(s)
    <3>1. pc' = [pc EXCEPT ![s] = "idle"]
      BY <2>4 DEF Create, Touch, Delete, Move, Done, Answer
    <3> QED BY <2>a, <2>b, <3>1
  <2>5. ~Call(s)
    BY <1>1 DEF Call
  <2>6. CASE \E d \in Sessions \ {s} : Step(d)
    BY <1>1, <2>6, OwnStep
  <2>7. CASE ForeignCreate \/ ForeignDelete \/ ForeignSpaces \/ UNCHANGED vars
    BY <2>7 DEF ForeignCreate, ForeignDelete, ForeignSpaces, vars, session
  <2> QED BY <1>1, <2>1, <2>2, <2>3, <2>4, <2>5, <2>6, <2>7 DEF Next, Step
<1>2. TypeOK /\ CallsInv /\ [Next]_vars =>
        [\A s \in Sessions : pc[s] # "idle" =>
            pc'[s] = pc[s] \/ Left[pc'[s]] < Left[pc[s]]]_vars
  BY <1>1
<1> QED BY <1>2, TypesHold, CallsHold, PTL DEF Spec

-----------------------------------------------------------------------------
(* Answers *)

\* An answer is explained by what the command saw.
AnswerHere(s) ==
    pc[s] = "idle" /\ answer[s].is \notin {"running", "error"} =>
        ignored[s] \/ \E v \in views[s] : Explains(cmd[s], answer[s], v)

\* What a command saw when its paths were resolved, it has seen.
NamesHere(s) ==
    pc[s] \notin {"idle", "spaces"} => \E v \in views[s] : v.ref = ref[s] /\ v.to = to[s]

\* A command that ends answers what it just saw, or sees when it answers.
LEMMA AnswerStep ==
    ASSUME TypeOK, NEW s \in Sessions, CallsHere(s), SeesHere(s), AnswerHere(s), NamesHere(s), Step(s)
    PROVE  AnswerHere(s)'
<1>1. /\ DOMAIN pc = Sessions /\ DOMAIN ref = Sessions /\ DOMAIN to = Sessions
      /\ DOMAIN answer = Sessions /\ DOMAIN ignored = Sessions /\ DOMAIN cmd = Sessions
      /\ tree \in [Refs -> Kinds]
  BY DEF TypeOK, IsTree
<1>2. CASE Call(s)
  BY <1>1, <1>2 DEF Call, AnswerHere
<1>3. CASE Spaces(s)
  <2> DEFINE p(list) == Resolve(cmd[s].path, list)
             q(list) == Resolve(cmd[s].target, list)
  <2>1. PICK list \in {spaces} \cup (IF "status" \in Faults THEN {<<>>} ELSE {}) :
          /\ ignored' = [ignored EXCEPT ![s] = list # spaces]
          /\ ref' = [ref EXCEPT ![s] = p(list)] /\ to' = [to EXCEPT ![s] = q(list)]
          /\ \/ ListsSpaces(s) /\ Listed(s, {list[k].name : k \in DOMAIN list})
             \/ ~ListsSpaces(s) /\ ~IsFound(s, p(list), q(list)) /\ Answer(s, "notExist")
             \/ /\ IsFound(s, p(list), q(list)) /\ ~InOneSpace(s, p(list), q(list))
                /\ Answer(s, "error")
             \/ Op(s) = "open" /\ IsFound(s, p(list), q(list)) /\ Answer(s, "opened")
             \/ /\ Op(s) # "open" /\ IsFound(s, p(list), q(list)) /\ InOneSpace(s, p(list), q(list))
                /\ Goto(s, FirstCall[Op(s)])
    BY <1>3, Zenon DEF Spaces
  <2>2. UNCHANGED <<cmd, spaces>> /\ Op(s)' = Op(s) /\ View(s)' \in views'[s]
    BY <1>3, Observes DEF Spaces, Op
  <2>3. CASE list # spaces
    BY <1>1, <2>1, <2>3 DEF AnswerHere
  <2>4. CASE list = spaces
    <3>1. /\ View(s)'.ref = p(spaces) /\ View(s)'.to = q(spaces)
          /\ cmd[s].path = <<>> => View(s)'.names = {spaces[k].name : k \in DOMAIN spaces}
      BY <2>2 DEF View
    <3>2. CASE ListsSpaces(s) /\ Listed(s, {list[k].name : k \in DOMAIN list})
      <4>1. answer'[s] = [is |-> "listed", names |-> {spaces[k].name : k \in DOMAIN spaces}]
            /\ cmd[s].path = <<>>
        BY <1>1, <2>4, <3>2 DEF Listed, ListsSpaces
      <4>2. Explains(cmd[s], answer'[s], View(s)')
        BY <3>1, <4>1 DEF Explains
      <4> QED BY <2>2, <4>2 DEF AnswerHere
    <3>3. CASE ~IsFound(s, p(list), q(list)) /\ Answer(s, "notExist")
      <4>1. answer'[s].is = "notExist"
        BY <1>1, <3>3 DEF Answer
      <4>2. Explains(cmd[s], answer'[s], View(s)')
        BY <2>4, <3>1, <3>3, <4>1 DEF Explains, IsFound, Op
      <4> QED BY <2>2, <4>2 DEF AnswerHere
    <3>4. CASE Answer(s, "error")
      BY <1>1, <3>4 DEF Answer, AnswerHere
    <3>5. CASE IsFound(s, p(list), q(list)) /\ Answer(s, "opened")
      <4>1. answer'[s].is = "opened" /\ View(s)'.ref # NoRef
        BY <1>1, <2>4, <3>1, <3>5 DEF Answer, IsFound
      <4> QED BY <2>2, <4>1 DEF AnswerHere, Explains
    <3>6. CASE Op(s) # "open" /\ IsFound(s, p(list), q(list)) /\ Goto(s, FirstCall[Op(s)])
      <4>1. cmd[s].path # <<>>
        BY <2>4, <3>6, ResolveFacts DEF IsFound
      <4>2. FirstCall[Op(s)] # "idle"
        BY <3>6, <4>1, FirstCalls DEF Calls
      <4> QED BY <1>1, <3>6, <4>2 DEF Goto, AnswerHere
    <3> QED BY <2>1, <3>2, <3>3, <3>4, <3>6, <3>5
  <2> QED BY <2>3, <2>4
<1>4. CASE CallFails(s)
  <2>1. pc'[s] # "idle" \/ answer'[s].is = "error" \/ ignored'[s]
    BY <1>1, <1>4 DEF CallFails, Goto, Answer, Ignore
  <2> QED BY <2>1 DEF AnswerHere
<1>5. CASE Stat(s) \/ List(s) \/ Create(s) \/ Touch(s) \/ Delete(s) \/ Move(s)
  <2>1. UNCHANGED cmd /\ pc[s] \notin {"idle", "spaces"} /\ Observe
    BY <1>5 DEF Stat, List, Create, Touch, Delete, Move
  <2>2. /\ View(s) \in views'[s]
        /\ Op(s) \in OpsOf(pc[s]) /\ ref[s] \in Refs /\ ref[s] # NoRef /\ cmd[s].path # <<>>
        /\ IsRename(Op(s)) => to[s] \in Refs /\ to[s] # NoRef
    BY <2>1, Observes, RefFacts DEF SeesHere, CallsHere
  <2>3. /\ View(s).kind = tree[ref[s]] /\ tree[ref[s]] \in Kinds
        /\ View(s).names = Names(tree, ref[s])
        /\ IsRename(Op(s)) => View(s).target = tree[to[s]] /\ tree[to[s]] \in Kinds
    BY <1>1, <2>2 DEF View, KindAt
  <2>4. CASE pc'[s] # "idle" \/ answer'[s].is = "error" \/ ignored'[s]
    BY <2>4 DEF AnswerHere
  <2>5. CASE Explains(cmd[s], answer'[s], View(s))
    BY <2>1, <2>2, <2>5 DEF AnswerHere
  <2>6. CASE Stat(s)
    <3>1. /\ pc[s] = "stat"
          /\ StatTarget(s) = IF Op(s) = "rename" THEN to[s] ELSE ref[s]
          /\ Op(s) = "rename" => IsRename(Op(s))
      BY <2>6 DEF Stat, StatTarget, IsRename
    <3>2. CASE Op(s) = "stat"
      <4>1. answer'[s].is = FileType(tree[ref[s]]) /\ (tree[ref[s]] = "none" => ignored'[s])
        BY <1>1, <2>6, <3>1, <3>2 DEF Stat, Answer, Ignore
      <4> QED BY <2>3, <2>4, <2>5, <4>1 DEF FileType, Explains, Kinds
    <3>3. CASE Op(s) = "rename"
      <4>1. pc'[s] # "idle" \/ (answer'[s].is = "exist" /\ tree[to[s]] # "none")
        BY <1>1, <2>6, <3>1, <3>3 DEF Stat, Answer, Goto
      <4> QED BY <2>3, <2>4, <2>5, <3>1, <3>3, <4>1 DEF Explains, Kinds, Op
    <3>4. CASE Op(s) \in {"remove", "rmdir"}
      <4>1. \/ pc'[s] # "idle"
            \/ answer'[s].is = "notExist" /\ tree[ref[s]] = "none"
            \/ answer'[s].is = "invalid" /\ tree[ref[s]] = "dir"
            \/ answer'[s].is = "notDir" /\ tree[ref[s]] = "file"
        BY <1>1, <2>6, <3>1, <3>4 DEF Stat, Answer, Goto
      <4> QED BY <2>3, <2>4, <2>5, <4>1 DEF Explains
    <3> QED BY <2>2, <3>1, <3>2, <3>3, <3>4 DEF OpsOf
  <2>7. CASE List(s)
    <3>1. \/ pc'[s] # "idle" \/ answer'[s].is = "error"
          \/ /\ tree[ref[s]] = "dir"
             /\ answer'[s] = [is |-> "listed", names |-> Names(tree, ref[s])]
          \/ /\ tree[ref[s]] = "dir" /\ answer'[s].is = "notEmpty"
             /\ Entries(tree, ref[s]) # {}
      BY <1>1, <2>7 DEF List, Answer, Listed, Goto
    <3>2. Entries(tree, ref[s]) # {} => Names(tree, ref[s]) # {}
      BY DEF Names
    <3> QED BY <2>3, <2>4, <2>5, <3>1, <3>2 DEF Explains
  <2>8. CASE Create(s)
    <3>1. Op(s) = "mkdir" /\ ~IsRename(Op(s))
      BY <2>2, <2>8 DEF Create, OpsOf, IsRename
    <3>2. \/ answer'[s].is = "error"
          \/ answer'[s].is = "exist" /\ tree[ref[s]] # "none"
          \/ answer'[s].is = "ok" /\ tree[ref[s]] = "none"
      BY <1>1, <2>8 DEF Create, Done, Answer, IsFree
    <3> QED BY <2>3, <2>4, <2>5, <3>1, <3>2 DEF Explains, Op, Kinds
  <2>9. CASE Touch(s)
    <3>1. answer'[s].is = "opened"
      BY <1>1, <2>9 DEF Touch, Answer
    <3>2. PICK v \in views[s] : v.ref = ref[s]
      BY <2>1 DEF NamesHere
    <3>3. v \in views'[s]
      BY <2>1, Observes
    <3> QED BY <2>2, <3>1, <3>2, <3>3 DEF Explains, AnswerHere
  <2>10. CASE Delete(s)
    <3>1. Op(s) # "mkdir"
      BY <2>2, <2>10 DEF Delete, OpsOf
    <3>2. \/ answer'[s].is = "error"
          \/ answer'[s].is = "notExist" /\ tree[ref[s]] = "none"
          \/ answer'[s].is = "ok" /\ tree[ref[s]] # "none"
      BY <1>1, <2>10 DEF Delete, Done, Answer
    <3> QED BY <2>3, <2>4, <2>5, <3>1, <3>2 DEF Explains, Op, Kinds
  <2>11. CASE Move(s)
    <3>1. IsRename(Op(s)) /\ Op(s) # "mkdir"
      BY <2>2, <2>11 DEF Move, OpsOf, IsRename
    <3>2. \/ answer'[s].is = "error"
          \/ answer'[s].is = "notExist" /\ tree[ref[s]] = "none"
          \/ answer'[s].is = "exist" /\ tree[to[s]] # "none"
          \/ answer'[s].is = "ok" /\ tree[ref[s]] # "none"
      <4>1. \/ Answer(s, "error")
            \/ Answer(s, "notExist") /\ tree[ref[s]] = "none"
            \/ Answer(s, "exist") /\ tree[to[s]] # "none"
            \/ Answer(s, "ok") /\ tree[ref[s]] # "none"
        BY <2>11, Zenon DEF Move, Done
      <4> QED BY <1>1, <4>1 DEF Answer
    <3> QED BY <2>3, <2>4, <2>5, <3>1, <3>2 DEF Explains, Op, Kinds
  <2> QED BY <1>5, <2>6, <2>7, <2>8, <2>10, <2>11, <2>9
<1> QED BY <1>2, <1>3, <1>4, <1>5 DEF Step

ViewsInv == \A s \in Sessions : SeesHere(s) /\ AnswerHere(s) /\ NamesHere(s)

\* A step keeps NamesHere for its session.
LEMMA NamesStep ==
    ASSUME TypeOK, NEW s \in Sessions, CallsHere(s), NamesHere(s), Step(s)
    PROVE  NamesHere(s)'
<1>1. /\ DOMAIN pc = Sessions /\ DOMAIN ref = Sessions /\ DOMAIN to = Sessions
  BY DEF TypeOK
<1>2. CASE Call(s)
  BY <1>1, <1>2 DEF Call, NamesHere
<1>3. CASE Spaces(s)
  <2> DEFINE p(list) == Resolve(cmd[s].path, list)
             q(list) == Resolve(cmd[s].target, list)
  <2>1. PICK list \in {spaces} \cup (IF "status" \in Faults THEN {<<>>} ELSE {}) :
          /\ ignored' = [ignored EXCEPT ![s] = list # spaces]
          /\ ref' = [ref EXCEPT ![s] = p(list)] /\ to' = [to EXCEPT ![s] = q(list)]
          /\ \/ ListsSpaces(s) /\ Listed(s, {list[k].name : k \in DOMAIN list})
             \/ ~ListsSpaces(s) /\ ~IsFound(s, p(list), q(list)) /\ Answer(s, "notExist")
             \/ /\ IsFound(s, p(list), q(list)) /\ ~InOneSpace(s, p(list), q(list))
                /\ Answer(s, "error")
             \/ Op(s) = "open" /\ IsFound(s, p(list), q(list)) /\ Answer(s, "opened")
             \/ /\ Op(s) # "open" /\ IsFound(s, p(list), q(list)) /\ InOneSpace(s, p(list), q(list))
                /\ Goto(s, FirstCall[Op(s)])
    BY <1>3, Zenon DEF Spaces
  <2>2. UNCHANGED <<cmd, spaces>> /\ View(s)' \in views'[s]
    BY <1>3, Observes DEF Spaces
  <2>3. CASE pc'[s] = "idle"
    BY <2>3 DEF NamesHere
  <2>4. CASE IsFound(s, p(list), q(list))
    <3>1. list = spaces
      BY <2>1, <2>4, ResolveFacts DEF IsFound
    <3>2. View(s)'.ref = ref'[s] /\ View(s)'.to = to'[s]
      BY <1>1, <2>1, <2>2, <3>1 DEF View
    <3> QED BY <2>2, <3>2 DEF NamesHere
  <2> QED BY <1>1, <2>1, <2>3, <2>4 DEF Listed, Answer
<1>4. CASE CallFails(s) \/ Stat(s) \/ List(s) \/ Create(s) \/ Touch(s) \/ Delete(s) \/ Move(s)
  <2>1. UNCHANGED <<ref, to>> /\ Observe
    BY <1>4 DEF CallFails, Stat, List, Create, Touch, Delete, Move
  <2>2. pc'[s] = "idle" \/ pc[s] \notin {"idle", "spaces"}
    BY <1>1, <1>4 DEF CallFails, Stat, List, Create, Touch, Delete, Move, Answer, Done
  <2>3. pc[s] # "idle" => views[s] \subseteq views'[s]
    BY <2>1, Observes
  <2> QED BY <2>1, <2>2, <2>3 DEF NamesHere
<1> QED BY <1>2, <1>3, <1>4 DEF Step

\* A session that a step leaves alone sees what changes, and keeps the rest.
LEMMA ViewsElsewhere ==
    ASSUME NEW d \in Sessions, Observe, AnswerHere(d), NamesHere(d),
           UNCHANGED <<pc[d], cmd[d], ref[d], to[d], answer[d], ignored[d]>>
    PROVE  SeesHere(d)' /\ AnswerHere(d)' /\ NamesHere(d)'
<1>1. SeesHere(d)' /\ (pc[d] = "idle" => views'[d] = views[d]) /\ views[d] \subseteq views'[d]
  BY Observes
<1> QED BY <1>1 DEF AnswerHere, NamesHere

\* Every step keeps ViewsInv.
LEMMA ViewsStep == TypeOK /\ CallsInv /\ ViewsInv /\ [Next]_vars => ViewsInv'
<1> SUFFICES ASSUME TypeOK, CallsInv, ViewsInv, [Next]_vars PROVE ViewsInv'
  OBVIOUS
<1>1. ASSUME NEW s \in Sessions, Step(s) PROVE ViewsInv'
  <2>1. Observe
    BY <1>1 DEF Step, Call, Spaces, CallFails, Stat, List, Create, Touch, Delete, Move
  <2>2. SeesHere(s)' /\ AnswerHere(s)' /\ NamesHere(s)'
    BY <1>1, <2>1, Observes, AnswerStep, NamesStep DEF ViewsInv, CallsInv
  <2>3. \A d \in Sessions \ {s} : SeesHere(d)' /\ AnswerHere(d)' /\ NamesHere(d)'
    BY <1>1, <2>1, OwnStep, ViewsElsewhere DEF ViewsInv
  <2> QED BY <2>2, <2>3 DEF ViewsInv
<1>2. CASE Foreign
  BY <1>2, ForeignStep, ViewsElsewhere DEF ViewsInv, session
<1>3. CASE UNCHANGED vars
  BY <1>3 DEF vars, session, ViewsInv, SeesHere, AnswerHere, NamesHere, View, KindAt
<1> QED BY <1>1, <1>2, <1>3 DEF Next, Foreign

\* A command ends only after it saw what it did.
LEMMA ViewsHold == Spec => []ViewsInv
<1>1. Init => ViewsInv
  BY DEF Init, ViewsInv, SeesHere, AnswerHere, NamesHere, NoAnswer
<1> QED BY <1>1, ViewsStep, TypesHold, CallsHold, PTL DEF Spec

\* Every answer was true at one moment between the request and the answer.
THEOREM AnswersAreTrue == Spec => []AnswersTrue
<1>1. ViewsInv => AnswersTrue
  BY DEF ViewsInv, AnswerHere, AnswersTrue
<1> QED BY <1>1, ViewsHold, PTL

\* A change is of what the command has resolved, and in its space.
LEMMA ChangeStep ==
    ASSUME TypeOK, CallsInv, [Next]_vars, NEW s \in Sessions,
           pc[s] \in {"create", "touch", "delete", "move"}, pc'[s] = "idle"
    PROVE  /\ \A x \in Changed(s) : x \in Under(ref[s]) \/ (IsRename(Op(s)) /\ x \in Under(to[s]))
           /\ \A x, y \in Changed(s) : x[1] = y[1]
<1>1. Step(s)
  <2>1. \E d \in Sessions : Step(d)
    BY ForeignStep DEF Next, Foreign, vars, session
  <2> QED BY <2>1, OwnStep
<1>2. /\ tree \in [Refs -> Kinds] /\ ref[s] \in Refs
      /\ IsRename(Op(s)) => to[s] \in Refs /\ to[s][1] = ref[s][1]
  BY DEF TypeOK, IsTree, CallsInv, CallsHere
<1>3. \A x \in Changed(s) : x \in Under(ref[s]) \/ (IsRename(Op(s)) /\ x \in Under(to[s]))
  <2>1. CASE CallFails(s)
    BY <2>1 DEF CallFails, Changed
  <2>2. CASE Create(s)
    <3>1. UNCHANGED tree \/ tree' = [tree EXCEPT ![ref[s]] = "dir"]
      BY <2>2 DEF Create, Done
    <3> QED BY <1>2, <3>1, UnderFacts DEF Changed
  <2>3. CASE Touch(s)
    <3>1. UNCHANGED tree \/ tree' = [tree EXCEPT ![ref[s]] = "file"]
      BY <2>3 DEF Touch
    <3> QED BY <1>2, <3>1, UnderFacts DEF Changed
  <2>4. CASE Delete(s)
    <3>1. UNCHANGED tree \/ tree' = Without(tree, ref[s])
      BY <2>4 DEF Delete, Done
    <3> QED BY <1>2, <3>1 DEF Changed, Without
  <2>5. CASE Move(s)
    <3>1. UNCHANGED tree \/ tree' = Moved(tree, ref[s], to[s])
      BY <2>5 DEF Move, Done
    <3>2. IsRename(Op(s))
      BY <2>5 DEF Move, CallsInv, CallsHere, OpsOf, IsRename
    <3> QED BY <1>2, <3>1, <3>2 DEF Changed, Moved
  <2> QED BY <1>1, <2>1, <2>2, <2>4, <2>5, <2>3 DEF Step, Call, Spaces, Stat, List
<1>4. \A x \in Changed(s) : x[1] = ref[s][1]
  BY <1>2, <1>3, UnderFacts
<1> QED BY <1>3, <1>4

\* A command changes nothing but what its names named at one moment while it
\* ran, and in one space only.
THEOREM OnlyNamedChanges == Spec => ChangesOnlyNamed
<1>1. ASSUME TypeOK, CallsInv, ViewsInv, [Next]_vars, NEW s \in Sessions,
             pc[s] \in {"create", "touch", "delete", "move"}, pc'[s] = "idle"
      PROVE  \E v \in views[s] :
                /\ \A x \in Changed(s) :
                      x \in Under(v.ref) \/ (IsRename(Op(s)) /\ x \in Under(v.to))
                /\ \A x, y \in Changed(s) : x[1] = y[1]
  <2>1. PICK v \in views[s] : v.ref = ref[s] /\ v.to = to[s]
    BY <1>1 DEF ViewsInv, NamesHere
  <2> QED BY <1>1, <2>1, ChangeStep
<1>2. TypeOK /\ CallsInv /\ ViewsInv /\ [Next]_vars =>
        [\A s \in Sessions : pc[s] \in {"create", "touch", "delete", "move"} /\ pc'[s] = "idle" =>
           \E v \in views[s] :
              /\ \A x \in Changed(s) :
                    x \in Under(v.ref) \/ (IsRename(Op(s)) /\ x \in Under(v.to))
              /\ \A x, y \in Changed(s) : x[1] = y[1]]_vars
  BY <1>1
<1> QED BY <1>2, ViewsHold, TypesHold, CallsHold, PTL DEF Spec, ChangesOnlyNamed

-----------------------------------------------------------------------------
(* Sessions that work apart: on names of their own, and with nobody else in *)
(* the spaces.  Faults, and the steps of other sessions between the calls   *)
(* of a command, stay.                                                      *)

\* A directory without entries has nothing below it, nor has a file.
LEMMA NothingBelow ==
    ASSUME NEW t, IsTree(t), NEW r \in Refs,
           t[r] = "file" \/ Entries(t, r) = {}, NEW x \in Under(r) \ {r}
    PROVE  t[x] = "none"
<1> SUFFICES ASSUME t[x] # "none" PROVE FALSE
  OBVIOUS
<1>1. t[r] = "dir" /\ x \in Refs
  BY DEF IsTree, Under
<1>2. Entries(t, r) = {}
  BY <1>1
<1>3. /\ Len(r) \in Nat /\ Len(x) \in Nat /\ Len(r) < Len(x)
      /\ x \in Seq(PathNames) /\ \A i \in 1 .. Len(r) : x[i] = r[i]
  BY <1>1, RefFacts, UnderIs, UnderParent
<1> DEFINE y == SubSeq(x, 1, Len(r) + 1)
<1>4. Len(r) + 1 \in 1 .. Len(x)
  BY <1>3
<1>5. y \in Refs
  BY <1>1, <1>4, TreesAssumption DEF TreesAssumption
<1>6. Len(y) = Len(r) + 1 /\ \A i \in 1 .. Len(r) + 1 : y[i] = x[i]
  <2>1. \A i \in 1 .. Len(r) + 1 : x[i] \in PathNames
    BY <1>3, <1>4
  <2>2. Len(y) = Len(r) + 1 /\ \A i \in 1 .. Len(r) + 1 : y[i] = x[1 + i - 1]
    BY <1>3, <1>4, <2>1, SubSeqProperties
  <2> QED BY <1>3, <2>2
<1> HIDE DEF y
<1>7. y \in Under(r) /\ x \in Under(y)
  BY <1>1, <1>3, <1>4, <1>5, <1>6, UnderIs
<1>8. t[y] # "none"
  BY <1>1, <1>5, <1>7 DEF IsTree
<1> QED BY <1>2, <1>6, <1>7, <1>8 DEF Entries

\* What is deleted is then all there was.
LEMMA OnlyOneDeleted ==
    ASSUME NEW t, IsTree(t), NEW r \in Refs, t[r] = "file" \/ Entries(t, r) = {}
    PROVE  Without(t, r) = [t EXCEPT ![r] = "none"]
<1>1. \A x \in Under(r) \ {r} : t[x] = "none"
  BY NothingBelow
<1>2. r \in Under(r) /\ t \in [Refs -> Kinds]
  BY UnderFacts DEF IsTree
<1> QED BY <1>1, <1>2 DEF Without

\* A session works on what its commands name.
NamedHere(s) == ref[s] \in Named(s) \cup {NoRef} /\ to[s] \in Named(s) \cup {NoRef}

\* Whoever is about to delete has looked, and it still is as it was.
MayDelete(s) ==
    pc[s] = "delete" => IF Op(s) = "remove" THEN tree[ref[s]] = "file"
                        ELSE tree[ref[s]] = "dir" /\ Entries(tree, ref[s]) = {}

\* And a rename that is about to move has, unless its Stat failed.
MayMove(s) ==
    pc[s] = "move" /\ Op(s) = "rename" /\ "stat" \notin Faults => tree[to[s]] = "none"

CheckedHere(s) == MayDelete(s) /\ MayMove(s)

ApartInv == \A s \in Sessions : NamedHere(s) /\ CheckedHere(s)

\* A command resolves its paths to what its session names.
LEMMA NamedStep ==
    ASSUME TypeOK, NEW s \in Sessions, NamedHere(s), Step(s)
    PROVE  NamedHere(s)'
<1>1. /\ DOMAIN ref = Sessions /\ DOMAIN to = Sessions /\ spaces \in SpaceLists
      /\ cmd[s] \in Commands[s] \cup {NoCommand}
  BY DEF TypeOK
<1>2. CASE Call(s)
  BY <1>1, <1>2 DEF Call, NamedHere
<1>3. CASE Spaces(s)
  <2>1. PICK list \in {spaces} \cup (IF "status" \in Faults THEN {<<>>} ELSE {}) :
          /\ ref' = [ref EXCEPT ![s] = Resolve(cmd[s].path, list)]
          /\ to' = [to EXCEPT ![s] = Resolve(cmd[s].target, list)]
    BY <1>3, Zenon DEF Spaces
  <2>2. \A path : Resolve(<<>>, list) = NoRef /\ Resolve(path, <<>>) = NoRef
    BY DEF Resolve
  <2>3. /\ Resolve(cmd[s].path, list) \in Named(s) \cup {NoRef}
        /\ Resolve(cmd[s].target, list) \in Named(s) \cup {NoRef}
    <3>1. CASE cmd[s] = NoCommand \/ list = <<>>
      BY <2>2, <3>1 DEF NoCommand
    <3>2. CASE cmd[s] \in Commands[s] /\ list \in SpaceLists
      BY <3>2, CommandsAssumption DEF CommandsAssumption, Named
    <3> QED BY <1>1, <2>1, <3>1, <3>2
  <2> QED BY <1>1, <2>1, <2>3 DEF NamedHere
<1>4. CASE CallFails(s) \/ Stat(s) \/ List(s) \/ Create(s) \/ Touch(s) \/ Delete(s) \/ Move(s)
  BY <1>4 DEF CallFails, Stat, List, Create, Touch, Delete, Move, NamedHere
<1> QED BY <1>2, <1>3, <1>4 DEF Step

\* Only what a session named changes in its steps.
LEMMA ChangesHere ==
    ASSUME TypeOK, CallsInv, NEW s \in Sessions, NamedHere(s), Step(s),
           NEW x \in Refs, tree'[x] # tree[x]
    PROVE  \E r \in Named(s) : x \in Under(r)
<1>1. pc[s] \in {"create", "touch", "delete", "move"} /\ pc'[s] = "idle"
  <2>1. Create(s) \/ Touch(s) \/ Delete(s) \/ Move(s)
    BY DEF Step, Call, Spaces, CallFails, Stat, List
  <2>2. DOMAIN pc = Sessions
    BY DEF TypeOK
  <2> QED BY <2>1, <2>2 DEF Create, Touch, Delete, Move, Done, Answer
<1>2. x \in Changed(s)
  BY DEF Changed
<1>3. x \in Under(ref[s]) \/ (IsRename(Op(s)) /\ x \in Under(to[s]))
  BY <1>1, <1>2, ChangeStep DEF Next
<1>4. ref[s] \in Refs /\ (IsRename(Op(s)) => to[s] \in Refs)
  BY <1>1 DEF CallsInv, CallsHere
<1> QED BY <1>3, <1>4, RefFacts DEF NamedHere

\* What a session checked stays while others work elsewhere.
LEMMA CheckedElsewhere ==
    ASSUME NamesApart, TypeOK, CallsInv, ApartInv, NEW d \in Sessions, Step(d),
           NEW s \in Sessions \ {d}
    PROVE  CheckedHere(s)'
<1>1. UNCHANGED <<pc[s], cmd[s], ref[s], to[s]>> /\ Op(s)' = Op(s)
  BY OwnStep DEF Op
<1>2. ASSUME NEW r \in Refs \cap Named(s), NEW x \in Under(r) PROVE tree'[x] = tree[x]
  <2> SUFFICES ASSUME tree'[x] # tree[x] PROVE FALSE
    OBVIOUS
  <2>1. PICK p \in Named(d) : x \in Under(p)
    BY ChangesHere DEF ApartInv, Under
  <2> QED BY <1>2, <2>1 DEF NamesApart
<1>3. CASE pc[s] = "delete"
  <2>1. ref[s] \in Refs \cap Named(s)
    <3>1. ref[s] \in Refs
      BY <1>3 DEF CallsInv, CallsHere
    <3>2. ref[s] \in Named(s) \cup {NoRef}
      BY DEF ApartInv, NamedHere
    <3> QED BY <3>1, <3>2, RefFacts
  <2>2. tree'[ref[s]] = tree[ref[s]] /\ Entries(tree', ref[s]) = Entries(tree, ref[s])
    BY <1>2, <2>1, UnderFacts DEF Entries
  <2>3. MayDelete(s)
    BY DEF ApartInv, CheckedHere
  <2> QED BY <1>1, <1>3, <2>2, <2>3 DEF CheckedHere, MayDelete, MayMove
<1>4. CASE pc[s] = "move" /\ Op(s) = "rename"
  <2>1. to[s] \in Refs \cap Named(s)
    <3>1. to[s] \in Refs
      BY <1>4 DEF CallsInv, CallsHere, IsRename
    <3>2. to[s] \in Named(s) \cup {NoRef}
      BY DEF ApartInv, NamedHere
    <3> QED BY <3>1, <3>2, RefFacts
  <2>2. tree'[to[s]] = tree[to[s]]
    BY <1>2, <2>1, UnderFacts
  <2>3. MayMove(s)
    BY DEF ApartInv, CheckedHere
  <2> QED BY <1>1, <1>4, <2>2, <2>3 DEF CheckedHere, MayDelete, MayMove
<1> QED BY <1>1, <1>3, <1>4 DEF CheckedHere, MayDelete, MayMove

\* A command that goes on to delete has just looked.
LEMMA LookedToDelete ==
    ASSUME TypeOK, NEW s \in Sessions, CallsHere(s), Step(s)
    PROVE  MayDelete(s)'
<1>0. DOMAIN pc = Sessions
  BY DEF TypeOK
<1> SUFFICES ASSUME pc'[s] = "delete" PROVE MayDelete(s)'
  BY DEF MayDelete
<1>1. ~Call(s)
  BY <1>0 DEF Call
<1>2. ~(Create(s) \/ Touch(s) \/ Delete(s) \/ Move(s))
  BY <1>0 DEF Create, Touch, Delete, Move, Done, Answer
<1>3. ~CallFails(s)
  BY <1>0 DEF CallFails, Goto, Answer
<1>4. ~Spaces(s)
  <2> SUFFICES ASSUME Spaces(s) PROVE FALSE
    OBVIOUS
  <2>1. PICK list \in {spaces} \cup (IF "status" \in Faults THEN {<<>>} ELSE {}) :
          \/ Listed(s, {list[k].name : k \in DOMAIN list})
          \/ Answer(s, "notExist") \/ Answer(s, "error") \/ Answer(s, "opened")
          \/ /\ Op(s) # "open" /\ Goto(s, FirstCall[Op(s)])
             /\ Resolve(cmd[s].path, list) # NoRef
    BY Zenon DEF Spaces, IsFound
  <2>2. Op(s) # "open" /\ FirstCall[Op(s)] = "delete" /\ Resolve(cmd[s].path, list) # NoRef
    BY <1>0, <2>1 DEF Listed, Answer, Goto
  <2>3. cmd[s].path # <<>>
    BY <2>2 DEF Resolve
  <2>4. Op(s) \in Ops \ {"open"}
    BY <2>2, <2>3, CommandsAssumption DEF CommandsAssumption, TypeOK, NoCommand, Op
  <2> QED BY <2>2, <2>4 DEF FirstCall, Ops
<1>5. CASE Stat(s)
  <2>1. Op(s) = "remove" /\ tree[StatTarget(s)] = "file" /\ Op(s)' = Op(s)
        /\ UNCHANGED <<tree, ref>>
    BY <1>0, <1>5 DEF Stat, Answer, Goto, Op
  <2> QED BY <2>1 DEF MayDelete, StatTarget
<1>6. CASE List(s)
  <2>1. /\ Op(s) = "rmdir" /\ tree[ref[s]] = "dir" /\ Entries(tree, ref[s]) = {}
        /\ Op(s)' = Op(s) /\ UNCHANGED <<tree, ref>>
    BY <1>0, <1>6 DEF List, Answer, Listed, Goto, Op
  <2> QED BY <2>1 DEF MayDelete
<1> QED BY <1>1, <1>2, <1>3, <1>4, <1>5, <1>6 DEF Step

\* Likewise a rename that goes on to move, if its Stat cannot have failed.
LEMMA LookedToMove ==
    ASSUME TypeOK, NEW s \in Sessions, CallsHere(s), Step(s)
    PROVE  MayMove(s)'
<1>0. DOMAIN pc = Sessions
  BY DEF TypeOK
<1> SUFFICES ASSUME pc'[s] = "move", Op(s)' = "rename", "stat" \notin Faults
             PROVE  tree'[to'[s]] = "none"
  BY DEF MayMove
<1>1. ~Call(s)
  BY <1>0 DEF Call
<1>2. ~(List(s) \/ Create(s) \/ Touch(s) \/ Delete(s) \/ Move(s))
  BY <1>0 DEF List, Create, Touch, Delete, Move, Done, Answer, Listed, Goto
<1>3. ~CallFails(s)
  BY <1>0 DEF CallFails, Goto, Answer
<1>4. ~Spaces(s)
  <2> SUFFICES ASSUME Spaces(s) PROVE FALSE
    OBVIOUS
  <2>1. \/ pc' = [pc EXCEPT ![s] = "idle"]
        \/ pc' = [pc EXCEPT ![s] = FirstCall[Op(s)]]
    BY Zenon DEF Spaces, Listed, Answer, Goto
  <2>2. Op(s) = "rename"
    BY DEF Spaces, Op
  <2> QED BY <1>0, <2>1, <2>2 DEF FirstCall
<1>5. CASE Stat(s)
  <2>1. Op(s) = "rename" /\ UNCHANGED <<tree, to>>
    BY <1>5 DEF Stat, Op
  <2>2. tree[StatTarget(s)] = "none"
    BY <1>0, <1>5, <2>1 DEF Stat, Answer, Goto
  <2> QED BY <2>1, <2>2 DEF StatTarget
<1> QED BY <1>1, <1>2, <1>3, <1>4, <1>5 DEF Step

\* Every step keeps ApartInv; there are no steps of other clients.
LEMMA ApartStep ==
    ASSUME NamesApart
    PROVE  TypeOK /\ CallsInv /\ ApartInv /\ [Next]_vars => ApartInv'
<1> SUFFICES ASSUME TypeOK, CallsInv, ApartInv, [Next]_vars PROVE ApartInv'
  OBVIOUS
<1>1. ASSUME NEW s \in Sessions, Step(s) PROVE ApartInv'
  <2>1. NamedHere(s)' /\ CheckedHere(s)'
    BY <1>1, NamedStep, LookedToDelete, LookedToMove DEF ApartInv, CallsInv, CheckedHere
  <2>2. \A d \in Sessions \ {s} : NamedHere(d)' /\ CheckedHere(d)'
    <3>1. \A d \in Sessions \ {s} : CheckedHere(d)'
      BY <1>1, CheckedElsewhere
    <3>2. \A d \in Sessions \ {s} : UNCHANGED <<ref[d], to[d]>>
      BY <1>1, OwnStep
    <3> QED BY <3>1, <3>2 DEF ApartInv, NamedHere
  <2> QED BY <2>1, <2>2 DEF ApartInv
<1>2. ~Foreign
  BY DEF Foreign, ForeignCreate, ForeignDelete, ForeignSpaces, ByOthers, TypeOK, NamesApart
<1>3. CASE UNCHANGED vars
  BY <1>3 DEF vars, session, ApartInv, NamedHere, CheckedHere, MayDelete, MayMove, Op
<1> QED BY <1>1, <1>2, <1>3 DEF Next, Foreign

\* What sessions name is what they work on, and what they checked stays.
LEMMA ApartHolds == ASSUME NamesApart PROVE Spec => []ApartInv
<1>1. Init => ApartInv
  BY DEF Init, ApartInv, NamedHere, CheckedHere, MayDelete, MayMove
<1> QED BY <1>1, ApartStep, TypesHold, CallsHold, PTL DEF Spec

\* A rename replaces nothing where Move does not; and where Move does, if the
\* Stat before it answers and nobody else works on what it names. Each part is
\* needed then: vfs_rename shows what a Stat that fails lets happen.
THEOREM RenamesKeepTargets ==
    ASSUME TRUE \notin MoveReplaces \/ (NamesApart /\ "stat" \notin Faults)
    PROVE  Spec => RenameKeepsTarget
<1>1. ASSUME TypeOK, NamesApart /\ "stat" \notin Faults => ApartInv, [Next]_vars,
             NEW s \in Sessions, Op(s) = "rename", pc[s] = "move", pc'[s] = "idle"
      PROVE  tree' = tree \/ tree[to[s]] = "none"
  <2>1. Step(s)
    <3>1. pc'[s] # pc[s]
      BY <1>1
    <3> QED BY <1>1, <3>1, OwnStep
        DEF Next, ForeignCreate, ForeignDelete, ForeignSpaces, vars, session
  <2>2. CASE ~Move(s)
    BY <1>1, <2>1, <2>2 DEF Step, Call, Spaces, CallFails, Stat, List, Create, Touch, Delete
  <2>3. CASE Move(s) /\ TRUE \notin MoveReplaces
    BY <2>3 DEF Move
  <2>4. CASE NamesApart /\ "stat" \notin Faults
    BY <1>1, <2>4 DEF ApartInv, CheckedHere, MayMove
  <2> QED BY <2>2, <2>3, <2>4
<1>2. TypeOK /\ (NamesApart /\ "stat" \notin Faults => ApartInv) /\ [Next]_vars =>
        [\A s \in Sessions : Op(s) = "rename" /\ pc[s] = "move" /\ pc'[s] = "idle" =>
            tree' = tree \/ tree[to[s]] = "none"]_vars
  BY <1>1
<1>3. CASE NamesApart /\ "stat" \notin Faults
  <2>1. Spec => []ApartInv
    BY <1>3, ApartHolds
  <2>2. ApartInv => (NamesApart /\ "stat" \notin Faults => ApartInv)
    OBVIOUS
  <2> QED BY <1>2, <2>1, <2>2, TypesHold, PTL DEF Spec, RenameKeepsTarget
<1>4. CASE ~(NamesApart /\ "stat" \notin Faults)
  <2>1. NamesApart /\ "stat" \notin Faults => ApartInv
    BY <1>4
  <2>2. TypeOK /\ [Next]_vars =>
          [\A s \in Sessions : Op(s) = "rename" /\ pc[s] = "move" /\ pc'[s] = "idle" =>
              tree' = tree \/ tree[to[s]] = "none"]_vars
    BY <1>2, <2>1
  <2> QED BY <2>2, TypesHold, PTL DEF Spec, RenameKeepsTarget
<1> QED BY <1>3, <1>4

-----------------------------------------------------------------------------
(* Every step is one of the Namespace or changes nothing *)

\* The changes of a command, one by one.
LEMMA StepChanges ==
    ASSUME WorkApart, TypeOK, NEW s \in Sessions, CallsHere(s), CheckedHere(s), Step(s)
    PROVE  \/ UNCHANGED tree
           \/ /\ ref[s] \in Nodes /\ IsFree(tree, ref[s])
              /\ \E kind \in {"file", "dir"} : tree' = [tree EXCEPT ![ref[s]] = kind]
           \/ /\ ref[s] \in Nodes
              /\ tree[ref[s]] = "file" \/ (tree[ref[s]] = "dir" /\ Entries(tree, ref[s]) = {})
              /\ tree' = [tree EXCEPT ![ref[s]] = "none"]
           \/ /\ ref[s] \in Nodes /\ to[s] \in Nodes /\ ref[s][1] = to[s][1]
              /\ tree[ref[s]] # "none" /\ tree[to[s]] = "none" /\ CanMove(tree, ref[s], to[s])
              /\ tree' = Moved(tree, ref[s], to[s])
<1>1. CASE Call(s) \/ Spaces(s) \/ CallFails(s) \/ Stat(s) \/ List(s)
  BY <1>1 DEF Call, Spaces, CallFails, Stat, List
<1>2. CASE Create(s) \/ Touch(s)
  <2>1. ref[s] \in Refs
    BY <1>2 DEF Create, Touch, CallsHere
  <2>2. \/ UNCHANGED tree
        \/ IsFree(tree, ref[s]) /\ \E kind \in {"file", "dir"} : tree' = [tree EXCEPT ![ref[s]] = kind]
    BY <1>2 DEF Create, Touch, Done
  <2>3. IsFree(tree, ref[s]) => ref[s] \in Nodes
    BY <2>1, PutIsTree DEF TypeOK, Kinds
  <2> QED BY <2>2, <2>3
<1>3. CASE Delete(s)
  <2>1. /\ ref[s] \in Refs
        /\ tree[ref[s]] = "file" \/ (tree[ref[s]] = "dir" /\ Entries(tree, ref[s]) = {})
    BY <1>3 DEF Delete, CallsHere, CheckedHere, MayDelete
  <2>2. UNCHANGED tree \/ (~IsRoot(ref[s]) /\ tree' = Without(tree, ref[s]))
    BY <1>3 DEF Delete, Done
  <2>3. Without(tree, ref[s]) = [tree EXCEPT ![ref[s]] = "none"]
    BY <2>1, OnlyOneDeleted DEF TypeOK
  <2> QED BY <2>1, <2>2, <2>3 DEF Nodes
<1>4. CASE Move(s)
  <2>1. ref[s] \in Refs /\ to[s] \in Refs /\ ref[s][1] = to[s][1]
    BY <1>4 DEF Move, CallsHere, OpsOf, IsRename
  <2>2. \/ UNCHANGED tree
        \/ /\ tree[ref[s]] # "none" /\ CanBeMoved(s) /\ tree[to[s]] = "none"
           /\ tree' = Moved(tree, ref[s], to[s])
    <3>1. CASE TRUE \notin MoveReplaces
      BY <1>4, <3>1 DEF Move, Done
    <3>2. CASE "stat" \notin Faults /\ \A c \in Commands[s] : c.op # "posixRename"
      <4>1. Op(s) \in {"rename", "posixRename"} /\ cmd[s] \in Commands[s] \cup {NoCommand}
        BY <1>4 DEF Move, CallsHere, OpsOf, TypeOK
      <4>2. pc[s] = "move" /\ Op(s) = "rename"
        BY <1>4, <3>2, <4>1 DEF Move, Op, NoCommand
      <4>3. tree[to[s]] = "none"
        BY <3>2, <4>2 DEF CheckedHere, MayMove
      <4> QED BY <1>4, <4>3 DEF Move, Done
    <3> QED BY <3>1, <3>2 DEF WorkApart, TargetsChecked
  <2> QED BY <2>1, <2>2 DEF CanBeMoved, Nodes
<1> QED BY <1>1, <1>2, <1>3, <1>4 DEF Step

\* They are changes that the Namespace allows.
LEMMA NamespaceStep ==
    ASSUME WorkApart, TypeOK, CallsInv, ApartInv, [Next]_vars
    PROVE  [NS!Next]_tree
<1>1. CASE UNCHANGED vars
  BY <1>1 DEF vars
<1>2. ~Foreign
  BY DEF Foreign, ForeignCreate, ForeignDelete, ForeignSpaces, ByOthers, TypeOK, WorkApart,
         NamesApart
<1>3. ASSUME NEW s \in Sessions, Step(s) PROVE [NS!Next]_tree
  <2>1. Nodes = NS!Nodes
    BY DEF Nodes, IsRoot, NS!Nodes, NS!IsRoot
  <2>2. CASE /\ ref[s] \in Nodes /\ IsFree(tree, ref[s])
             /\ \E kind \in {"file", "dir"} : tree' = [tree EXCEPT ![ref[s]] = kind]
    <3>1. NS!Mkdir(ref[s]) \/ NS!Touch(ref[s])
      BY <2>2 DEF NS!Mkdir, NS!Touch, IsFree, Parent, NS!IsFree, NS!Parent
    <3> QED BY <2>1, <2>2, <3>1 DEF NS!Next
  <2>3. CASE /\ ref[s] \in Nodes
             /\ tree[ref[s]] = "file" \/ (tree[ref[s]] = "dir" /\ Entries(tree, ref[s]) = {})
             /\ tree' = [tree EXCEPT ![ref[s]] = "none"]
    <3>1. NS!Remove(ref[s]) \/ NS!Rmdir(ref[s])
      BY <2>3 DEF NS!Remove, NS!Rmdir, Entries, Under, NS!Entries, NS!Under
    <3> QED BY <2>1, <2>3, <3>1 DEF NS!Next
  <2>4. CASE /\ ref[s] \in Nodes /\ to[s] \in Nodes /\ ref[s][1] = to[s][1]
             /\ tree[ref[s]] # "none" /\ tree[to[s]] = "none" /\ CanMove(tree, ref[s], to[s])
             /\ tree' = Moved(tree, ref[s], to[s])
    <3>1. NS!CanMove(tree, ref[s], to[s])
      BY <2>4 DEF CanMove, Under, Parent, Rest, NS!CanMove, NS!Under, NS!Parent, NS!Rest
    <3>2. NS!Moved(tree, ref[s], to[s]) = Moved(tree, ref[s], to[s])
      BY DEF Moved, Under, Rest, NS!Moved, NS!Under, NS!Rest
    <3>3. NS!Rename(ref[s], to[s])
      BY <2>4, <3>1, <3>2 DEF NS!Rename
    <3> QED BY <2>1, <2>4, <3>3 DEF NS!Next
  <2> QED BY <1>3, <2>2, <2>3, <2>4, StepChanges DEF CallsInv, ApartInv
<1> QED BY <1>1, <1>2, <1>3 DEF Next, Foreign

\* What the Namespace promises are changes of trees: whatever is in the tree
\* stays in a directory, and the roots of the spaces stay.
THEOREM NamespaceKeepsTrees == IsTree(tree) /\ NS!Spec => []IsTree(tree)
<1>1. IsTree(tree) /\ [NS!Next]_tree => IsTree(tree)'
  <2> SUFFICES ASSUME IsTree(tree), [NS!Next]_tree PROVE IsTree(tree')
    OBVIOUS
  <2>1. NS!Nodes = Nodes /\ \A r \in Nodes : r \in Refs
    BY DEF Nodes, IsRoot, NS!Nodes, NS!IsRoot
  <2>2. ASSUME NEW r \in Nodes, NS!Mkdir(r) \/ NS!Touch(r) PROVE IsTree(tree')
    <3>1. IsFree(tree, r) /\ \E kind \in Kinds : tree' = [tree EXCEPT ![r] = kind]
      BY <2>2 DEF NS!Mkdir, NS!Touch, NS!IsFree, NS!Parent, IsFree, Parent, Kinds
    <3>2. r \in Refs
      BY <2>1
    <3>3. PICK kind \in Kinds : tree' = [tree EXCEPT ![r] = kind]
      BY <3>1
    <3>4. IsTree([tree EXCEPT ![r] = kind])
      BY <3>1, <3>2, PutIsTree
    <3> QED BY <3>3, <3>4, Zenon
  <2>3. ASSUME NEW r \in Nodes, NS!Remove(r) \/ NS!Rmdir(r) PROVE IsTree(tree')
    <3>1. /\ tree[r] = "file" \/ Entries(tree, r) = {}
          /\ tree' = [tree EXCEPT ![r] = "none"]
      BY <2>3 DEF NS!Remove, NS!Rmdir, NS!Entries, NS!Under, Entries, Under
    <3>2. tree' = Without(tree, r)
      BY <2>1, <3>1, OnlyOneDeleted
    <3> QED BY <3>2, WithoutIsTree
  <2>4. ASSUME NEW p \in Nodes, NEW q \in Nodes, NS!Rename(p, q) PROVE IsTree(tree')
    <3>1. CanMove(tree, p, q)
      BY <2>4 DEF NS!Rename, CanMove, Under, Parent, Rest, NS!CanMove, NS!Under, NS!Parent, NS!Rest
    <3>2. tree' = Moved(tree, p, q)
      BY <2>4 DEF NS!Rename, Moved, Under, Rest, NS!Moved, NS!Under, NS!Rest
    <3> QED BY <3>1, <3>2, MovedIsTree
  <2> QED BY <2>1, <2>2, <2>3, <2>4 DEF NS!Next
<1> QED BY <1>1, PTL DEF NS!Spec

\* When sessions work on names of their own, their commands change the tree
\* as SFTP promises, however their calls interleave and whichever fail, except
\* the Stat of rename where Move replaces: remove takes files, rmdir empty
\* directories, rename replaces nothing.
THEOREM CommandsImplementNamespace ==
    ASSUME WorkApart
    PROVE  Spec => ImplementsNamespace
<1>2. Spec => []ApartInv
  BY ApartHolds DEF WorkApart
<1>3. Init => tree \in [Refs -> NS!Kinds]
  BY TypeInit DEF TypeOK, IsTree, Kinds, NS!Kinds
<1>4. TypeOK /\ CallsInv /\ ApartInv /\ [Next]_vars => [NS!Next]_tree
  BY NamespaceStep
<1> QED BY <1>2, <1>3, <1>4, TypesHold, CallsHold, PTL DEF Spec, ImplementsNamespace, NS!Spec

=============================================================================
