------------------------------- MODULE Trees --------------------------------
(***************************************************************************)
(* Trees of files and directories in the spaces of OpenCloud.  A node is   *)
(* named by a reference: the id of its space followed by the names on the  *)
(* way down.  A tree tells what each reference names.                      *)
(***************************************************************************)
EXTENDS Integers, Sequences

CONSTANT Refs   \* the references there are, with the roots of the spaces

PathNames == UNION {{r[i] : i \in DOMAIN r} : r \in Refs}

Kinds == {"none", "file", "dir"}

IsRoot(r)  == Len(r) = 1
Nodes      == {r \in Refs : ~IsRoot(r)}
Parent(r)  == SubSeq(r, 1, Len(r) - 1)
Under(r)   == {x \in Refs : Len(r) <= Len(x) /\ SubSeq(x, 1, Len(r)) = r}
Rest(r, x) == SubSeq(x, Len(r) + 1, Len(x))

ASSUME TreesAssumption ==
    /\ Refs \subseteq Seq(PathNames)
    /\ \A r \in Refs : r # <<>> /\ \A n \in 1 .. Len(r) : SubSeq(r, 1, n) \in Refs

\* The roots of the spaces are directories, and only directories have anything
\* below them.
IsTree(t) ==
    /\ t \in [Refs -> Kinds]
    /\ \A r \in Refs : IsRoot(r) => t[r] = "dir"
    /\ \A r \in Refs : \A x \in Under(r) \ {r} : t[x] # "none" => t[r] = "dir"

Entries(tree, r) == {x \in Under(r) : Len(x) = Len(r) + 1 /\ tree[x] # "none"}
Names(tree, r)   == {x[Len(x)] : x \in Entries(tree, r)}

\* Something can be put there.
IsFree(tree, r) == tree[r] = "none" /\ tree[Parent(r)] = "dir"

Without(tree, r) == [x \in Refs |-> IF x \in Under(r) THEN "none" ELSE tree[x]]

\* Everything under p is found under q instead.
Moved(tree, p, q) ==
    [x \in Refs |->
        IF x \in Under(q)
        THEN IF p \o Rest(q, x) \in Refs THEN tree[p \o Rest(q, x)] ELSE "none"
        ELSE IF x \in Under(p) THEN "none" ELSE tree[x]]

\* There is a directory to move p into, outside of p, and room below it.
CanMove(tree, p, q) ==
    /\ q \notin Under(p) /\ p \notin Under(q) /\ tree[Parent(q)] = "dir"
    /\ \A x \in Under(p) : tree[x] # "none" => q \o Rest(p, x) \in Refs

=============================================================================
