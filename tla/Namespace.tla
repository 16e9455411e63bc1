----------------------------- MODULE Namespace ------------------------------
(***************************************************************************)
(* What the path commands of SFTP promise, as changes of the tree that     *)
(* happen at once (the SFTP-v2 and IEEE 1003.1 rules that the comments of  *)
(* pkg/vfs/sftp.go and pkg/vfs/cs3.go quote): remove takes files only,     *)
(* rmdir empty directories only, and rename never replaces anything and    *)
(* stays in one space.                                                     *)
(***************************************************************************)
EXTENDS Trees

VARIABLE tree

Mkdir(r) == IsFree(tree, r) /\ tree' = [tree EXCEPT ![r] = "dir"]

Touch(r) == IsFree(tree, r) /\ tree' = [tree EXCEPT ![r] = "file"]

Remove(r) == tree[r] = "file" /\ tree' = [tree EXCEPT ![r] = "none"]

Rmdir(r) ==
    /\ tree[r] = "dir" /\ Entries(tree, r) = {}
    /\ tree' = [tree EXCEPT ![r] = "none"]

Rename(p, q) ==
    /\ p[1] = q[1] /\ tree[p] # "none" /\ tree[q] = "none" /\ CanMove(tree, p, q)
    /\ tree' = Moved(tree, p, q)

Next ==
    \/ \E r \in Nodes : Mkdir(r) \/ Touch(r) \/ Remove(r) \/ Rmdir(r)
    \/ \E p, q \in Nodes : Rename(p, q)

Spec == tree \in [Refs -> Kinds] /\ [][Next]_tree

=============================================================================
