------------------------------- MODULE Lookup -------------------------------
(***************************************************************************)
(* What the paths of SFTP name: the first element is the name of a space,  *)
(* and the others lead down from its root.                                 *)
(***************************************************************************)
EXTENDS Integers, Sequences

NoRef == <<>>

\* FindSpaceForPath on a clean absolute path, which is a sequence of names:
\* the first space of that name, and the rest of the path in it.
Resolve(path, list) ==
    LET hits == {k \in DOMAIN list : path # <<>> /\ list[k].name = path[1]}
    IN  IF hits = {} THEN NoRef
        ELSE <<list[CHOOSE k \in hits : \A j \in hits : k <= j].id>> \o Tail(path)

=============================================================================
