------------------------------ MODULE MCLogins ------------------------------
(***************************************************************************)
(* Values for model checking Logins: two users with a connection each, two *)
(* keys, and names of key files and of another file.                       *)
(***************************************************************************)
EXTENDS Logins

CONSTANTS u1, u2, c1, c2, k1, k2, first, second, other

TwoUsers       == {u1, u2}
TwoConnections == {c1, c2}
TheirUsers     == [c \in Connections |-> IF c = c1 THEN u1 ELSE u2]

Offers == [c \in Connections |-> IF c = c1 THEN 2 ELSE 1]

ThreeNames == {first, second, other}
TwoPubs    == {first, second}
TwoKeys    == {k1, k2}
MCLists    == {<<>>, <<k1>>, <<k2, k1>>}

Home(files) == [spaces |-> 1, folder |-> TRUE, files |-> files]
MCHomes     == {Home([n \in Names |-> IF n = first THEN File(<<k1>>) ELSE File(<<k2, k1>>)])}

AllFaults == Labels
=============================================================================
