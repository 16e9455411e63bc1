---------------------------- MODULE MCSpacePaths ----------------------------
(***************************************************************************)
(* Values for model checking SpacePaths: spaces whose names begin with one *)
(* another, a name twice, a name with a slash, and none.                   *)
(***************************************************************************)
EXTENDS SpacePaths

CONSTANTS a, id1, id2

MCIds == {id1, id2}

Space(id, name) == [id |-> id, name |-> name]
MCLists == {<<>>,
            <<Space(id1, <<a>>), Space(id2, <<a, a>>)>>,
            <<Space(id2, <<a>>), Space(id1, <<a>>)>>,
            <<Space(id1, <<a, Dot>>), Space(id2, <<Dot, a>>), Space(id2, <<a, Slash, a>>)>>}
=============================================================================
