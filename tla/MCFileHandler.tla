--------------------------- MODULE MCFileHandler ---------------------------
(***************************************************************************)
(* Values for model checking FileHandler.  Chunks hold one byte that tells *)
(* the writes apart, or two; foreign contents are shorter and longer than  *)
(* what the handle writes.                                                 *)
(***************************************************************************)
EXTENDS FileHandler

CONSTANTS w1, w2, x, y, o

MCBytes   == {0, x, y, o}
MCChunks  == {<<x>>, <<y, y>>}
MCShort   == {<<x>>}
MCPair    == {<<x, y>>}
MCStart   == {<<>>, <<o, o>>}
MCAny     == {<<o, o>>}
MCForeign == {<<o>>}

ReadWrite == {"read", "write", "creat"}
ReadOnly  == {"read"}
Create    == {"read", "write", "creat", "trunc"}
WriteOnly == {"write"}

Workers1 == {w1}
Workers2 == {w1, w2}

MCFlagsAny   == {Create, WriteOnly}
MCFlags      == {ReadWrite, ReadOnly}
MCFlagsRW    == {ReadWrite}
MCFlagsWrite == {WriteOnly}

MCUploadFaults == {"initiate", "refuse", "timeout"}
MCStatFault    == {"stat"}
=============================================================================
