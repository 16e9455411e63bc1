------------------------------ MODULE Listing -------------------------------
(***************************************************************************)
(* Reading a directory in pages (pkg/vfs/sftp.go, listerat; pkg/vfs/cs3.go,*)
(* list).                                                                  *)
(*                                                                         *)
(* Opening a directory lists it once.  Each read of the client asks the    *)
(* list for a page that begins where the last one ended, and the first     *)
(* page without a name ends the directory.  Meanwhile others change it.    *)
(***************************************************************************)
EXTENDS Integers, Sequences, FiniteSets

CONSTANTS
    Files,          \* names
    Handles,        \* directory handles of a session
    MaxFilelist,    \* names in a page
    MaxChanges      \* bound: changes by other clients

ASSUME ListingAssumption ==
    IsFiniteSet(Files) /\ MaxFilelist \in Nat \ {0} /\ MaxChanges \in Nat

VARIABLES
    dir,        \* what is in the directory
    list,       \* the list of each handle
    offset,     \* how much of it the request server has read
    state,      \* "closed", "open", or "end" when the client was told so
    got,        \* the names that the client has received
    there,      \* history: what was in the directory when it was listed
    changes

vars == <<dir, list, offset, state, got, there, changes>>

\* The gateway lists a directory in any order.
Orders(S) == {s \in [1 .. Cardinality(S) -> S] : {s[i] : i \in DOMAIN s} = S}

Init ==
    /\ dir \in SUBSET Files
    /\ list = [h \in Handles |-> <<>>] /\ offset = [h \in Handles |-> 0]
    /\ state = [h \in Handles |-> "closed"]
    /\ got = [h \in Handles |-> <<>>] /\ there = [h \in Handles |-> {}]
    /\ changes = 0

\* Filelist: one ListContainer, and a list of one file info for each entry.
Opendir(h) ==
    /\ state[h] = "closed"
    /\ \E order \in Orders(dir) : list' = [list EXCEPT ![h] = order]
    /\ state' = [state EXCEPT ![h] = "open"]
    /\ offset' = [offset EXCEPT ![h] = 0]
    /\ got' = [got EXCEPT ![h] = <<>>]
    /\ there' = [there EXCEPT ![h] = dir]
    /\ UNCHANGED <<dir, changes>>

Smaller(a, b) == IF a <= b THEN a ELSE b

\* The page of f behind offset with room for size names, and whether that is
\* all.  Mutants: a page that does not fill up is taken for the end; behind the
\* end there is a page of nothing.
ListAtLoses(f, size, start) ==
    IF start + size > Len(f) THEN [names |-> <<>>, eof |-> TRUE]
    ELSE [names |-> SubSeq(f, start + 1, start + size), eof |-> FALSE]

ListAtStalls(f, size, start) ==
    LET end == Smaller(start + size, Len(f))
    IN  [names |-> SubSeq(f, start + 1, end), eof |-> start < Len(f) /\ end - start < size]

ListAt(f, size, start) ==
    IF start >= Len(f) THEN [names |-> <<>>, eof |-> TRUE]
    ELSE LET end == Smaller(start + size, Len(f))
         IN  [names |-> SubSeq(f, start + 1, end), eof |-> end - start < size]

\* The request server sends a page that has names, end of file or not.
Readdir(h) ==
    /\ state[h] = "open"
    /\ LET page == ListAt(list[h], MaxFilelist, offset[h]) IN
       IF page.eof /\ page.names = <<>>
       THEN /\ state' = [state EXCEPT ![h] = "end"]
            /\ UNCHANGED <<offset, got>>
       ELSE /\ offset' = [offset EXCEPT ![h] = @ + Len(page.names)]
            /\ got' = [got EXCEPT ![h] = @ \o page.names]
            /\ UNCHANGED state
    /\ UNCHANGED <<dir, list, there, changes>>

Close(h) ==
    /\ state[h] # "closed"
    /\ state' = [state EXCEPT ![h] = "closed"]
    /\ UNCHANGED <<dir, list, offset, got, there, changes>>

Change ==
    /\ changes < MaxChanges /\ changes' = changes + 1
    /\ \E n \in Files : dir' = IF n \in dir THEN dir \ {n} ELSE dir \cup {n}
    /\ UNCHANGED <<list, offset, state, got, there>>

Next ==
    \/ \E h \in Handles : Opendir(h) \/ Readdir(h) \/ Close(h)
    \/ Change

Spec == Init /\ [][Next]_vars

\* The client reads on.
FairSpec == Spec /\ \A h \in Handles : WF_vars(Readdir(h))

-----------------------------------------------------------------------------
(* What reading a directory has to keep *)

Received(h) == {got[h][i] : i \in DOMAIN got[h]}

\* Whoever reads a directory to its end has received what was in it at one
\* moment, every name exactly once, wherever the pages were cut and whatever
\* changed between them (ListAt, sftp.go:146-156).
EndIsWhole ==
    \A h \in Handles : state[h] = "end" =>
        Received(h) = there[h] /\ Len(got[h]) = Cardinality(there[h])

\* A client that reads on gets to the end, though ListAt may say EOF with the
\* last names, which the request server does not pass on, and has to say it again
\* behind them (sftp.go:147-155).
ReadingEnds == \A h \in Handles : state[h] = "open" ~> state[h] # "open"

=============================================================================
