----------------------------- MODULE SpaceFile ------------------------------
(***************************************************************************)
(* What an open handle promises about the file of the space: the file only *)
(* ever changes by uploads of other clients, or by writes of this handle   *)
(* laid over the content the file has at that moment.  A write that was    *)
(* given up (its upload failed and the cache was downloaded again) does    *)
(* not come back.                                                          *)
(*                                                                         *)
(* FileHandler implements this when the gateway hands out ETags and the    *)
(* file is there when the handle downloads it.                             *)
(***************************************************************************)
EXTENDS Overlays

VARIABLES
    versions,   \* every content the file has had, with its author
    current,    \* the version the path has now, 0 when there is no file
    pending     \* the writes asked for that may still reach the file

fileVars == <<versions, current, pending>>

Content(v) == IF v = 0 THEN <<>> ELSE versions[v].data
Newest == versions[Len(versions)]

Init == current = Len(versions) /\ pending = {}

\* The path gets a new version from the given author.
Appended(by) ==
    /\ Len(versions') = Len(versions) + 1
    /\ \A v \in DOMAIN versions : versions'[v] = versions[v]
    /\ Newest'.by = by
    /\ current' = Len(versions')

\* The client asks for a write.
Ask ==
    /\ \E e \in pending' : pending' = pending \cup {e}
    /\ UNCHANGED <<versions, current>>

\* Writes are given up.
Forget == pending' \subseteq pending /\ UNCHANGED <<versions, current>>

\* Some of the pending writes reach the file.
Land ==
    /\ Appended("handle")
    /\ \E S \in SUBSET pending : IsOverlay(Newest'.data, Content(current), S)
    /\ pending' \subseteq pending

\* Another client replaces or deletes the file.
Foreign ==
    /\ Appended("other") \/ (current' = 0 /\ UNCHANGED versions)
    /\ UNCHANGED pending

\* Opening the file creates it if it is not there.
Create ==
    /\ current = 0 /\ Appended("touch") /\ Newest'.data = <<>>
    /\ pending' \subseteq pending

Next == Ask \/ Forget \/ Land \/ Foreign \/ Create

Spec == Init /\ [][Next]_fileVars

=============================================================================
