------------------------------ MODULE Overlays ------------------------------
(***************************************************************************)
(* File contents and the writes laid over them.  A write is a record with  *)
(* an offset off and a sequence data; a content is a sequence of bytes,    *)
(* byte i of a file being element i + 1.                                   *)
(***************************************************************************)
EXTENDS Integers, Sequences

CONSTANTS Bytes, Zero

End(e)  == e.off + Len(e.data)
Span(e) == (e.off + 1) .. End(e)

\* Byte i of c, where a grown slice is filled with zeroes.
ByteAt(c, i) == IF i <= Len(c) THEN c[i] ELSE Zero

Longer(m, n) == IF m < n THEN n ELSE m

\* Mutants of Overwrite: a cache that grows is not copied; the gap before the
\* write is not cleared.
OverwriteWithoutCopy(c, e) ==
    [i \in 1 .. Longer(Len(c), End(e)) |->
        IF i \in Span(e) THEN e.data[i - e.off]
        ELSE IF Len(c) < End(e) THEN Zero ELSE c[i]]
OverwriteUncleared(c, e) ==
    [i \in 1 .. Longer(Len(c), End(e)) |->
        IF i \in Span(e) THEN e.data[i - e.off]
        ELSE IF i <= Len(c) THEN c[i] ELSE -1]

\* The cache after WriteAt grew it if necessary and copied e.data at e.off.
Overwrite(c, e) ==
    [i \in 1 .. Longer(Len(c), End(e)) |->
        IF i \in Span(e) THEN e.data[i - e.off] ELSE ByteAt(c, i)]

\* The bytes of e are in d.
Holds(d, e) == End(e) <= Len(d) /\ \A i \in Span(e) : d[i] = e.data[i - e.off]

\* d is c with nothing changed but by writes of S: a byte is the one of c or
\* one that a write put there, and only writes lengthen the file.
IsOverlay(d, c, S) ==
    /\ \A i \in 1 .. Len(d) :
          \/ d[i] = ByteAt(c, i)
          \/ \E e \in S : i \in Span(e) /\ d[i] = e.data[i - e.off]
    /\ Len(c) <= Len(d)
    /\ Len(d) = Len(c) \/ \E e \in S : Len(d) = End(e)

=============================================================================
