--------------------------- MODULE Listing_proofs ---------------------------
(***************************************************************************)
(* Whoever reads a directory to its end has received all of it, for every  *)
(* size of pages and any number of entries and handles.                    *)
(***************************************************************************)
EXTENDS Listing, FiniteSetTheorems, SequenceTheorems, TLAPS

\* A handle has received the part of its list that was read, and its list is
\* what was there.
HandleInv(h) ==
    /\ there[h] \subseteq Files /\ IsFiniteSet(there[h])
    /\ list[h] \in Seq(Files) /\ Len(list[h]) = Cardinality(there[h])
    /\ {list[h][i] : i \in DOMAIN list[h]} = there[h]
    /\ offset[h] \in 0 .. Len(list[h])
    /\ state[h] = "end" => offset[h] = Len(list[h])
    /\ state[h] # "closed" => got[h] = SubSeq(list[h], 1, offset[h])

ListingInv ==
    /\ dir \subseteq Files
    /\ DOMAIN list = Handles /\ DOMAIN offset = Handles /\ DOMAIN state = Handles
    /\ DOMAIN got = Handles /\ DOMAIN there = Handles
    /\ \A h \in Handles : HandleInv(h)

\* A listing is a sequence with every entry.
LEMMA OrdersFacts ==
    ASSUME NEW S \in SUBSET Files, NEW s \in Orders(S)
    PROVE  /\ IsFiniteSet(S) /\ s \in Seq(Files) /\ Len(s) = Cardinality(S)
           /\ {s[i] : i \in DOMAIN s} = S
<1>1. IsFiniteSet(S) /\ Cardinality(S) \in Nat
  BY ListingAssumption, FS_Subset, FS_CardinalityType DEF ListingAssumption
<1>2. s \in [1 .. Cardinality(S) -> S] /\ {s[i] : i \in DOMAIN s} = S
  BY DEF Orders
<1>3. s \in Seq(S) /\ Len(s) = Cardinality(S)
  BY <1>1, <1>2, IsASeq, LenProperties
<1> QED BY <1>1, <1>2, <1>3, SeqMonotonic

\* The page is the part of f from start to end; none of it only at the end.
IsPart(page, f, start, end) ==
    /\ page.names = SubSeq(f, start + 1, end) /\ Len(page.names) = end - start
    /\ page.names = <<>> => start = Len(f) /\ page.eof

\* ListAt returns the part behind the offset.
LEMMA ListAtFacts ==
    ASSUME NEW f \in Seq(Files), NEW start \in 0 .. Len(f)
    PROVE  \E end \in start .. Len(f) : IsPart(ListAt(f, MaxFilelist, start), f, start, end)
<1> SUFFICES ASSUME NEW page, page = ListAt(f, MaxFilelist, start)
             PROVE  \E end \in start .. Len(f) : IsPart(page, f, start, end)
  OBVIOUS
<1>1. Len(f) \in Nat /\ MaxFilelist \in Nat \ {0}
  BY LenProperties, ListingAssumption DEF ListingAssumption
<1>2. CASE start >= Len(f)
  <2>1. page.names = <<>> /\ start = Len(f) /\ page.eof
    BY <1>1, <1>2 DEF ListAt
  <2>2. SubSeq(f, start + 1, start) = <<>>
    BY <1>1, SubSeqEmpty
  <2> QED BY <1>1, <2>1, <2>2 DEF IsPart
<1>3. CASE start < Len(f)
  <2> DEFINE last == Smaller(start + MaxFilelist, Len(f))
  <2>1. last \in start + 1 .. Len(f)
    BY <1>1, <1>3 DEF Smaller
  <2>2. page.names = SubSeq(f, start + 1, last)
    <3> DEFINE all == last - start < MaxFilelist
               part == SubSeq(f, start + 1, last)
    <3>1. page = [names |-> part, eof |-> all]
      <4>1. ~(start >= Len(f))
        BY <1>1, <1>3
      <4> QED BY <4>1, Zenon DEF ListAt
    <3> HIDE DEF all, part
    <3>2. page.names = part
      BY <3>1
    <3> QED BY <3>2 DEF part
  <2> HIDE DEF last
  <2>3. Len(SubSeq(f, start + 1, last)) = last - start
    BY <1>1, <2>1, SubSeqProperties
  <2>4. Len(page.names) = last - start /\ page.names # <<>> /\ last \in start .. Len(f)
    BY <1>1, <2>1, <2>2, <2>3
  <2> QED BY <2>2, <2>4 DEF IsPart
<1> QED BY <1>1, <1>2, <1>3

\* Every step keeps ListingInv.
LEMMA ListingStep == ListingInv /\ [Next]_vars => ListingInv'
<1> SUFFICES ASSUME ListingInv, [Next]_vars PROVE ListingInv'
  OBVIOUS
<1>1. CASE UNCHANGED vars
  BY <1>1 DEF vars, ListingInv, HandleInv
<1>2. CASE Change
  BY <1>2 DEF Change, ListingInv, HandleInv
<1>3. ASSUME NEW h \in Handles, Opendir(h) PROVE ListingInv'
  <2>1. PICK order \in Orders(dir) : list' = [list EXCEPT ![h] = order]
    BY <1>3 DEF Opendir
  <2>2. /\ IsFiniteSet(dir) /\ order \in Seq(Files) /\ Len(order) = Cardinality(dir)
        /\ {order[i] : i \in DOMAIN order} = dir /\ Len(order) \in Nat
    BY OrdersFacts, LenProperties DEF ListingInv
  <2>3. SubSeq(order, 1, 0) = <<>>
    BY <2>2, SubSeqEmpty
  <2>4. HandleInv(h)'
    BY <1>3, <2>1, <2>2, <2>3 DEF Opendir, ListingInv, HandleInv
  <2> QED BY <1>3, <2>1, <2>4 DEF Opendir, ListingInv, HandleInv
<1>4. ASSUME NEW h \in Handles, Readdir(h) PROVE ListingInv'
  <2> DEFINE page == ListAt(list[h], MaxFilelist, offset[h])
  <2>1. /\ list[h] \in Seq(Files) /\ offset[h] \in 0 .. Len(list[h])
        /\ got[h] = SubSeq(list[h], 1, offset[h]) /\ Len(list[h]) \in Nat
    BY <1>4, LenProperties DEF Readdir, ListingInv, HandleInv
  <2>2. PICK end \in offset[h] .. Len(list[h]) :
           /\ page.names = SubSeq(list[h], offset[h] + 1, end)
           /\ Len(page.names) = end - offset[h]
           /\ page.names = <<>> => offset[h] = Len(list[h]) /\ page.eof
    <3>1. \E end \in offset[h] .. Len(list[h]) : IsPart(page, list[h], offset[h], end)
      BY <2>1, ListAtFacts
    <3> HIDE DEF page
    <3> QED BY <3>1 DEF IsPart
  <2> HIDE DEF page
  <2>3. CASE page.eof /\ page.names = <<>>
    <3>1. state' = [state EXCEPT ![h] = "end"] /\ UNCHANGED <<dir, list, offset, got, there>>
      BY <1>4, <2>3 DEF Readdir, page
    <3>2. state'[h] = "end" /\ \A g \in Handles \ {h} : state'[g] = state[g]
      BY <3>1 DEF ListingInv
    <3>3. HandleInv(h)'
      BY <1>4, <2>2, <2>3, <3>1, <3>2 DEF Readdir, ListingInv, HandleInv
    <3>4. ASSUME NEW g \in Handles \ {h} PROVE HandleInv(g)'
      BY <3>1, <3>2 DEF ListingInv, HandleInv
    <3> QED BY <3>1, <3>3, <3>4 DEF ListingInv
  <2>4. CASE ~(page.eof /\ page.names = <<>>)
    <3>1. /\ offset' = [offset EXCEPT ![h] = @ + Len(page.names)]
          /\ got' = [got EXCEPT ![h] = @ \o page.names]
          /\ UNCHANGED <<dir, list, state, there>>
      BY <1>4, <2>4 DEF Readdir, page
    <3>2. got[h] \o page.names = SubSeq(list[h], 1, end)
      <4>1. /\ 1 \in 1 .. Len(list[h]) + 1 /\ offset[h] \in 1 - 1 .. Len(list[h])
            /\ end \in offset[h] .. Len(list[h])
        BY <2>1, <2>2
      <4>2. SubSeq(list[h], 1, offset[h]) \o SubSeq(list[h], offset[h] + 1, end)
               = SubSeq(list[h], 1, end)
        BY <2>1, <4>1, ConcatAdjacentSubSeq
      <4> QED BY <2>1, <2>2, <4>2
    <3>3. offset'[h] = end /\ got'[h] = SubSeq(list[h], 1, end)
      <4>1. offset'[h] = offset[h] + Len(page.names) /\ got'[h] = got[h] \o page.names
        BY <3>1 DEF ListingInv
      <4> QED BY <2>1, <2>2, <3>2, <4>1
    <3>4. HandleInv(h)'
      <4>1. state[h] = "open" /\ HandleInv(h) /\ UNCHANGED <<list[h], state[h], there[h]>>
        BY <1>4, <3>1 DEF Readdir, ListingInv
      <4>2. end \in 0 .. Len(list[h])
        BY <2>1, <2>2
      <4> QED BY <3>3, <4>1, <4>2 DEF HandleInv
    <3> QED BY <3>1, <3>4 DEF ListingInv, HandleInv
  <2> QED BY <2>3, <2>4
<1>5. ASSUME NEW h \in Handles, Close(h) PROVE ListingInv'
  BY <1>5 DEF Close, ListingInv, HandleInv
<1> QED BY <1>1, <1>2, <1>3, <1>4, <1>5 DEF Next

\* The invariant holds throughout.
LEMMA ListingHolds == Spec => []ListingInv
<1>1. Init => ListingInv
  <2> SUFFICES ASSUME Init PROVE ListingInv
    OBVIOUS
  <2>1. IsFiniteSet({}) /\ Cardinality({}) = 0 /\ <<>> \in Seq(Files) /\ Len(<<>>) = 0
    BY FS_EmptySet, EmptySeq
  <2> QED BY <2>1 DEF Init, ListingInv, HandleInv
<1> QED BY <1>1, ListingStep, PTL DEF Spec

\* Who is told the end has received every entry of one moment, each once.
THEOREM DirectoriesAreWhole == Spec => []EndIsWhole
<1>1. ListingInv => EndIsWhole
  <2> SUFFICES ASSUME ListingInv, NEW h \in Handles, state[h] = "end"
               PROVE  Received(h) = there[h] /\ Len(got[h]) = Cardinality(there[h])
    BY DEF EndIsWhole
  <2>1. /\ list[h] \in Seq(Files) /\ got[h] = SubSeq(list[h], 1, Len(list[h]))
        /\ Len(list[h]) = Cardinality(there[h])
        /\ {list[h][i] : i \in DOMAIN list[h]} = there[h]
    BY DEF ListingInv, HandleInv
  <2>2. got[h] = list[h]
    BY <2>1, SubSeqFull
  <2> QED BY <2>1, <2>2 DEF Received
<1> QED BY <1>1, ListingHolds, PTL

\* The page that the client gets next has names, or is the end of the list.
PageGoesOn(h) ==
    LET page == ListAt(list[h], MaxFilelist, offset[h])
    IN  IF page.names = <<>>
        THEN page.eof /\ offset[h] = Cardinality(there[h])
        ELSE Len(page.names) >= 1 /\ offset[h] + Len(page.names) <= Cardinality(there[h])

\* Every page brings names that the client does not have until it has them all,
\* and then the end: what is left of ReadingEnds is that the client reads on.
THEOREM PagesGoOn ==
    Spec => [](\A h \in Handles : state[h] = "open" => PageGoesOn(h))
<1> DEFINE page(h) == ListAt(list[h], MaxFilelist, offset[h])
<1>1. ASSUME ListingInv, NEW h \in Handles PROVE PageGoesOn(h)
  <2>1. /\ list[h] \in Seq(Files) /\ offset[h] \in 0 .. Len(list[h])
        /\ Len(list[h]) \in Nat /\ Len(list[h]) = Cardinality(there[h])
    BY <1>1, LenProperties DEF ListingInv, HandleInv
  <2>2. PICK end \in offset[h] .. Len(list[h]) :
           /\ page(h).names = SubSeq(list[h], offset[h] + 1, end)
           /\ Len(page(h).names) = end - offset[h]
           /\ page(h).names = <<>> => offset[h] = Len(list[h]) /\ page(h).eof
    <3>1. \E end \in offset[h] .. Len(list[h]) : IsPart(page(h), list[h], offset[h], end)
      BY <2>1, ListAtFacts
    <3> HIDE DEF page
    <3> QED BY <3>1 DEF IsPart
  <2> HIDE DEF page
  <2>3. page(h).names # <<>> => end # offset[h]
    <3>1. end = offset[h] => SubSeq(list[h], offset[h] + 1, end) = <<>>
      BY <2>1, SubSeqEmpty
    <3> QED BY <2>2, <3>1, Zenon
  <2> QED BY <2>1, <2>2, <2>3 DEF page, PageGoesOn
<1>2. ListingInv => \A h \in Handles : state[h] = "open" => PageGoesOn(h)
  BY <1>1
<1> QED BY <1>2, ListingHolds, PTL

=============================================================================
