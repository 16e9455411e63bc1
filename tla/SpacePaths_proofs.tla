------------------------- MODULE SpacePaths_proofs --------------------------
(***************************************************************************)
(* Theorems about SpacePaths, for any letters, paths of any length, and    *)
(* any lists of spaces.                                                    *)
(*                                                                         *)
(* What a loop over a sequence computes is proved by induction over the    *)
(* sequence.  The induction is over sets: a set that has <<>>, and with a  *)
(* sequence all that are longer by one, has all sequences.  It rests on    *)
(* the least element that every non-empty set of naturals has.             *)
(***************************************************************************)
EXTENDS SpacePaths, SequenceTheorems, WellFoundedInduction, TLAPS

-----------------------------------------------------------------------------
(* Induction *)

\* Every non-empty set of naturals has a least element.
LEMMA Least ==
    ASSUME NEW T, T \subseteq Nat, T # {}
    PROVE  \E m \in T : \A k \in T : m <= k
<1> DEFINE R == {p \in Nat \X Nat : p[1] < p[2]}
<1>1. IsWellFoundedOn(R, Nat)
  BY NatLessThanWellFounded DEF OpToRel
<1>2. PICK m \in T : \A k \in T : <<k, m>> \notin R
  <2> HIDE DEF R
  <2> QED BY <1>1, WFMin
<1>3. \A k \in T : m <= k
  <2> SUFFICES ASSUME NEW k \in T, ~(m <= k) PROVE FALSE
    OBVIOUS
  <2>1. k \in Nat /\ m \in Nat /\ k < m
    OBVIOUS
  <2>2. <<k, m>> \in R
    BY <2>1
  <2> QED BY <1>2, <2>2
<1> QED BY <1>3

\* A set of sequences has them all if it has the empty one, and with each one
\* those that are longer by an element.
LEMMA SequenceInduction ==
    ASSUME NEW C, NEW T, <<>> \in T, \A w \in Seq(C) \cap T : \A c \in C : Append(w, c) \in T
    PROVE  Seq(C) \subseteq T
<1> SUFFICES ASSUME NEW u \in Seq(C), u \notin T PROVE FALSE
  OBVIOUS
<1> DEFINE Lengths == {n \in Nat : \E v \in Seq(C) : v \notin T /\ Len(v) = n}
<1>1. Len(u) \in Lengths
  OBVIOUS
<1>2. PICK n \in Lengths : \A k \in Lengths : n <= k
  <2>1. Lengths \subseteq Nat /\ Lengths # {}
    BY <1>1
  <2> HIDE DEF Lengths
  <2> QED BY <2>1, Least
<1>3. PICK v \in Seq(C) : v \notin T /\ Len(v) = n
  OBVIOUS
<1>4. v # <<>>
  BY <1>3
<1>5. PICK w \in Seq(C), c \in C : v = Append(w, c)
  BY <1>4, SequenceEmptyOrAppend
<1>6. Len(v) = Len(w) + 1 /\ Len(w) \in Nat
  BY <1>5
<1>7. w \in T
  <2>1. Len(w) \notin Lengths
    BY <1>2, <1>3, <1>6
  <2> QED BY <1>6, <2>1
<1> QED BY <1>3, <1>5, <1>7

-----------------------------------------------------------------------------
(* Loops *)

\* The values of a loop over w, from the start on.
IsRun(f, step, start, w) ==
    f = [n \in 0 .. Len(w) |-> IF n = 0 THEN start ELSE step[w[n]][f[n - 1]]]

\* Two loops that do the same so far have the same values so far.
LEMMA RunsAgree ==
    ASSUME NEW step, NEW start, NEW v, NEW w, Len(v) \in Nat, Len(w) \in Nat, Len(v) <= Len(w),
           \A n \in 1 .. Len(v) : v[n] = w[n],
           NEW f, IsRun(f, step, start, v), NEW g, IsRun(g, step, start, w)
    PROVE  \A n \in 0 .. Len(v) : f[n] = g[n]
<1> DEFINE Differ == {n \in 0 .. Len(v) : f[n] # g[n]}
<1> SUFFICES ASSUME Differ # {} PROVE FALSE
  OBVIOUS
<1>1. PICK n \in Differ : \A k \in Differ : n <= k
  <2>1. Differ \subseteq Nat
    OBVIOUS
  <2> HIDE DEF Differ
  <2> QED BY <2>1, Least
<1>2. n # 0
  BY DEF IsRun
<1>3. n - 1 \in 0 .. Len(v) /\ n - 1 \notin Differ /\ n \in 1 .. Len(v)
  BY <1>1, <1>2
<1>4. f[n - 1] = g[n - 1]
  BY <1>3
<1>5. f[n] = step[v[n]][f[n - 1]] /\ g[n] = step[w[n]][g[n - 1]]
  <2>1. n \in 0 .. Len(v) /\ n \in 0 .. Len(w)
    BY <1>3
  <2> QED BY <1>2, <2>1, Zenon DEF IsRun
<1>6. f[n] = g[n]
  BY <1>3, <1>4, <1>5
<1> QED BY <1>6

\* Every loop has values.
LEMMA RunExists ==
    ASSUME NEW C, NEW step, NEW start, NEW w \in Seq(C)
    PROVE  \E f : IsRun(f, step, start, w)
<1> DEFINE T == {u \in Seq(C) : \E f : IsRun(f, step, start, u)}
<1>1. <<>> \in T
  <2>1. IsRun([n \in 0 .. 0 |-> start], step, start, <<>>)
    BY DEF IsRun
  <2> QED BY <2>1
<1>2. ASSUME NEW u \in Seq(C) \cap T, NEW c \in C PROVE Append(u, c) \in T
  <2>1. PICK f : IsRun(f, step, start, u)
    OBVIOUS
  <2> DEFINE m == Len(u) + 1
             g == [n \in 0 .. m |-> IF n = m THEN step[c][f[n - 1]] ELSE f[n]]
  <2>2. /\ Append(u, c) \in Seq(C) /\ Len(Append(u, c)) = m /\ Append(u, c)[m] = c /\ Len(u) \in Nat
        /\ \A n \in 1 .. Len(u) : Append(u, c)[n] = u[n]
    BY AppendProperties
  <2>3. \A n \in 0 .. Len(u) : f[n] = IF n = 0 THEN start ELSE step[u[n]][f[n - 1]]
    BY <2>1 DEF IsRun
  <2>4. ASSUME NEW n \in 0 .. m
        PROVE  g[n] = IF n = 0 THEN start ELSE step[Append(u, c)[n]][g[n - 1]]
    <3>1. CASE n = m
      <4>1. n # 0 /\ n - 1 \in 0 .. m /\ n - 1 # m
        BY <2>2, <3>1
      <4> QED BY <2>2, <3>1, <4>1
    <3>2. CASE n # m /\ n # 0
      <4>1. n \in 1 .. Len(u) /\ n - 1 \in 0 .. m /\ n - 1 # m /\ n \in 0 .. Len(u)
        BY <2>2, <3>2
      <4>2. g[n] = f[n] /\ g[n - 1] = f[n - 1]
        BY <3>2, <4>1
      <4> QED BY <2>2, <2>3, <3>2, <4>1, <4>2
    <3>3. CASE n # m /\ n = 0
      BY <2>2, <2>3, <3>3
    <3> QED BY <3>1, <3>2, <3>3
  <2>5. IsRun(g, step, start, Append(u, c))
    <3>1. g = [n \in 0 .. m |-> g[n]]
      OBVIOUS
    <3> HIDE DEF g
    <3> QED BY <2>2, <2>4, <3>1 DEF IsRun
  <2> QED BY <2>2, <2>5
<1>3. Seq(C) \subseteq T
  <2> HIDE DEF T
  <2> QED BY <1>1, <1>2, SequenceInduction
<1> QED BY <1>3

\* Where a loop leads is the last of its values.
LEMMA RunIsLast ==
    ASSUME NEW C, NEW step, NEW start, NEW w \in Seq(C)
    PROVE  \E f : IsRun(f, step, start, w) /\ Run(step, start, w) = f[Len(w)]
<1> DEFINE f == CHOOSE g : IsRun(g, step, start, w)
<1>1. Run(step, start, w) = f[Len(w)]
  BY DEF Run, IsRun
<1>2. IsRun(f, step, start, w)
  BY RunExists
<1> QED BY <1>1, <1>2

\* Without elements it does not lead anywhere.
LEMMA RunEmpty ==
    ASSUME NEW step, NEW start
    PROVE  Run(step, start, <<>>) = start
<1>1. PICK w \in Seq({}) : w = <<>>
  BY EmptySeq, Zenon
<1>2. PICK f : IsRun(f, step, start, w) /\ Run(step, start, w) = f[Len(w)]
  BY RunIsLast
<1> QED BY <1>1, <1>2 DEF IsRun

\* An element more is a step more.
LEMMA RunAppend ==
    ASSUME NEW C, NEW step, NEW start, NEW w \in Seq(C), NEW c \in C
    PROVE  Run(step, start, Append(w, c)) = step[c][Run(step, start, w)]
<1> DEFINE v == Append(w, c)
<1>1. /\ v \in Seq(C) /\ Len(w) \in Nat /\ Len(v) = Len(w) + 1 /\ v[Len(v)] = c
      /\ \A n \in 1 .. Len(w) : w[n] = v[n]
  BY AppendProperties
<1> HIDE DEF v
<1>2. PICK f : IsRun(f, step, start, w) /\ Run(step, start, w) = f[Len(w)]
  BY RunIsLast
<1>3. PICK g : IsRun(g, step, start, v) /\ Run(step, start, v) = g[Len(v)]
  BY <1>1, RunIsLast
<1>4. f[Len(w)] = g[Len(w)]
  <2>1. Len(v) \in Nat /\ Len(w) <= Len(v) /\ Len(w) \in 0 .. Len(w)
    BY <1>1
  <2>2. Len(w) \in Nat /\ \A n \in 1 .. Len(w) : w[n] = v[n]
    BY <1>1
  <2>3. IsRun(f, step, start, w) /\ IsRun(g, step, start, v)
    BY <1>2, <1>3
  <2>4. \A n \in 0 .. Len(w) : f[n] = g[n]
    BY <2>1, <2>2, <2>3, RunsAgree
  <2> QED BY <2>1, <2>4
<1>5. g[Len(v)] = step[v[Len(v)]][g[Len(v) - 1]]
  BY <1>1, <1>3 DEF IsRun
<1>6. Len(v) - 1 = Len(w)
  BY <1>1
<1> QED BY <1>1, <1>2, <1>3, <1>4, <1>5, <1>6 DEF v

\* Steps that keep a set stay in it.
LEMMA RunType ==
    ASSUME NEW C, NEW S, NEW step, \A c \in C : \A x \in S : step[c][x] \in S,
           NEW start \in S, NEW w \in Seq(C)
    PROVE  Run(step, start, w) \in S
<1> DEFINE T == {u \in Seq(C) : Run(step, start, u) \in S}
<1>1. <<>> \in T
  BY RunEmpty
<1>2. ASSUME NEW u \in Seq(C) \cap T, NEW c \in C PROVE Append(u, c) \in T
  BY RunAppend, AppendProperties
<1>3. Seq(C) \subseteq T
  <2> HIDE DEF T
  <2> QED BY <1>1, <1>2, SequenceInduction
<1> QED BY <1>3

\* An element can be added to the second of two sequences.
LEMMA AppendLast ==
    ASSUME NEW C, NEW v \in Seq(C), NEW u \in Seq(C), NEW c \in C
    PROVE  v \o Append(u, c) = Append(v \o u, c) /\ v \o u \in Seq(C)
OBVIOUS

\* A loop over two sequences is one over the first and one over the second.
LEMMA RunConcat ==
    ASSUME NEW C, NEW step, NEW start, NEW v \in Seq(C), NEW w \in Seq(C)
    PROVE  Run(step, start, v \o w) = Run(step, Run(step, start, v), w)
<1> DEFINE T == {u \in Seq(C) : Run(step, start, v \o u) = Run(step, Run(step, start, v), u)}
<1>1. <<>> \in T
  <2>1. v \o <<>> = v
    OBVIOUS
  <2> QED BY <2>1, RunEmpty
<1>2. ASSUME NEW u \in Seq(C) \cap T, NEW c \in C PROVE Append(u, c) \in T
  <2>0. v \o u \in Seq(C) /\ v \o Append(u, c) = Append(v \o u, c)
    BY AppendLast
  <2>1. PICK x \in Seq(C) : x = v \o u /\ v \o Append(u, c) = Append(x, c)
    BY <2>0, Zenon
  <2>2. Run(step, start, Append(x, c)) = step[c][Run(step, start, x)]
    BY RunAppend
  <2>3. Run(step, Run(step, start, v), Append(u, c)) = step[c][Run(step, Run(step, start, v), u)]
    BY RunAppend
  <2> QED BY <2>1, <2>2, <2>3, AppendProperties
<1>3. Seq(C) \subseteq T
  <2> HIDE DEF T
  <2> QED BY <1>1, <1>2, SequenceInduction
<1> QED BY <1>3

-----------------------------------------------------------------------------
(* The steps of the loops *)

NonSlash   == Chars \ {Slash}
CleanNames == Names \ {<<Dot>>, <<Dot, Dot>>}

\* A name is not empty, and has characters other than slashes.
LEMMA NameFacts ==
    ASSUME NEW n \in Names
    PROVE  /\ n \in Seq(NonSlash) /\ n \in Seq(Chars) /\ n # <<>> /\ Len(n) \in Nat /\ Len(n) >= 1
           /\ \A i \in 1 .. Len(n) : n[i] \in Chars /\ n[i] # Slash
<1>1. n \in Seq(NonSlash) /\ n # <<>>
  BY DEF Names, NonSlash
<1>2. NonSlash \subseteq Chars
  BY DEF NonSlash
<1>3. n \in Seq(Chars)
  BY <1>1, <1>2, SeqMonotonic
<1>4. Len(n) \in Nat /\ Len(n) >= 1
  BY <1>1, EmptySeq
<1>5. \A i \in 1 .. Len(n) : n[i] \in NonSlash
  BY <1>1, ElementOfSeq
<1> QED BY <1>1, <1>3, <1>4, <1>5 DEF NonSlash

LEMMA DotFacts ==
    /\ Slash \in Chars /\ Dot \in NonSlash /\ <<Dot>> \in Names
    /\ <<>> \in Seq(NonSlash) /\ <<Slash>> \in Seq(Chars) /\ Start \in Reading /\ Ends(Start) = <<>>
BY SpacePathsAssumption DEF SpacePathsAssumption, Chars, NonSlash, Names, Start, Reading, Ends

\* What has been read of a path are names.
LEMMA EndsFacts ==
    ASSUME NEW r \in Reading
    PROVE  Ends(r) \in Seq(Names)
<1>1. r.names \in Seq(Names) /\ r.name \in Seq(Chars \ {Slash})
  BY DEF Reading
<1>2. CASE r.name = <<>>
  BY <1>1, <1>2 DEF Ends
<1>3. CASE r.name # <<>>
  <2>1. r.name \in Names
    BY <1>1, <1>3 DEF Names
  <2> QED BY <1>1, <1>3, <2>1, AppendProperties DEF Ends
<1> QED BY <1>2, <1>3

\* What one character does.
LEMMA ReadFacts ==
    ASSUME NEW r \in Reading
    PROVE  /\ \A c \in Chars : Read[c][r] \in Reading
           /\ Read[Slash][r] = [names |-> Ends(r), name |-> <<>>]
           /\ \A c \in NonSlash : Read[c][r] = [names |-> r.names, name |-> Append(r.name, c)]
<1>1. /\ Read[Slash][r] = [names |-> Ends(r), name |-> <<>>]
      /\ \A c \in NonSlash : Read[c][r] = [names |-> r.names, name |-> Append(r.name, c)]
  BY DotFacts DEF Read, NonSlash
<1>2. r.names \in Seq(Names) /\ r.name \in Seq(NonSlash) /\ Ends(r) \in Seq(Names)
  BY EndsFacts DEF Reading, NonSlash
<1>3. [names |-> Ends(r), name |-> <<>>] \in Reading
  BY <1>2, DotFacts DEF Reading, NonSlash
<1>4. \A c \in NonSlash : [names |-> r.names, name |-> Append(r.name, c)] \in Reading
  <2>1. \A c \in NonSlash : Append(r.name, c) \in Seq(NonSlash)
    BY <1>2, AppendProperties
  <2> QED BY <1>2, <2>1 DEF Reading, NonSlash
<1> QED BY <1>1, <1>3, <1>4 DEF NonSlash

\* What one name does to a walk: a clean one is gone to.
LEMMA GoFacts ==
    ASSUME NEW at \in Seq(CleanNames), NEW n \in Names
    PROVE  /\ Go[n][at] \in Seq(CleanNames)
           /\ n \in CleanNames => Go[n][at] = Append(at, n)
<1>1. CleanNames \subseteq Names
  BY DEF CleanNames
<1>2. at \in Seq(Names)
  BY <1>1, SeqMonotonic
<1>3. Go[n][at] = IF n = <<Dot>> THEN at
                  ELSE IF n = <<Dot, Dot>> THEN SubSeq(at, 1, Len(at) - 1)
                  ELSE Append(at, n)
  BY <1>2 DEF Go
<1>4. SubSeq(at, 1, Len(at) - 1) \in Seq(CleanNames)
  <2>1. \A i \in 1 .. Len(at) - 1 : at[i] \in CleanNames
    BY ElementOfSeq
  <2>2. Len(at) - 1 \in Int
    BY LenProperties
  <2> QED BY <2>1, <2>2, SubSeqProperties
<1>5. n \in CleanNames => Append(at, n) \in Seq(CleanNames)
  BY AppendProperties
<1> QED BY <1>3, <1>4, <1>5 DEF CleanNames

\* What one name adds to a path.
LEMMA EnterFacts ==
    ASSUME NEW p \in Seq(Chars), NEW n \in Names
    PROVE  /\ Enter[n][p] = p \o (<<Slash>> \o n) /\ Enter[n][p] \in Seq(Chars)
           /\ <<Slash>> \o n \in Seq(Chars)
<1>1. n \in Seq(Chars) /\ <<Slash>> \in Seq(Chars)
  BY NameFacts, DotFacts
<1>2. Enter[n][p] = p \o <<Slash>> \o n
  BY DEF Enter
<1> QED BY <1>1, <1>2, ConcatAssociative, ConcatProperties

-----------------------------------------------------------------------------
(* Paths and their names *)

\* The path of some names, empty without.
PathOf(names) == Run(Enter, <<>>, names)

\* A path has names, and a walk along names leads to clean ones.
LEMMA ElementsType ==
    ASSUME NEW p \in Seq(Chars)
    PROVE  Elements(p) \in Seq(Names)
<1>1. Run(Read, Start, p) \in Reading
  BY DotFacts, ReadFacts, RunType
<1> QED BY <1>1, EndsFacts DEF Elements

LEMMA WalkType ==
    ASSUME NEW ns \in Seq(Names)
    PROVE  Walk(ns) \in Seq(CleanNames)
<1>1. <<>> \in Seq(CleanNames)
  BY EmptySeq
<1>2. Run(Go, <<>>, ns) \in Seq(CleanNames)
  BY <1>1, GoFacts, RunType
<1> QED BY <1>2 DEF Walk

LEMMA PathType ==
    ASSUME NEW ns \in Seq(Names)
    PROVE  PathOf(ns) \in Seq(Chars)
<1>1. <<>> \in Seq(Chars)
  BY EmptySeq
<1>2. Run(Enter, <<>>, ns) \in Seq(Chars)
  BY <1>1, EnterFacts, RunType
<1> QED BY <1>2 DEF PathOf

\* A name more is a slash and the name more.
LEMMA PathAppend ==
    ASSUME NEW ns \in Seq(Names), NEW n \in Names
    PROVE  PathOf(Append(ns, n)) = PathOf(ns) \o (<<Slash>> \o n)
<1>1. PathOf(Append(ns, n)) = Enter[n][PathOf(ns)]
  BY RunAppend DEF PathOf
<1> QED BY <1>1, PathType, EnterFacts

\* A name before the others comes with its slash before their path.
LEMMA PathFirst ==
    ASSUME NEW n \in Names, NEW ns \in Seq(Names)
    PROVE  PathOf(<<n>> \o ns) = (<<Slash>> \o n) \o PathOf(ns)
<1>0. PathOf(<<>>) = <<>> /\ <<>> \in Seq(Names) /\ <<n>> \in Seq(Names)
  BY RunEmpty, EmptySeq DEF PathOf
<1>1. <<Slash>> \o n \in Seq(Chars)
  BY <1>0, PathType, EnterFacts
<1> DEFINE T == {u \in Seq(Names) : PathOf(<<n>> \o u) = (<<Slash>> \o n) \o PathOf(u)}
<1>2. <<>> \in T
  <2>1. <<n>> \o <<>> = Append(<<>>, n)
    OBVIOUS
  <2>2. PathOf(Append(<<>>, n)) = PathOf(<<>>) \o (<<Slash>> \o n)
    BY <1>0, PathAppend
  <2>3. <<>> \o (<<Slash>> \o n) = <<Slash>> \o n /\ (<<Slash>> \o n) \o <<>> = <<Slash>> \o n
    BY <1>1, ConcatEmptySeq
  <2>4. PathOf(<<n>> \o <<>>) = (<<Slash>> \o n) \o PathOf(<<>>)
    BY <1>0, <2>1, <2>2, <2>3, Zenon
  <2> QED BY <1>0, <2>4
<1>3. ASSUME NEW u \in Seq(Names) \cap T, NEW m \in Names PROVE Append(u, m) \in T
  <2>1. <<n>> \o Append(u, m) = Append(<<n>> \o u, m) /\ <<n>> \o u \in Seq(Names)
        /\ Append(u, m) \in Seq(Names)
    OBVIOUS
  <2>2. PICK v \in Seq(Names) : v = <<n>> \o u /\ <<n>> \o Append(u, m) = Append(v, m)
    BY <2>1, Zenon
  <2>3. PathOf(Append(v, m)) = PathOf(v) \o (<<Slash>> \o m)
    BY PathAppend
  <2>4. PathOf(Append(u, m)) = PathOf(u) \o (<<Slash>> \o m)
    BY PathAppend
  <2>5. PathOf(v) = (<<Slash>> \o n) \o PathOf(u)
    BY <2>2
  <2>6. PathOf(u) \in Seq(Chars) /\ <<Slash>> \o m \in Seq(Chars)
    BY PathType, EnterFacts
  <2>7. ((<<Slash>> \o n) \o PathOf(u)) \o (<<Slash>> \o m)
          = (<<Slash>> \o n) \o (PathOf(u) \o (<<Slash>> \o m))
    <3>1. \A a, b, c \in Seq(Chars) : (a \o b) \o c = a \o (b \o c)
      BY ConcatAssociative
    <3> QED BY <1>1, <2>6, <3>1, Zenon
  <2>8. PathOf(<<n>> \o Append(u, m)) = (<<Slash>> \o n) \o PathOf(Append(u, m))
    BY <2>2, <2>3, <2>4, <2>5, <2>7, Zenon
  <2> QED BY <2>1, <2>8
<1>4. Seq(Names) \subseteq T
  <2> HIDE DEF T
  <2> QED BY <1>2, <1>3, SequenceInduction
<1> QED BY <1>4

\* Reading a name adds its characters.
LEMMA ReadName ==
    ASSUME NEW r \in Reading, r.name = <<>>, NEW n \in Seq(NonSlash)
    PROVE  Run(Read, r, n) = [names |-> r.names, name |-> n]
<1> DEFINE T == {u \in Seq(NonSlash) : Run(Read, r, u) = [names |-> r.names, name |-> u]}
<1>1. <<>> \in T
  <2>1. r = [names |-> r.names, name |-> <<>>]
    BY DEF Reading
  <2> QED BY <2>1, RunEmpty, DotFacts
<1>2. ASSUME NEW u \in Seq(NonSlash) \cap T, NEW c \in NonSlash PROVE Append(u, c) \in T
  <2>1. Run(Read, r, Append(u, c)) = Read[c][Run(Read, r, u)]
    BY RunAppend
  <2>2. Run(Read, r, u) = [names |-> r.names, name |-> u]
    OBVIOUS
  <2>3. [names |-> r.names, name |-> u] \in Reading
    BY DEF Reading, NonSlash
  <2>4. Run(Read, r, Append(u, c)) = [names |-> r.names, name |-> Append(u, c)]
    BY <2>1, <2>2, <2>3, ReadFacts
  <2> QED BY <2>4, AppendProperties
<1>3. Seq(NonSlash) \subseteq T
  <2> HIDE DEF T
  <2> QED BY <1>1, <1>2, SequenceInduction
<1> QED BY <1>3

\* Reading a path adds its names.
LEMMA ReadPath ==
    ASSUME NEW r \in Reading, NEW ns \in Seq(Names)
    PROVE  Ends(Run(Read, r, PathOf(ns))) = Ends(r) \o ns
<1> DEFINE T == {u \in Seq(Names) : Ends(Run(Read, r, PathOf(u))) = Ends(r) \o u}
<1>1. <<>> \in T
  <2>1. PathOf(<<>>) = <<>> /\ Run(Read, r, <<>>) = r /\ <<>> \in Seq(Names)
    BY RunEmpty, EmptySeq DEF PathOf
  <2>2. Ends(r) \o <<>> = Ends(r)
    BY EndsFacts, ConcatEmptySeq
  <2> QED BY <2>1, <2>2
<1>2. ASSUME NEW u \in Seq(Names) \cap T, NEW n \in Names PROVE Append(u, n) \in T
  <2> DEFINE q == Run(Read, r, PathOf(u))
             s == [names |-> Ends(q), name |-> <<>>]
  <2>1. PathOf(u) \in Seq(Chars) /\ <<Slash>> \in Seq(Chars) /\ n \in Seq(Chars)
        /\ n \in Seq(NonSlash) /\ n # <<>>
    BY PathType, DotFacts, NameFacts
  <2>2. q \in Reading /\ Ends(q) = Ends(r) \o u
    BY <2>1, ReadFacts, RunType
  <2>3. s \in Reading /\ Read[Slash][q] = s
    BY <2>2, ReadFacts, DotFacts
  <2> HIDE DEF q, s
  <2>4. Run(Read, r, PathOf(u) \o <<Slash>>) = s
    <3>1. PathOf(u) \o <<Slash>> = Append(PathOf(u), Slash)
      BY <2>1
    <3>2. Run(Read, r, Append(PathOf(u), Slash)) = Read[Slash][q]
      BY <2>1, DotFacts, RunAppend DEF q
    <3> QED BY <2>3, <3>1, <3>2
  <2>5. Run(Read, r, PathOf(Append(u, n))) = Run(Read, s, n)
    <3>1. PathOf(Append(u, n)) = (PathOf(u) \o <<Slash>>) \o n
          /\ PathOf(u) \o <<Slash>> \in Seq(Chars)
      <4>1. PathOf(Append(u, n)) = PathOf(u) \o (<<Slash>> \o n)
        BY PathAppend
      <4> QED BY <2>1, <4>1, ConcatAssociative, ConcatProperties
    <3>2. PICK w \in Seq(Chars) : w = PathOf(u) \o <<Slash>>
      BY <3>1, Zenon
    <3>3. Run(Read, r, w \o n) = Run(Read, Run(Read, r, w), n)
      BY <2>1, RunConcat
    <3> QED BY <2>4, <3>1, <3>2, <3>3, Zenon
  <2>6. Run(Read, s, n) = [names |-> Ends(q), name |-> n]
    BY <2>1, <2>3, ReadName DEF s
  <2>7. Ends(Run(Read, s, n)) = Append(Ends(q), n)
    BY <2>1, <2>6 DEF Ends
  <2>8. Append(Ends(r) \o u, n) = Ends(r) \o Append(u, n)
    <3>1. PICK e \in Seq(Names) : e = Ends(r)
      BY EndsFacts, Zenon
    <3>2. u \in Seq(Names)
      OBVIOUS
    <3>3. e \o Append(u, n) = Append(e \o u, n) /\ e \o u \in Seq(Names)
      BY <3>2, AppendLast
    <3> QED BY <3>1, <3>3
  <2>9. Ends(Run(Read, r, PathOf(Append(u, n)))) = Ends(r) \o Append(u, n)
    BY <2>2, <2>5, <2>7, <2>8
  <2> QED BY <2>9, AppendProperties
<1>3. Seq(Names) \subseteq T
  <2> HIDE DEF T
  <2> QED BY <1>1, <1>2, SequenceInduction
<1> QED BY <1>3

\* The elements of the path of some names are these names, also when the path
\* is sent as a relative one.
LEMMA ElementsOfJoined ==
    ASSUME NEW ns \in Seq(Names)
    PROVE  /\ Elements(Joined(ns)) = ns
           /\ ns # <<>> => Elements(<<Dot>> \o Joined(ns)) = <<<<Dot>>>> \o ns
           /\ Elements(<<Dot>>) = <<<<Dot>>>>
<1>1. Run(Read, Start, <<Slash>>) = Start
  <2>1. PICK w \in Seq(Chars) : w = <<>>
    BY EmptySeq, Zenon
  <2>2. Run(Read, Start, Append(w, Slash)) = Read[Slash][Start]
    <3>1. Run(Read, Start, w) = Start
      BY <2>1, RunEmpty
    <3> QED BY <3>1, RunAppend, DotFacts
  <2>3. Append(w, Slash) = <<Slash>>
    BY <2>1
  <2> QED BY <2>2, <2>3, ReadFacts, DotFacts DEF Start
<1> DEFINE dot == [names |-> <<>>, name |-> <<Dot>>]
<1>2. Run(Read, Start, <<Dot>>) = dot /\ dot \in Reading /\ Ends(dot) = <<<<Dot>>>>
  <2>1. <<Dot>> \in Seq(NonSlash)
    BY DotFacts
  <2>2. Run(Read, Start, <<Dot>>) = dot
    BY <2>1, ReadName, DotFacts DEF Start
  <2>3. dot \in Reading /\ Ends(dot) = <<<<Dot>>>>
    BY <2>1, EmptySeq DEF Reading, NonSlash, Ends
  <2> QED BY <2>2, <2>3
<1>3. Elements(Joined(ns)) = ns
  <2>1. CASE ns = <<>>
    BY <1>1, <2>1, DotFacts DEF Joined, Elements
  <2>2. CASE ns # <<>>
    BY <2>2, ReadPath, DotFacts, ConcatEmptySeq DEF Joined, Elements, PathOf
  <2> QED BY <2>1, <2>2
<1>4. ASSUME ns # <<>> PROVE Elements(<<Dot>> \o Joined(ns)) = <<<<Dot>>>> \o ns
  <2>1. Joined(ns) = PathOf(ns) /\ PathOf(ns) \in Seq(Chars) /\ <<Dot>> \in Seq(Chars)
    BY <1>4, PathType, NameFacts, DotFacts DEF Joined, PathOf
  <2>2. Run(Read, Start, <<Dot>> \o PathOf(ns)) = Run(Read, dot, PathOf(ns))
    <3>1. PICK w \in Seq(Chars) : w = <<Dot>>
      BY <2>1
    <3>2. Run(Read, Start, w \o PathOf(ns)) = Run(Read, Run(Read, Start, w), PathOf(ns))
      BY <2>1, RunConcat
    <3> QED BY <1>2, <3>1, <3>2
  <2>3. Ends(Run(Read, dot, PathOf(ns))) = Ends(dot) \o ns
    BY <1>2, ReadPath
  <2> QED BY <1>2, <2>1, <2>2, <2>3 DEF Elements
<1>5. Elements(<<Dot>>) = <<<<Dot>>>>
  BY <1>2 DEF Elements
<1> QED BY <1>3, <1>4, <1>5

\* A walk along clean names goes there.
LEMMA WalkOfClean ==
    ASSUME NEW ns \in Seq(CleanNames)
    PROVE  Walk(ns) = ns
<1> DEFINE T == {u \in Seq(CleanNames) : Run(Go, <<>>, u) = u}
<1>1. <<>> \in T
  BY RunEmpty, EmptySeq
<1>2. ASSUME NEW u \in Seq(CleanNames) \cap T, NEW n \in CleanNames PROVE Append(u, n) \in T
  <2>1. Run(Go, <<>>, Append(u, n)) = Go[n][u]
    BY RunAppend
  <2>2. n \in Names
    BY DEF CleanNames
  <2> QED BY <2>1, <2>2, GoFacts, AppendProperties
<1>3. Seq(CleanNames) \subseteq T
  <2> HIDE DEF T
  <2> QED BY <1>1, <1>2, SequenceInduction
<1> QED BY <1>3 DEF Walk

-----------------------------------------------------------------------------
(* Splitting and looking up *)

\* A path of names begins with a slash and does not end with one.
LEMMA PathFacts ==
    ASSUME NEW ns \in Seq(Names), ns # <<>>
    PROVE  /\ PathOf(ns) \in Seq(Chars) /\ Len(PathOf(ns)) \in Nat /\ Len(PathOf(ns)) >= 2
           /\ PathOf(ns)[1] = Slash /\ PathOf(ns)[Len(PathOf(ns))] # Slash
<1>1. PICK ms \in Seq(Names), m \in Names : ns = Append(ms, m)
  BY SequenceEmptyOrAppend
<1>2. PathOf(ns) = PathOf(ms) \o (<<Slash>> \o m) /\ PathOf(ms) \in Seq(Chars)
      /\ PathOf(ns) \in Seq(Chars)
  BY <1>1, PathAppend, PathType
<1>3. /\ m \in Seq(Chars) /\ Len(m) \in Nat /\ Len(m) >= 1 /\ m[Len(m)] # Slash
      /\ <<Slash>> \in Seq(Chars)
  BY NameFacts, DotFacts
<1> DEFINE s == <<Slash>> \o m
           p == PathOf(ms)
<1>4. s \in Seq(Chars) /\ Len(s) = 1 + Len(m) /\ s[Len(s)] = m[Len(m)]
  BY <1>3
<1> HIDE DEF s
<1>5. Len(p) \in Nat /\ Len(p \o s) = Len(p) + Len(s) /\ (p \o s)[Len(p) + Len(s)] = s[Len(s)]
  <2> HIDE DEF p
  <2>1. p \in Seq(Chars)
    BY <1>2 DEF p
  <2>2. /\ Len(p \o s) = Len(p) + Len(s) /\ Len(p) \in Nat /\ Len(s) \in Nat /\ Len(s) >= 1
        /\ \A i \in 1 .. Len(p) + Len(s) : (p \o s)[i] = IF i <= Len(p) THEN p[i] ELSE s[i - Len(p)]
    <3>1. s \in Seq(Chars) /\ Len(s) \in Nat /\ Len(s) >= 1 /\ Len(p) \in Nat
      BY <1>3, <1>4, <2>1
    <3> QED BY <2>1, <3>1, ConcatProperties
  <2>3. \A k, l \in Nat : l >= 1 => k + l \in 1 .. k + l /\ ~(k + l <= k) /\ k + l - k = l
    OBVIOUS
  <2> QED BY <2>2, <2>3
<1>6. PathOf(ns)[1] = Slash
  <2>1. PICK n \in Names, rs \in Seq(Names) : ns = <<n>> \o rs
    <3>1. Head(ns) \in Names /\ Tail(ns) \in Seq(Names) /\ ns = <<Head(ns)>> \o Tail(ns)
      OBVIOUS
    <3> QED BY <3>1
  <2>2. PathOf(ns) = (<<Slash>> \o n) \o PathOf(rs) /\ PathOf(rs) \in Seq(Chars) /\ n \in Seq(Chars)
    BY <2>1, PathFirst, PathType, NameFacts
  <2> DEFINE b == PathOf(rs)
  <2>3. b \in Seq(Chars)
    BY <2>2
  <2> HIDE DEF b
  <2>4. ((<<Slash>> \o n) \o b)[1] = Slash
    BY <1>3, <2>2, <2>3
  <2> QED BY <2>2, <2>4 DEF b
<1> QED BY <1>2, <1>3, <1>4, <1>5, <1>6 DEF s

\* The first slash is behind the first name.
LEMMA FirstSlashFacts ==
    ASSUME NEW n \in Names, NEW q \in Seq(Chars), q = <<>> \/ q[1] = Slash
    PROVE  FirstSlash(n \o q) = IF q = <<>> THEN 0 ELSE Len(n) + 1
<1>1. /\ n \in Seq(Chars) /\ Len(n) \in Nat /\ Len(q) \in Nat
      /\ \A i \in 1 .. Len(n) : n[i] # Slash
  BY NameFacts
<1> DEFINE t == n \o q
           I == {i \in 1 .. Len(t) : t[i] = Slash}
<1>2. Len(t) = Len(n) + Len(q)
      /\ \A i \in 1 .. Len(n) + Len(q) : t[i] = IF i <= Len(n) THEN n[i] ELSE q[i - Len(n)]
  BY <1>1, ConcatProperties
<1>3. FirstSlash(t) = IF I # {} THEN Min(I) ELSE 0
  BY DEF FirstSlash, SelectInSeq
<1> HIDE DEF t
<1>4. \A i \in I : i > Len(n)
  BY <1>1, <1>2
<1>5. CASE q = <<>>
  <2>1. I = {}
    BY <1>1, <1>2, <1>4, <1>5
  <2> QED BY <1>3, <1>5, <2>1 DEF t
<1>6. CASE q # <<>>
  <2>1. Len(q) >= 1 /\ q[1] = Slash
    BY <1>6
  <2>2. Len(n) + 1 \in I
    BY <1>1, <1>2, <2>1
  <2>3. Min(I) = Len(n) + 1
    <3>1. \A i \in I : Len(n) + 1 <= i
      BY <1>1, <1>4
    <3> HIDE DEF I
    <3>2. Len(n) + 1 \in Int /\ I \subseteq Int
      BY <1>1 DEF I
    <3>3. \A x \in I : (\A y \in I : x <= y) => x = Len(n) + 1
      BY <2>2, <3>1, <3>2
    <3> QED BY <2>2, <3>1, <3>3 DEF Min
  <2> QED BY <1>3, <1>6, <2>2, <2>3 DEF t
<1> QED BY <1>5, <1>6

\* What SplitAbsolutePath makes of a name and what comes behind it, with the
\* slash before it and without.
LEMMA SplitFacts ==
    ASSUME NEW n \in Names, NEW q \in Seq(Chars), q = <<>> \/ q[1] = Slash,
           NEW path, path = n \o q \/ path = (<<Slash>> \o n) \o q
    PROVE  SplitAbsolutePath(path) =
             [space |-> n, rest |-> IF q \in {<<>>, <<Slash>>} THEN <<Slash>> ELSE TrimSuffix(q)]
<1>1. /\ n \in Seq(Chars) /\ n # <<>> /\ Len(n) \in Nat /\ Len(n) >= 1 /\ n[1] # Slash
      /\ Len(q) \in Nat /\ <<Slash>> \in Seq(Chars)
  BY NameFacts, DotFacts
<1>2. TrimPrefix(path) = n \o q
  <2>1. CASE path = n \o q
    <3>1. path # <<>> /\ Head(path) # Slash
      BY <1>1, <2>1
    <3> QED BY <2>1, <3>1 DEF TrimPrefix
  <2>2. CASE path = (<<Slash>> \o n) \o q
    <3>1. path # <<>> /\ Head(path) = Slash /\ Tail(path) = n \o q
      BY <1>1, <2>2
    <3> QED BY <3>1 DEF TrimPrefix
  <2> QED BY <2>1, <2>2
<1> DEFINE t   == n \o q
           cut == FirstSlash(t)
<1>3. cut = IF q = <<>> THEN 0 ELSE Len(n) + 1
  BY FirstSlashFacts
<1> HIDE DEF cut
<1>4. SplitAbsolutePath(path) =
        LET space == IF cut = 0 THEN t ELSE SubSeq(t, 1, cut - 1)
            rest  == IF cut = 0 THEN <<Slash>> ELSE SubSeq(t, cut, Len(t))
        IN  IF space = <<>> THEN NoSplit
            ELSE [space |-> space, rest |-> IF rest = <<Slash>> THEN rest ELSE TrimSuffix(rest)]
  BY <1>2 DEF SplitAbsolutePath, cut
<1>5. CASE q = <<>>
  <2>1. t = n
    BY <1>1, <1>5
  <2> QED BY <1>1, <1>3, <1>4, <1>5, <2>1
<1>6. CASE q # <<>>
  <2>1. cut = Len(n) + 1 /\ cut # 0
    BY <1>1, <1>3, <1>6
  <2>2. SubSeq(t, 1, Len(n)) = n
    BY <1>1
  <2>3. SubSeq(t, Len(n) + 1, Len(t)) = q
    BY <1>1
  <2>4. cut - 1 = Len(n)
    BY <1>1, <2>1
  <2> HIDE DEF t
  <2>5. SplitAbsolutePath(path) =
          [space |-> n, rest |-> IF q = <<Slash>> THEN q ELSE TrimSuffix(q)]
    BY <1>1, <1>4, <2>1, <2>2, <2>3, <2>4
  <2> QED BY <1>6, <2>5
<1> QED BY <1>5, <1>6

\* The spaces of that name.
Hits(list, n) == {k \in DOMAIN list : list[k].name = n}

\* The first of them.
FirstOf(hits)  == CHOOSE k \in hits : \A j \in hits : k <= j
Place(list, n) == FirstOf(Hits(list, n))

\* What is found for the first of them.
Found(list, n, r) ==
    IF Hits(list, n) = {} THEN NotFound
    ELSE [id |-> <<list[Place(list, n)].id>>, relPath |-> r]

\* The first space of the name is looked up.
LEMMA FindFacts ==
    ASSUME NEW list \in SpaceLists, NEW n, NEW r, NEW path,
           SplitAbsolutePath(path) = [space |-> n, rest |-> r]
    PROVE  FindSpaceForPath(path, list) = Found(list, n, r)
<1>1. DOMAIN list = 1 .. Len(list) /\ Len(list) \in Nat
  BY SpacePathsAssumption DEF SpacePathsAssumption
<1>2. FirstHit(list, n) = IF Hits(list, n) # {} THEN Place(list, n) ELSE 0
  BY <1>1 DEF FirstHit, SelectInSeq, Hits, Place, FirstOf, Min
<1>3. ASSUME Hits(list, n) # {} PROVE Place(list, n) # 0
  <2>1. Hits(list, n) \subseteq Nat /\ 0 \notin Hits(list, n)
    BY <1>1 DEF Hits
  <2>2. \E m \in Hits(list, n) : \A k \in Hits(list, n) : m <= k
    BY <1>3, <2>1, Least
  <2>3. Place(list, n) \in Hits(list, n)
    BY <2>2 DEF Place, FirstOf
  <2> QED BY <2>1, <2>3
<1>4. FindSpaceForPath(path, list) =
        LET hit == FirstHit(list, n)
        IN  IF hit = 0 THEN NotFound ELSE [id |-> <<list[hit].id>>, relPath |-> r]
  BY DEF FindSpaceForPath
<1> QED BY <1>2, <1>3, <1>4, Zenon DEF Found

\* And so it is for Lookup.
LEMMA ResolveIs ==
    ASSUME NEW list \in SpaceLists, NEW n \in Names, NEW ns \in Seq(Names)
    PROVE  Resolve(<<n>> \o ns, list) =
             IF Hits(list, n) = {} THEN NoRef
             ELSE <<list[Place(list, n)].id>> \o ns
<1> DEFINE p == <<n>> \o ns
<1>1. p # <<>> /\ p[1] = n /\ Tail(p) = ns
  OBVIOUS
<1> HIDE DEF p
<1>2. {k \in DOMAIN list : p # <<>> /\ list[k].name = p[1]} = Hits(list, n)
  BY <1>1 DEF Hits
<1>3. Resolve(p, list) =
        LET hits == {k \in DOMAIN list : p # <<>> /\ list[k].name = p[1]}
        IN  IF hits = {} THEN NoRef ELSE <<list[FirstOf(hits)].id>> \o Tail(p)
  BY DEF Resolve, FirstOf
<1>4. Resolve(p, list) =
        IF Hits(list, n) = {} THEN NoRef ELSE <<list[Place(list, n)].id>> \o ns
  BY <1>1, <1>2, <1>3, Zenon DEF Place
<1> QED BY <1>4 DEF p

\* The root names no space.
LEMMA RootFacts ==
    ASSUME NEW list \in SpaceLists
    PROVE  FindSpaceForPath(<<Slash>>, list) = NotFound /\ Resolve(<<>>, list) = NoRef
<1>1. TrimPrefix(<<Slash>>) = <<>>
  BY DEF TrimPrefix
<1>2. FirstSlash(<<>>) = 0
  BY DEF FirstSlash, SelectInSeq
<1>3. SplitAbsolutePath(<<Slash>>) = NoSplit
  BY <1>1, <1>2 DEF SplitAbsolutePath
<1>4. Hits(list, <<>>) = {}
  <2>1. \A k \in DOMAIN list : list[k].name # <<>>
    <3>1. list \in Seq([id : Ids, name : Seq(Chars) \ {<<>>}])
      BY SpacePathsAssumption DEF SpacePathsAssumption
    <3>2. \A k \in 1 .. Len(list) : list[k] \in [id : Ids, name : Seq(Chars) \ {<<>>}]
      BY <3>1, ElementOfSeq
    <3> QED BY <3>1, <3>2
  <2> QED BY <2>1 DEF Hits
<1>5. FindSpaceForPath(<<Slash>>, list) = NotFound
  BY <1>3, <1>4, FindFacts DEF NoSplit, Found
<1> QED BY <1>5 DEF Resolve

-----------------------------------------------------------------------------
(* What the lookup keeps *)

TypeInv == typed \in Seq(Chars) /\ spaces \in SpaceLists

\* The clean path of a typed one, by its names.
LEMMA CleanFacts ==
    ASSUME TypeInv
    PROVE  /\ Walk(Elements(typed)) \in Seq(CleanNames) /\ Walk(Elements(typed)) \in Seq(Names)
           /\ Clean(typed) = Joined(Walk(Elements(typed)))
<1>1. Walk(Elements(typed)) \in Seq(CleanNames)
  BY ElementsType, WalkType DEF TypeInv
<1>2. CleanNames \subseteq Names
  BY DEF CleanNames
<1> QED BY <1>1, <1>2, SeqMonotonic DEF Clean

\* The path of names below a space is clean, and is split off as it is, also
\* with a slash behind it.
LEMMA BelowFacts ==
    ASSUME NEW n \in Names, NEW ns \in Seq(Names),
           NEW path, \/ path = PathOf(<<n>> \o ns)
                     \/ path = PathOf(<<n>> \o ns) \o <<Slash>>
                     \/ path = Tail(PathOf(<<n>> \o ns))
    PROVE  SplitAbsolutePath(path) = [space |-> n, rest |-> Joined(ns)]
<1> DEFINE p == PathOf(ns)
<1>1. /\ PathOf(<<n>> \o ns) = (<<Slash>> \o n) \o p /\ p \in Seq(Chars)
      /\ n \in Seq(Chars) /\ <<Slash>> \in Seq(Chars) /\ PathOf(<<>>) = <<>>
  BY PathFirst, PathType, NameFacts, DotFacts, RunEmpty DEF PathOf
<1>2. CASE ns = <<>>
  <2>1. p = <<>> /\ Joined(ns) = <<Slash>>
    BY <1>1, <1>2 DEF Joined
  <2>2. \E q \in {<<>>, <<Slash>>} : path = n \o q \/ path = (<<Slash>> \o n) \o q
    <3>1. PathOf(<<n>> \o ns) = (<<Slash>> \o n) \o <<>>
      BY <1>1, <2>1
    <3>2. ((<<Slash>> \o n) \o <<>>) \o <<Slash>> = (<<Slash>> \o n) \o <<Slash>>
      BY <1>1
    <3>3. Tail((<<Slash>> \o n) \o <<>>) = n \o <<>>
      BY <1>1
    <3> QED BY <3>1, <3>2, <3>3
  <2>3. PICK q \in Seq(Chars) : /\ q \in {<<>>, <<Slash>>}
                               /\ (path = n \o q \/ path = (<<Slash>> \o n) \o q)
    <3>1. <<>> \in Seq(Chars)
      BY EmptySeq
    <3> QED BY <1>1, <2>2, <3>1, Zenon
  <2>4. q = <<>> \/ q[1] = Slash
    <3>1. CASE q = <<>>
      BY <3>1
    <3>2. CASE q = <<Slash>>
      BY <3>2
    <3> QED BY <2>3, <3>1, <3>2, Zenon
  <2>5. SplitAbsolutePath(path) =
          [space |-> n, rest |-> IF q \in {<<>>, <<Slash>>} THEN <<Slash>> ELSE TrimSuffix(q)]
    BY <2>3, <2>4, SplitFacts, Zenon
  <2>6. SplitAbsolutePath(path) = [space |-> n, rest |-> <<Slash>>]
    BY <2>3, <2>5
  <2> QED BY <2>1, <2>6
<1>3. CASE ns # <<>>
  <2>1. Joined(ns) = p /\ Len(p) \in Nat /\ Len(p) >= 2 /\ p[1] = Slash /\ p[Len(p)] # Slash
    BY <1>3, PathFacts DEF Joined, PathOf
  <2> HIDE DEF p
  <2>2. \E q \in {p, p \o <<Slash>>} : path = n \o q \/ path = (<<Slash>> \o n) \o q
    <3>1. ((<<Slash>> \o n) \o p) \o <<Slash>> = (<<Slash>> \o n) \o (p \o <<Slash>>)
      BY <1>1
    <3>2. Tail((<<Slash>> \o n) \o p) = n \o p
      BY <1>1
    <3> QED BY <1>1, <3>1, <3>2
  <2>3. p # <<>> /\ p # <<Slash>> /\ TrimSuffix(p) = p
    BY <1>1, <2>1 DEF TrimSuffix, Last
  <2>4. PICK s \in Seq(Chars) :
          /\ s = p \o <<Slash>> /\ Len(s) = Len(p) + 1 /\ s[Len(p) + 1] = Slash
          /\ \A i \in 1 .. Len(p) : s[i] = p[i]
    <3>1. p \o <<Slash>> = Append(p, Slash)
      BY <1>1
    <3>2. Append(p, Slash) \in Seq(Chars) /\ Len(Append(p, Slash)) = Len(p) + 1
          /\ Append(p, Slash)[Len(p) + 1] = Slash
          /\ \A i \in 1 .. Len(p) : Append(p, Slash)[i] = p[i]
      BY <1>1, DotFacts, AppendProperties
    <3> QED BY <3>1, <3>2, Zenon
  <2>5. s[1] = Slash /\ s \notin {<<>>, <<Slash>>}
    BY <2>1, <2>4
  <2>6. TrimSuffix(s) = p
    <3>1. s # <<>> /\ Len(p) + 1 - 1 = Len(p)
      BY <2>1, <2>5
    <3>2. SubSeq(s, 1, Len(p)) = p
      BY <1>1, <2>1, <2>4
    <3>3. s[Len(s)] = Slash /\ Len(s) - 1 = Len(p)
      BY <2>4, <3>1
    <3> QED BY <3>1, <3>2, <3>3, Zenon DEF TrimSuffix, Last, Front
  <2>7. PICK q \in Seq(Chars) : /\ q = p \/ q = s
                               /\ (path = n \o q \/ path = (<<Slash>> \o n) \o q)
    BY <1>1, <2>2, <2>4, Zenon
  <2>8. /\ q = <<>> \/ q[1] = Slash
        /\ q \notin {<<>>, <<Slash>>} /\ TrimSuffix(q) = p
    <3>1. CASE q = p
      BY <2>1, <2>3, <3>1
    <3>2. CASE q = s
      BY <2>5, <2>6, <3>2
    <3> QED BY <2>7, <3>1, <3>2, Zenon
  <2>9. SplitAbsolutePath(path) =
          [space |-> n, rest |-> IF q \in {<<>>, <<Slash>>} THEN <<Slash>> ELSE TrimSuffix(q)]
    BY <2>7, <2>8, SplitFacts, Zenon
  <2> QED BY <2>1, <2>8, <2>9
<1> QED BY <1>2, <1>3

\* The relative path that is sent names the same below the root of the space.
LEMMA RelativeFacts ==
    ASSUME NEW ns \in Seq(CleanNames)
    PROVE  Elements(MakeRelativePath(Joined(ns))) = <<<<Dot>>>> \o ns
<1>1. ns \in Seq(Names)
  <2>1. CleanNames \subseteq Names
    BY DEF CleanNames
  <2> QED BY <2>1, SeqMonotonic
<1>2. Clean(Joined(ns)) = Joined(ns)
  BY <1>1, ElementsOfJoined, WalkOfClean DEF Clean
<1>3. CASE ns = <<>>
  <2>1. Joined(ns) = <<Slash>>
    BY <1>3 DEF Joined
  <2>2. <<<<Dot>>>> \o ns = <<<<Dot>>>>
    BY <1>3
  <2> QED BY <1>1, <1>2, <2>1, <2>2, ElementsOfJoined DEF MakeRelativePath
<1>4. CASE ns # <<>>
  <2>1. Joined(ns) # <<Slash>>
    <3>1. Joined(ns) = PathOf(ns)
      BY <1>4 DEF Joined, PathOf
    <3>2. Len(PathOf(ns)) # 1
      BY <1>1, <1>4, PathFacts
    <3>3. Len(<<Slash>>) = 1
      OBVIOUS
    <3> QED BY <3>1, <3>2, <3>3, Zenon
  <2> QED BY <1>1, <1>2, <1>4, <2>1, ElementsOfJoined DEF MakeRelativePath
<1> QED BY <1>3, <1>4

\* Every step keeps the types.
LEMMA TypesHold == Spec => []TypeInv
<1>1. Init => TypeInv
  BY DEF Init, TypeInv
<1>2. TypeInv /\ [Next]_vars => TypeInv'
  BY DEF TypeInv, Next, Type, ForeignSpaces, vars
<1> QED BY <1>1, <1>2, PTL DEF Spec

\* What is found is the space of the first name, with the path of the others.
LEMMA LookupFacts ==
    ASSUME TypeInv, NEW names, names = Walk(Elements(typed))
    PROVE  \/ FindSpaceForPath(Clean(typed), spaces) = NotFound /\ Resolve(names, spaces) = NoRef
           \/ \E ns \in Seq(CleanNames) : \E id :
                 /\ FindSpaceForPath(Clean(typed), spaces) = [id |-> <<id>>, relPath |-> Joined(ns)]
                 /\ Resolve(names, spaces) = <<id>> \o ns
                 /\ ns = Tail(names)
<1> DEFINE found == FindSpaceForPath(Clean(typed), spaces)
<1>1. names \in Seq(CleanNames) /\ names \in Seq(Names) /\ Clean(typed) = Joined(names)
  BY CleanFacts
<1>2. spaces \in SpaceLists
  BY DEF TypeInv
<1>3. CASE names = <<>>
  <2>1. found = NotFound /\ Resolve(names, spaces) = NoRef
    BY <1>1, <1>2, <1>3, RootFacts DEF Joined
  <2> QED BY <2>1
<1>4. CASE names # <<>>
  <2>1. PICK n \in Names, ns \in Seq(CleanNames) : names = <<n>> \o ns /\ ns = Tail(names)
    <3>1. /\ Head(names) \in CleanNames /\ Tail(names) \in Seq(CleanNames)
          /\ names = <<Head(names)>> \o Tail(names)
      BY <1>1, <1>4
    <3> QED BY <3>1 DEF CleanNames
  <2>2. ns \in Seq(Names)
    <3>1. CleanNames \subseteq Names
      BY DEF CleanNames
    <3> QED BY <3>1, SeqMonotonic
  <2>3. SplitAbsolutePath(Clean(typed)) = [space |-> n, rest |-> Joined(ns)]
    <3>1. Joined(names) = PathOf(<<n>> \o ns)
      BY <1>4, <2>1 DEF Joined, PathOf
    <3> QED BY <1>1, <2>2, <3>1, BelowFacts
  <2> DEFINE id == spaces[Place(spaces, n)].id
  <2>4. FindSpaceForPath(Clean(typed), spaces) =
          IF Hits(spaces, n) = {} THEN NotFound ELSE [id |-> <<id>>, relPath |-> Joined(ns)]
    <3>1. FindSpaceForPath(Clean(typed), spaces) = Found(spaces, n, Joined(ns))
      BY <1>2, <2>3, FindFacts
    <3> QED BY <3>1 DEF Found
  <2>5. Resolve(<<n>> \o ns, spaces) = IF Hits(spaces, n) = {} THEN NoRef ELSE <<id>> \o ns
    BY <1>2, <2>2, ResolveIs, Zenon
  <2> HIDE DEF id
  <2> QED BY <2>1, <2>4, <2>5, Zenon
<1> QED BY <1>3, <1>4

\* Splitting the string of a path and looking up its space yields what the
\* names of the path name, for paths of any length: the induction over strings
\* is that of ReadPath, PathFirst and WalkOfClean.
THEOREM LookupsFindWhatIsNamed == Spec => []LooksUpWhatIsNamed
<1>1. ASSUME TypeInv PROVE LooksUpWhatIsNamed
  <2> DEFINE names == Walk(Elements(typed))
             found == FindSpaceForPath(Clean(typed), spaces)
  <2>1. CASE found = NotFound /\ Resolve(names, spaces) = NoRef
    BY <2>1 DEF LooksUpWhatIsNamed, NotFound
  <2>2. ASSUME NEW ns \in Seq(CleanNames), NEW id,
               found = [id |-> <<id>>, relPath |-> Joined(ns)],
               Resolve(names, spaces) = <<id>> \o ns, ns = Tail(names)
        PROVE  LooksUpWhatIsNamed
    <3>1. ns \in Seq(Names)
      <4>1. CleanNames \subseteq Names
        BY DEF CleanNames
      <4> QED BY <4>1, SeqMonotonic
    <3>2. Elements(Joined(ns)) = ns /\ Elements(MakeRelativePath(Joined(ns))) = <<<<Dot>>>> \o ns
      BY <3>1, ElementsOfJoined, RelativeFacts
    <3>3. found.id = <<id>> /\ found.id # <<>> /\ found.relPath = Joined(ns)
      BY <2>2
    <3> HIDE DEF names, found
    <3> QED BY <2>2, <3>2, <3>3 DEF LooksUpWhatIsNamed, names, found
  <2> QED BY <1>1, <2>1, <2>2, LookupFacts, Zenon
<1> QED BY <1>1, TypesHold, PTL

\* Whatever a client types, the relative path that a command sends with the space
\* does not lead up from anywhere, so it names something in this space.
THEOREM ReferencesStayBelow ==
    Spec => []LET found == FindSpaceForPath(Clean(typed), spaces)
                  below == Elements(MakeRelativePath(found.relPath))
              IN  found # NotFound => \A i \in DOMAIN below : below[i] # <<Dot, Dot>>
<1> DEFINE found == FindSpaceForPath(Clean(typed), spaces)
           below == Elements(MakeRelativePath(found.relPath))
<1>1. ASSUME TypeInv PROVE found # NotFound => \A i \in DOMAIN below : below[i] # <<Dot, Dot>>
  <2> SUFFICES ASSUME found # NotFound PROVE \A i \in DOMAIN below : below[i] # <<Dot, Dot>>
    OBVIOUS
  <2>1. PICK ns \in Seq(CleanNames) : found.relPath = Joined(ns)
    <3>1. \E ns \in Seq(CleanNames) : \E id : found = [id |-> <<id>>, relPath |-> Joined(ns)]
      BY <1>1, LookupFacts, Zenon
    <3> HIDE DEF found
    <3> QED BY <3>1
  <2>2. below = <<<<Dot>>>> \o ns
    BY <2>1, RelativeFacts
  <2> HIDE DEF below
  <2>3. \A i \in 1 .. Len(ns) : ns[i] # <<Dot, Dot>>
    <3>1. \A i \in 1 .. Len(ns) : ns[i] \in CleanNames
      BY ElementOfSeq
    <3> QED BY <3>1 DEF CleanNames
  <2>4. /\ DOMAIN below = 1 .. 1 + Len(ns) /\ below[1] = <<Dot>> /\ Len(ns) \in Nat
        /\ \A i \in 2 .. 1 + Len(ns) : below[i] = ns[i - 1]
    BY <2>2
  <2>5. <<Dot>> # <<Dot, Dot>>
    OBVIOUS
  <2>6. \A i \in DOMAIN below : i = 1 \/ (i \in 2 .. 1 + Len(ns) /\ i - 1 \in 1 .. Len(ns))
    BY <2>4
  <2> QED BY <2>3, <2>4, <2>5, <2>6, Zenon
<1> QED BY <1>1, TypesHold, PTL

\* A slash behind a clean path, or none before it, changes nothing.
THEOREM SlashesChangeNothing == Spec => []SlashesDoNotMatter
<1>1. ASSUME TypeInv PROVE SlashesDoNotMatter
  <2> DEFINE names == Walk(Elements(typed))
  <2>1. names \in Seq(Names) /\ Clean(typed) = Joined(names) /\ spaces \in SpaceLists
    BY <1>1, CleanFacts DEF TypeInv
  <2> HIDE DEF names
  <2>2. CASE names = <<>>
    BY <2>1, <2>2 DEF SlashesDoNotMatter, Joined
  <2>3. CASE names # <<>>
    <3>1. PICK n \in Names, ns \in Seq(Names) : names = <<n>> \o ns
      <4>1. Head(names) \in Names /\ Tail(names) \in Seq(Names) /\ names = <<Head(names)>> \o Tail(names)
        BY <2>1, <2>3
      <4> QED BY <4>1
    <3>2. Clean(typed) = PathOf(<<n>> \o ns)
      BY <2>1, <2>3, <3>1 DEF Joined, PathOf
    <3>3. \A path \in {Clean(typed), Clean(typed) \o <<Slash>>, Tail(Clean(typed))} :
             SplitAbsolutePath(path) = [space |-> n, rest |-> Joined(ns)]
      BY <3>2, BelowFacts
    <3>4. \A path \in {Clean(typed), Clean(typed) \o <<Slash>>, Tail(Clean(typed))} :
             FindSpaceForPath(path, spaces) = Found(spaces, n, Joined(ns))
      BY <2>1, <3>3, FindFacts
    <3> QED BY <3>4 DEF SlashesDoNotMatter
  <2> QED BY <2>2, <2>3
<1> QED BY <1>1, TypesHold, PTL

=============================================================================
