------------------------------- MODULE DataFacts ------------------------------
(***************************************************************************)
(* Facts that the other proofs cite: induction over the natural numbers,   *)
(* stated for sets, what FlattenSeq computes and what MapThenSumSet does.  *)
(* These are defined by recursive functions, so that both their existence  *)
(* and their values need induction.                                        *)
(***************************************************************************)
EXTENDS Integers, SequencesExt, SequenceTheorems, FiniteSetTheorems, TLAPS

\* A set of natural numbers that is not empty has a least element: its initial
\* segments are finite sets, which are well-founded by inclusion.
LEMMA LeastElement ==
  ASSUME NEW T, T \subseteq Nat, T # {}
  PROVE  \E x \in T : \A y \in T : x <= y
  <1>. DEFINE R == StrictSubsetOrdering(Nat)
              U == {0 .. x : x \in T}
  <1>1. IsWellFoundedOn(R, FiniteSubsetsOf(Nat))
    BY FS_StrictSubsetOrderingWellFounded
  <1>2. U \subseteq FiniteSubsetsOf(Nat) /\ U # {}
    <2>1. \A x \in T : IsFiniteSet(0 .. x)
      BY FS_Interval
    <2>2. \A x \in T : 0 .. x \in FiniteSubsetsOf(Nat)
      BY <2>1 DEF FiniteSubsetsOf
    <2>. QED BY <2>2
  <1>3. PICK u \in U : \A v \in U : <<v, u>> \notin R
    <2>. HIDE DEF U, R
    <2>. QED BY <1>1, <1>2, WFMin
  <1>4. PICK x \in T : u = 0 .. x
    OBVIOUS
  <1>5. ASSUME NEW y \in T, y < x
        PROVE  FALSE
    <2>1. <<0 .. y, 0 .. x>> \in R
      BY <1>5 DEF StrictSubsetOrdering
    <2>. QED BY <2>1, <1>3, <1>4
  <1>. QED
    BY <1>4, <1>5

\* Induction: a set with 0 and the successor of each of its numbers has all.
LEMMA NatSetInduction ==
  ASSUME NEW T, 0 \in T, \A n \in Nat : n \in T => n + 1 \in T
  PROVE  \A n \in Nat : n \in T
  <1>. SUFFICES ASSUME Nat \ T # {} PROVE FALSE
    OBVIOUS
  <1>1. PICK x \in Nat \ T : \A y \in Nat \ T : x <= y
    BY LeastElement
  <1>2. x # 0 /\ x - 1 \in Nat
    BY <1>1
  <1>3. x - 1 \in T
    BY <1>1, <1>2
  <1>. QED
    BY <1>2, <1>3

\* A set of numbers with an upper bound has a greatest element.
LEMMA GreatestElement ==
  ASSUME NEW T, T \subseteq Nat, T # {}, NEW n \in Nat, \A x \in T : x <= n
  PROVE  \E x \in T : \A y \in T : y <= x
  <1>. DEFINE D == {n - x : x \in T}
  <1>1. D \subseteq Nat /\ D # {}
    <2>1. \A x \in T : n - x \in Nat
      OBVIOUS
    <2>. QED BY <2>1
  <1>2. PICK d \in D : \A e \in D : d <= e
    <2>. HIDE DEF D
    <2>. QED BY <1>1, LeastElement
  <1>3. PICK x \in T : d = n - x
    OBVIOUS
  <1>4. ASSUME NEW y \in T PROVE y <= x
    <2>1. d <= n - y
      BY <1>2
    <2>2. x \in Nat /\ y \in Nat
      OBVIOUS
    <2>. QED BY <1>3, <2>1, <2>2
  <1>. QED
    BY <1>4

\* Where the elements of a concatenation come from.
LEMMA ConcatElements ==
  ASSUME NEW S, NEW s \in Seq(S), NEW t \in Seq(S)
  PROVE  /\ s \o t \in Seq(S)
         /\ Len(s \o t) = Len(s) + Len(t)
         /\ \A k \in 1 .. Len(s) : (s \o t)[k] = s[k]
         /\ \A k \in 1 .. Len(t) : (s \o t)[Len(s) + k] = t[k]
  OBVIOUS

----------------------------------------------------------------------------
(* FlattenSeq. *)

\* f[i] is the concatenation of the first i sequences.
Flattens(f, ss, S) ==
  /\ f \in [1 .. Len(ss) -> Seq(S)]
  /\ \A i \in 1 .. Len(ss) : f[i] = IF i = 1 THEN ss[i] ELSE f[i - 1] \o ss[i]

LEMMA FlattensExists ==
  ASSUME NEW S, NEW ss \in Seq(Seq(S))
  PROVE  \E f : Flattens(f, ss, S)
  <1>. DEFINE Good(n, f) ==
                /\ f \in [1 .. n -> Seq(S)]
                /\ \A i \in 1 .. n : f[i] = IF i = 1 THEN ss[i] ELSE f[i - 1] \o ss[i]
              T == {n \in Nat : n <= Len(ss) => \E f : Good(n, f)}
  <1>1. 0 \in T
    <2>1. Good(0, <<>>)
      OBVIOUS
    <2>. QED BY <2>1
  <1>2. ASSUME NEW n \in Nat, n \in T
        PROVE  n + 1 \in T
    <2>0. (n + 1 <= Len(ss) => \E f : Good(n + 1, f)) => n + 1 \in T
      <3>. HIDE DEF Good
      <3>. QED OBVIOUS
    <2>. SUFFICES ASSUME n + 1 <= Len(ss)
                  PROVE  \E f : Good(n + 1, f)
      BY <2>0
    <2>1. PICK f : Good(n, f)
      <3>1. n <= Len(ss)
        BY LenProperties
      <3>. QED BY <1>2, <3>1
    <2>2. ss[n + 1] \in Seq(S)
      BY ElementOfSeq
    <2>. DEFINE g == [i \in 1 .. n + 1 |-> IF i <= n THEN f[i]
                        ELSE IF i = 1 THEN ss[i] ELSE f[n] \o ss[n + 1]]
    <2>3. g \in [1 .. n + 1 -> Seq(S)]
      <3>1. ASSUME NEW i \in 1 .. n + 1 PROVE g[i] \in Seq(S)
        <4>1. CASE i <= n
          BY <4>1, <2>1
        <4>2. CASE i > n /\ i = 1
          BY <4>2, <2>2
        <4>3. CASE i > n /\ i # 1
          <5>1. f[n] \in Seq(S)
            BY <4>3, <2>1
          <5>. QED BY <4>3, <5>1, <2>2, ConcatProperties
        <4>. QED BY <4>1, <4>2, <4>3
      <3>. QED BY <3>1
    <2>4. ASSUME NEW i \in 1 .. n + 1
          PROVE  g[i] = IF i = 1 THEN ss[i] ELSE g[i - 1] \o ss[i]
      <3>1. CASE i <= n
        <4>1. g[i] = f[i] /\ (i # 1 => g[i - 1] = f[i - 1])
          BY <3>1
        <4>2. f[i] = IF i = 1 THEN ss[i] ELSE f[i - 1] \o ss[i]
          <5>1. i \in 1 .. n
            BY <3>1
          <5>. QED BY <2>1, <5>1
        <4>. QED BY <4>1, <4>2
      <3>2. CASE i = n + 1
        <4>1. g[i] = IF i = 1 THEN ss[i] ELSE f[n] \o ss[n + 1]
          BY <3>2
        <4>2. i # 1 => g[i - 1] = f[n]
          BY <3>2
        <4>. QED BY <3>2, <4>1, <4>2
      <3>. QED BY <3>1, <3>2
    <2>. HIDE DEF g
    <2>. QED BY <2>3, <2>4
  <1>3. Len(ss) \in T
    <2>. HIDE DEF T
    <2>. QED BY <1>1, <1>2, NatSetInduction, LenProperties
  <1>. QED
    BY <1>3 DEF Flattens

\* Two such functions agree as far as their sequences do.
Agree(ss, tt) == Len(ss) <= Len(tt) /\ \A i \in 1 .. Len(ss) : ss[i] = tt[i]

LEMMA FlattensUnique ==
  ASSUME NEW S, NEW ss \in Seq(Seq(S)), NEW tt \in Seq(Seq(S)),
         NEW f, Flattens(f, ss, S), NEW g, Flattens(g, tt, S),
         Agree(ss, tt), ss # <<>>
  PROVE  f[Len(ss)] = g[Len(ss)]
  <1>. DEFINE T == {n \in Nat : n \in 1 .. Len(ss) => f[n] = g[n]}
  <1>1. 0 \in T
    OBVIOUS
  <1>2. ASSUME NEW n \in Nat, n \in T
        PROVE  n + 1 \in T
    <2>. SUFFICES ASSUME n + 1 \in 1 .. Len(ss) PROVE f[n + 1] = g[n + 1]
      OBVIOUS
    <2>1. /\ n + 1 \in 1 .. Len(ss) /\ n + 1 \in 1 .. Len(tt)
          /\ (n + 1) - 1 = n /\ ss[n + 1] = tt[n + 1]
          /\ n + 1 # 1 => n \in 1 .. Len(ss)
      BY LenProperties DEF Agree
    <2>2. f[n + 1] = IF n + 1 = 1 THEN ss[n + 1] ELSE f[n] \o ss[n + 1]
      BY <2>1 DEF Flattens
    <2>3. g[n + 1] = IF n + 1 = 1 THEN tt[n + 1] ELSE g[n] \o tt[n + 1]
      BY <2>1 DEF Flattens
    <2>. QED BY <1>2, <2>1, <2>2, <2>3
  <1>3. \A n \in Nat : n \in T
    <2>. HIDE DEF T
    <2>. QED BY <1>1, <1>2, NatSetInduction
  <1>. QED
    BY <1>3, EmptySeq

LEMMA FlattenIsLast ==
  ASSUME NEW S, NEW ss \in Seq(Seq(S)), ss # <<>>, NEW f, Flattens(f, ss, S)
  PROVE  FlattenSeq(ss) = f[Len(ss)]
  <1>. DEFINE Is(g) == g = [i \in 1 .. Len(ss) |->
                              IF i = 1 THEN ss[i] ELSE g[i - 1] \o ss[i]]
  <1>1. Is(f)
    BY DEF Flattens
  <1>2. Is(CHOOSE g : Is(g))
    BY <1>1
  <1>3. ASSUME NEW g, Is(g)
        PROVE  g[Len(ss)] = f[Len(ss)]
    <2>. DEFINE T == {n \in Nat : n \in 1 .. Len(ss) => f[n] = g[n]}
    <2>1. 0 \in T
      OBVIOUS
    <2>2. ASSUME NEW n \in Nat, n \in T
          PROVE  n + 1 \in T
      <3>. SUFFICES ASSUME n + 1 \in 1 .. Len(ss) PROVE f[n + 1] = g[n + 1]
        OBVIOUS
      <3>0. (n + 1) - 1 = n
        OBVIOUS
      <3>1. g[n + 1] = IF n + 1 = 1 THEN ss[n + 1] ELSE g[n] \o ss[n + 1]
        BY <1>3, <3>0
      <3>2. f[n + 1] = IF n + 1 = 1 THEN ss[n + 1] ELSE f[n] \o ss[n + 1]
        BY <1>1, <3>0
      <3>. QED BY <2>2, <3>1, <3>2
    <2>3. \A n \in Nat : n \in T
      <3>. HIDE DEF T
      <3>. QED BY <2>1, <2>2, NatSetInduction
    <2>. QED BY <2>3
  <1>4. FlattenSeq(ss) = (CHOOSE g : Is(g))[Len(ss)]
    BY DEF FlattenSeq
  <1>. HIDE DEF Is
  <1>. QED
    BY <1>2, <1>3, <1>4

\* The three equations by which FlattenSeq is used.
LEMMA FlattenEmpty == FlattenSeq(<<>>) = <<>>
  BY DEF FlattenSeq

LEMMA FlattenType ==
  ASSUME NEW S, NEW ss \in Seq(Seq(S))
  PROVE  FlattenSeq(ss) \in Seq(S)
  <1>1. CASE ss = <<>>
    BY <1>1, FlattenEmpty, EmptySeq
  <1>2. CASE ss # <<>>
    <2>1. PICK f : Flattens(f, ss, S)
      BY FlattensExists
    <2>2. Len(ss) \in 1 .. Len(ss)
      BY <1>2, EmptySeq
    <2>3. f[Len(ss)] \in Seq(S)
      BY <2>1, <2>2 DEF Flattens
    <2>. QED BY <1>2, <2>1, <2>3, FlattenIsLast
  <1>. QED BY <1>1, <1>2

LEMMA FlattenOne ==
  ASSUME NEW S, NEW s \in Seq(S)
  PROVE  FlattenSeq(<<s>>) = s
  <1>1. <<s>> \in Seq(Seq(S)) /\ <<s>> # <<>> /\ Len(<<s>>) = 1
    OBVIOUS
  <1>2. PICK f : Flattens(f, <<s>>, S)
    BY <1>1, FlattensExists
  <1>3. f[1] = s
    BY <1>1, <1>2 DEF Flattens
  <1>. QED
    BY <1>1, <1>2, <1>3, FlattenIsLast

LEMMA FlattenOneMore ==
  ASSUME NEW S, NEW ss \in Seq(Seq(S)), NEW tt \in Seq(Seq(S)),
         Len(tt) = Len(ss) + 1, \A i \in 1 .. Len(ss) : ss[i] = tt[i]
  PROVE  FlattenSeq(tt) = FlattenSeq(ss) \o tt[Len(tt)]
  <1>1. Len(ss) \in Nat /\ tt # <<>> /\ tt[Len(tt)] \in Seq(S)
    BY LenProperties
  <1>2. PICK g : Flattens(g, tt, S)
    BY FlattensExists
  <1>3. FlattenSeq(tt) = g[Len(tt)]
    BY <1>1, <1>2, FlattenIsLast
  <1>4. CASE ss = <<>>
    <2>1. Len(tt) = 1
      BY <1>4
    <2>2. g[1] = tt[1]
      BY <1>2, <2>1 DEF Flattens
    <2>. QED BY <1>1, <1>3, <1>4, <2>1, <2>2, FlattenEmpty, ConcatEmptySeq
  <1>5. CASE ss # <<>>
    <2>1. Len(ss) \in Nat \ {0}
      BY <1>5, EmptySeq
    <2>2. PICK f : Flattens(f, ss, S)
      BY FlattensExists
    <2>3. Agree(ss, tt)
      <3>1. Len(ss) <= Len(tt)
        BY <2>1
      <3>. QED BY <3>1 DEF Agree
    <2>4. f[Len(ss)] = g[Len(ss)]
      BY <1>2, <1>5, <2>2, <2>3, FlattensUnique
    <2>5. g[Len(tt)] = g[Len(ss)] \o tt[Len(tt)]
      <3>1. Len(tt) \in 1 .. Len(tt) /\ Len(tt) # 1 /\ Len(tt) - 1 = Len(ss)
        BY <2>1
      <3>. QED BY <1>2, <3>1 DEF Flattens
    <2>6. FlattenSeq(ss) = f[Len(ss)]
      BY <1>5, <2>2, FlattenIsLast
    <2>. QED BY <1>3, <2>1, <2>4, <2>5, <2>6
  <1>. QED BY <1>4, <1>5

LEMMA FlattenAppend ==
  ASSUME NEW S, NEW ss \in Seq(Seq(S)), NEW s \in Seq(S)
  PROVE  FlattenSeq(Append(ss, s)) = FlattenSeq(ss) \o s
  <1>1. /\ Append(ss, s) \in Seq(Seq(S)) /\ Len(Append(ss, s)) = Len(ss) + 1
        /\ \A i \in 1 .. Len(ss) : ss[i] = Append(ss, s)[i]
        /\ Append(ss, s)[Len(ss) + 1] = s
    BY AppendProperties
  <1>. QED
    BY <1>1, FlattenOneMore

LEMMA FlattenFirst ==
  ASSUME NEW S, NEW tt \in Seq(Seq(S)), tt # <<>>
  PROVE  FlattenSeq(tt) = tt[1] \o FlattenSeq(Tail(tt))
  <1>. DEFINE Upto(n) == [i \in 1 .. n + 1 |-> tt[i]]
              After(n) == [i \in 1 .. n |-> tt[i + 1]]
              Good(n) == FlattenSeq(Upto(n)) = tt[1] \o FlattenSeq(After(n))
              T == {n \in Nat : n < Len(tt) => Good(n)}
  <1>1. /\ Len(tt) \in Nat \ {0} /\ tt[1] \in Seq(S)
        /\ \A i \in 1 .. Len(tt) : tt[i] \in Seq(S)
    BY EmptySeq, LenProperties, ElementOfSeq
  <1>2. Good(0)
    <2>1. Upto(0) = <<tt[1]>> /\ After(0) = <<>>
      OBVIOUS
    <2>. HIDE DEF Upto, After
    <2>. QED BY <1>1, <2>1, FlattenOne, FlattenEmpty, ConcatEmptySeq
  <1>3. ASSUME NEW n \in Nat, NEW m \in Nat, m = n + 1, m < Len(tt), Good(n)
        PROVE  Good(m)
    <2>1. tt[m + 1] \in Seq(S)
      BY <1>1, <1>3
    <2>2. /\ Upto(n) \in Seq(Seq(S)) /\ Len(Upto(n)) = m
          /\ Upto(m) \in Seq(Seq(S)) /\ Len(Upto(m)) = m + 1
          /\ Upto(m)[m + 1] = tt[m + 1]
      BY <1>1, <1>3
    <2>3. \A i \in 1 .. m : Upto(n)[i] = Upto(m)[i]
      <3>1. \A i \in 1 .. m : i \in 1 .. m + 1 /\ i \in 1 .. n + 1
        BY <1>3
      <3>. QED BY <3>1, Zenon
    <2>4. /\ After(n) \in Seq(Seq(S)) /\ Len(After(n)) = n
          /\ After(m) \in Seq(Seq(S)) /\ Len(After(m)) = n + 1
          /\ After(m)[n + 1] = tt[m + 1]
      BY <1>1, <1>3
    <2>5. \A i \in 1 .. n : After(n)[i] = After(m)[i]
      <3>1. \A i \in 1 .. n : i \in 1 .. m
        BY <1>3
      <3>. QED BY <3>1, Zenon
    <2>6. FlattenSeq(Upto(n)) = tt[1] \o FlattenSeq(After(n))
      BY <1>3
    <2>. HIDE DEF Upto, After
    <2>7. FlattenSeq(Upto(m)) = FlattenSeq(Upto(n)) \o tt[m + 1]
      BY <2>2, <2>3, FlattenOneMore
    <2>8. FlattenSeq(After(m)) = FlattenSeq(After(n)) \o tt[m + 1]
      BY <2>4, <2>5, FlattenOneMore
    <2>9. FlattenSeq(After(n)) \in Seq(S)
      BY <2>4, FlattenType
    <2>10. (tt[1] \o FlattenSeq(After(n))) \o tt[m + 1]
             = tt[1] \o (FlattenSeq(After(n)) \o tt[m + 1])
      <3>1. PICK a \in Seq(S), b \in Seq(S), c \in Seq(S) :
              a = tt[1] /\ b = FlattenSeq(After(n)) /\ c = tt[m + 1]
        BY <1>1, <2>1, <2>9
      <3>2. (a \o b) \o c = a \o (b \o c)
        BY ConcatAssociative
      <3>. QED BY <3>1, <3>2
    <2>. QED BY <2>6, <2>7, <2>8, <2>10
  <1>4. Good(Len(tt) - 1)
    <2>. HIDE DEF Good
    <2>1. 0 \in T
      BY <1>2
    <2>2. \A n \in Nat : n \in T => n + 1 \in T
      BY <1>1, <1>3
    <2>3. Len(tt) - 1 \in Nat /\ Len(tt) - 1 < Len(tt)
      BY <1>1
    <2>4. \A n \in Nat : n \in T
      <3>. HIDE DEF T
      <3>. QED BY <2>1, <2>2, NatSetInduction
    <2>. QED BY <2>3, <2>4
  <1>5. Upto(Len(tt) - 1) = tt
    BY <1>1
  <1>6. After(Len(tt) - 1) = Tail(tt)
    <2>1. /\ Tail(tt) \in Seq(Seq(S)) /\ Len(Tail(tt)) = Len(tt) - 1
          /\ \A i \in 1 .. Len(Tail(tt)) : Tail(tt)[i] = tt[i + 1]
      BY HeadTailProperties
    <2>2. /\ After(Len(tt) - 1) \in Seq(Seq(S)) /\ Len(After(Len(tt) - 1)) = Len(tt) - 1
          /\ \A i \in 1 .. Len(tt) - 1 : After(Len(tt) - 1)[i] = tt[i + 1]
      BY <1>1
    <2>. HIDE DEF After
    <2>. QED BY <2>1, <2>2, SeqEqual
  <1>. QED BY <1>4, <1>5, <1>6

LEMMA OnlyElement ==
  ASSUME NEW S, NEW s \in Seq(S), Len(s) = 1
  PROVE  s[1] \in S /\ s = <<s[1]>>
  <1>1. s[1] \in S
    BY ElementOfSeq
  <1>2. <<s[1]>> \in Seq(S) /\ Len(<<s[1]>>) = 1 /\ <<s[1]>>[1] = s[1]
    BY <1>1
  <1>3. \A i \in 1 .. 1 : s[i] = <<s[1]>>[i]
    BY <1>2
  <1>. QED BY <1>1, <1>2, <1>3, SeqEqual

LEMMA ConcatThree ==
  ASSUME NEW S
  PROVE  \A a, b, c \in Seq(S) : (a \o b) \o c = a \o (b \o c)
  <1>. TAKE a, b, c \in Seq(S)
  <1>. QED BY ConcatAssociative

LEMMA ConcatTwo ==
  ASSUME NEW S
  PROVE  \A a, b \in Seq(S) : a \o b \in Seq(S)
  OBVIOUS

----------------------------------------------------------------------------
(* Beginnings of sequences. *)

\* A sequence cut after its n-th element.
LEMMA SplitAt ==
  ASSUME NEW S, NEW s \in Seq(S), NEW n \in 0 .. Len(s)
  PROVE  /\ SubSeq(s, 1, n) \in Seq(S) /\ Len(SubSeq(s, 1, n)) = n
         /\ SubSeq(s, n + 1, Len(s)) \in Seq(S)
         /\ Len(SubSeq(s, n + 1, Len(s))) = Len(s) - n
         /\ SubSeq(s, 1, n) \o SubSeq(s, n + 1, Len(s)) = s
  <1>1. Len(s) \in Nat /\ n \in Nat /\ n <= Len(s)
    BY LenProperties
  <1>2. SubSeq(s, 1, n) \in Seq(S) /\ Len(SubSeq(s, 1, n)) = n
    <2>1. \A i \in 1 .. n : s[i] \in S
      BY <1>1, ElementOfSeq
    <2>. QED BY <1>1, <2>1, SubSeqProperties
  <1>3. /\ SubSeq(s, n + 1, Len(s)) \in Seq(S)
        /\ Len(SubSeq(s, n + 1, Len(s))) = Len(s) - n
    <2>1. \A i \in n + 1 .. Len(s) : s[i] \in S
      BY <1>1, ElementOfSeq
    <2>. QED BY <1>1, <2>1, SubSeqProperties
  <1>4. SubSeq(s, 1, n) \o SubSeq(s, n + 1, Len(s)) = SubSeq(s, 1, Len(s))
    <2>1. 1 \in 1 .. Len(s) + 1 /\ n \in 1 - 1 .. Len(s) /\ Len(s) \in n .. Len(s)
      BY <1>1
    <2>. QED BY <2>1, ConcatAdjacentSubSeq
  <1>. QED BY <1>2, <1>3, <1>4, SubSeqFull

LEMMA PrefixOfConcat ==
  ASSUME NEW S, NEW s \in Seq(S), NEW t \in Seq(S)
  PROVE  IsPrefix(s, s \o t)
  BY DEF IsPrefix

\* A part of the second of two sequences, put after the first.
LEMMA BeginningOfThree ==
  ASSUME NEW S
  PROVE  \A x, a, b, c \in Seq(S) : IsPrefix(x \o a, (x \o (a \o b)) \o c)
  <1>1. \A a, b, c \in Seq(S) : (a \o b) \o c = a \o (b \o c)
    BY ConcatThree
  <1>2. \A a, b \in Seq(S) : a \o b \in Seq(S)
    BY ConcatTwo
  <1>3. \A s, t \in Seq(S) : IsPrefix(s, s \o t)
    BY PrefixOfConcat
  <1>. TAKE x, a, b, c \in Seq(S)
  <1>4. x \o a \in Seq(S)
    BY <1>2, Zenon
  <1>5. (x \o a) \o b = x \o (a \o b)
    BY <1>1, Zenon
  <1>6. ((x \o a) \o b) \o c = (x \o a) \o (b \o c)
    BY <1>1, <1>4, Zenon
  <1>7. b \o c \in Seq(S)
    BY <1>2, Zenon
  <1>8. IsPrefix(x \o a, (x \o a) \o (b \o c))
    BY <1>3, <1>4, <1>7, Zenon
  <1>. QED BY <1>5, <1>6, <1>8, Zenon

LEMMA BeginningOfBoth ==
  ASSUME NEW S, NEW x \in Seq(S), NEW p \in Seq(S), NEW file \in Seq(S),
         NEW r \in 0 .. Len(file), x \o p = SubSeq(file, 1, r),
         NEW n \in 0 .. Len(p)
  PROVE  IsPrefix(x \o SubSeq(p, 1, n), file)
  <1>. DEFINE a == SubSeq(p, 1, n)
              b == SubSeq(p, n + 1, Len(p))
              c == SubSeq(file, r + 1, Len(file))
  <1>1. a \in Seq(S) /\ b \in Seq(S) /\ a \o b = p
    BY SplitAt
  <1>2. c \in Seq(S) /\ SubSeq(file, 1, r) \o c = file
    BY SplitAt
  <1>. HIDE DEF a, b, c
  <1>3. file = (x \o (a \o b)) \o c
    BY <1>1, <1>2
  <1>4. IsPrefix(x \o a, (x \o (a \o b)) \o c)
    BY <1>1, <1>2, BeginningOfThree
  <1>. QED BY <1>3, <1>4 DEF a

\* Two parts of a sequence that follow each other.
LEMMA SubSeqsJoin ==
  ASSUME NEW S, NEW s \in Seq(S), NEW m \in 0 .. Len(s), NEW n \in m .. Len(s)
  PROVE  /\ SubSeq(s, m + 1, n) \in Seq(S) /\ Len(SubSeq(s, m + 1, n)) = n - m
         /\ SubSeq(s, 1, m) \o SubSeq(s, m + 1, n) = SubSeq(s, 1, n)
  <1>. DEFINE a == SubSeq(s, 1, m)
              b == SubSeq(s, m + 1, n)
              c == SubSeq(s, 1, n)
  <1>1. m \in Nat /\ n \in Nat /\ m <= n /\ n <= Len(s) /\ Len(s) \in Nat
    OBVIOUS
  <1>2. /\ a \in Seq(S) /\ Len(a) = m /\ \A i \in 1 .. m : a[i] = s[i]
        /\ c \in Seq(S) /\ Len(c) = n /\ \A i \in 1 .. n : c[i] = s[i]
    BY <1>1
  <1>3. /\ b \in Seq(S) /\ Len(b) = n - m
        /\ \A i \in 1 .. n - m : b[i] = s[m + i]
    BY <1>1
  <1>. HIDE DEF a, b, c
  <1>. PICK ab : ab = a \o b
    OBVIOUS
  <1>4. /\ ab \in Seq(S) /\ Len(ab) = Len(a) + Len(b)
        /\ \A i \in 1 .. Len(a) : ab[i] = a[i]
        /\ \A i \in 1 .. Len(b) : ab[Len(a) + i] = b[i]
    <2>1. a \in Seq(S) /\ b \in Seq(S)
      BY <1>2, <1>3
    <2>2. /\ a \o b \in Seq(S) /\ Len(a \o b) = Len(a) + Len(b)
          /\ \A i \in 1 .. Len(a) : (a \o b)[i] = a[i]
          /\ \A i \in 1 .. Len(b) : (a \o b)[Len(a) + i] = b[i]
      BY <2>1, ConcatElements
    <2>. QED BY <2>2, Zenon
  <1>5. ASSUME NEW i \in 1 .. n PROVE ab[i] = c[i]
    <2>1. CASE i <= m
      <3>1. i \in 1 .. m
        BY <1>1, <2>1
      <3>2. ab[i] = a[i]
        BY <1>2, <1>4, <3>1
      <3>. QED BY <1>2, <3>1, <3>2
    <2>2. CASE i > m
      <3>1. PICK j \in 1 .. n - m : m + j = i
        <4>1. i - m \in 1 .. n - m /\ m + (i - m) = i
          BY <1>1, <2>2
        <4>. QED BY <4>1
      <3>2. ab[i] = b[j]
        BY <1>2, <1>3, <1>4, <3>1
      <3>3. b[j] = s[i]
        BY <1>3, <3>1
      <3>. QED BY <1>2, <3>2, <3>3
    <2>3. i <= m \/ i > m
      BY <1>1
    <2>. QED BY <2>1, <2>2, <2>3
  <1>6. Len(ab) = n /\ Len(c) = n
    BY <1>1, <1>2, <1>3, <1>4
  <1>7. ab = c
    BY <1>2, <1>4, <1>5, <1>6, SeqEqual
  <1>. QED BY <1>3, <1>7 DEF a, b, c

\* A part of the first of two sequences.
LEMMA PartOfFirst ==
  ASSUME NEW S, NEW s \in Seq(S), NEW t \in Seq(S), NEW n \in 0 .. Len(s)
  PROVE  SubSeq(s \o t, 1, n) = SubSeq(s, 1, n)
  <1>1. /\ s \o t \in Seq(S) /\ Len(s \o t) = Len(s) + Len(t)
        /\ \A k \in 1 .. Len(s) : (s \o t)[k] = s[k]
    BY ConcatElements
  <1>. PICK u : u = s \o t
    OBVIOUS
  <1>2. /\ u \in Seq(S) /\ Len(s) \in Nat /\ Len(t) \in Nat /\ Len(u) = Len(s) + Len(t)
        /\ \A k \in 1 .. Len(s) : u[k] = s[k]
    BY <1>1, LenProperties
  <1>3. /\ SubSeq(s, 1, n) \in Seq(S) /\ Len(SubSeq(s, 1, n)) = n
        /\ \A i \in 1 .. n : SubSeq(s, 1, n)[i] = s[i]
    OBVIOUS
  <1>4. /\ SubSeq(u, 1, n) \in Seq(S) /\ Len(SubSeq(u, 1, n)) = n
        /\ \A i \in 1 .. n : SubSeq(u, 1, n)[i] = u[i]
    BY <1>2
  <1>5. \A i \in 1 .. n : SubSeq(u, 1, n)[i] = SubSeq(s, 1, n)[i]
    BY <1>2, <1>3, <1>4
  <1>. QED BY <1>3, <1>4, <1>5, SeqEqual

LEMMA PrefixExtends ==
  ASSUME NEW S, NEW s \in Seq(S), NEW t \in Seq(S), IsPrefix(s, t)
  PROVE  \E u \in Seq(S) : t = s \o u
  <1>1. /\ Len(s) \in Nat /\ Len(t) \in Nat /\ Len(s) <= Len(t)
        /\ \A i \in 1 .. Len(s) : s[i] = t[i]
    <2>1. Len(s) <= Len(t) /\ SubSeq(s, 1, Len(s)) = SubSeq(t, 1, Len(s))
      BY DEF IsPrefix
    <2>2. Len(s) \in Nat /\ Len(t) \in Nat
      BY LenProperties
    <2>3. ASSUME NEW i \in 1 .. Len(s)
          PROVE  s[i] = t[i]
      <3>1. SubSeq(s, 1, Len(s))[i] = s[i] /\ SubSeq(t, 1, Len(s))[i] = t[i]
        BY <2>1, <2>2
      <3>. QED BY <2>1, <3>1
    <2>. QED BY <2>1, <2>2, <2>3
  <1>. DEFINE u == SubSeq(t, Len(s) + 1, Len(t))
  <1>2. u \in Seq(S) /\ Len(u) = Len(t) - Len(s)
        /\ \A i \in 1 .. Len(u) : u[i] = t[Len(s) + i]
    BY <1>1
  <1>. HIDE DEF u
  <1>3. /\ s \o u \in Seq(S) /\ Len(s \o u) = Len(t)
        /\ \A i \in 1 .. Len(t) : (s \o u)[i] = t[i]
    <2>1. /\ s \o u \in Seq(S) /\ Len(s \o u) = Len(s) + Len(u)
          /\ \A i \in 1 .. Len(s) : (s \o u)[i] = s[i]
          /\ \A i \in 1 .. Len(u) : (s \o u)[Len(s) + i] = u[i]
      BY <1>2, ConcatElements
    <2>2. ASSUME NEW i \in 1 .. Len(t)
          PROVE  (s \o u)[i] = t[i]
      <3>1. CASE i \in 1 .. Len(s)
        BY <1>1, <2>1, <3>1
      <3>2. CASE i \notin 1 .. Len(s)
        <4>1. i - Len(s) \in 1 .. Len(u) /\ Len(s) + (i - Len(s)) = i
          BY <1>1, <1>2, <3>2
        <4>2. (s \o u)[Len(s) + (i - Len(s))] = u[i - Len(s)]
          BY <2>1, <4>1
        <4>3. u[i - Len(s)] = t[Len(s) + (i - Len(s))]
          BY <1>2, <4>1
        <4>. QED BY <4>1, <4>2, <4>3
      <3>. QED BY <3>1, <3>2
    <2>3. Len(s) + Len(u) = Len(t)
      BY <1>1, <1>2
    <2>. QED BY <2>1, <2>2, <2>3
  <1>4. t = s \o u
    BY <1>3, SeqEqual
  <1>. QED BY <1>2, <1>4

LEMMA PrefixTransitive ==
  ASSUME NEW S, NEW s \in Seq(S), NEW t \in Seq(S), NEW u \in Seq(S),
         IsPrefix(s, t), IsPrefix(t, u)
  PROVE  IsPrefix(s, u)
  <1>1. PICK v \in Seq(S) : t = s \o v
    BY PrefixExtends
  <1>2. PICK w \in Seq(S) : u = t \o w
    BY PrefixExtends
  <1>3. u = s \o (v \o w) /\ v \o w \in Seq(S)
    BY <1>1, <1>2, ConcatAssociative, ConcatProperties
  <1>. QED BY <1>3, PrefixOfConcat

\* The first sequences of several flatten to a beginning of what all do.
LEMMA FlattenPrefixes ==
  ASSUME NEW S, NEW tt \in Seq(Seq(S)), NEW k \in 0 .. Len(tt)
  PROVE  IsPrefix(FlattenSeq([i \in 1 .. k |-> tt[i]]), FlattenSeq(tt))
  <1>. DEFINE Upto(n) == [i \in 1 .. n |-> tt[i]]
              T == {n \in Nat : k + n <= Len(tt) =>
                      IsPrefix(FlattenSeq(Upto(k)), FlattenSeq(Upto(k + n)))}
  <1>1. Len(tt) \in Nat /\ k \in Nat /\ \A i \in 1 .. Len(tt) : tt[i] \in Seq(S)
    BY LenProperties, ElementOfSeq
  <1>2. ASSUME NEW n \in Nat, n <= Len(tt)
        PROVE  Upto(n) \in Seq(Seq(S)) /\ Len(Upto(n)) = n /\ FlattenSeq(Upto(n)) \in Seq(S)
    <2>1. Upto(n) \in Seq(Seq(S)) /\ Len(Upto(n)) = n
      BY <1>1, <1>2
    <2>. HIDE DEF Upto
    <2>. QED BY <2>1, FlattenType
  <1>3. 0 \in T
    <2>1. FlattenSeq(Upto(k)) \in Seq(S) /\ k + 0 = k
      BY <1>1, <1>2
    <2>2. IsPrefix(FlattenSeq(Upto(k)), FlattenSeq(Upto(k)))
      <3>. HIDE DEF Upto
      <3>. QED BY <2>1 DEF IsPrefix
    <2>. QED BY <2>1, <2>2
  <1>4. ASSUME NEW n \in Nat, n \in T
        PROVE  n + 1 \in T
    <2>. SUFFICES ASSUME k + (n + 1) <= Len(tt)
                  PROVE  IsPrefix(FlattenSeq(Upto(k)), FlattenSeq(Upto(k + (n + 1))))
      OBVIOUS
    <2>. DEFINE m == k + n
    <2>0. k + (n + 1) = m + 1 /\ m \in Nat /\ m + 1 <= Len(tt) /\ m <= Len(tt) /\ k <= Len(tt)
      BY <1>1
    <2>1. IsPrefix(FlattenSeq(Upto(k)), FlattenSeq(Upto(m)))
      BY <1>1, <1>4
    <2>. HIDE DEF m
    <2>2. tt[m + 1] \in Seq(S) /\ Upto(m + 1)[m + 1] = tt[m + 1]
      BY <1>1, <2>0
    <2>3. \A i \in 1 .. m : Upto(m)[i] = Upto(m + 1)[i]
      <3>1. \A i \in 1 .. m : i \in 1 .. m + 1
        BY <2>0
      <3>. QED BY <3>1, Zenon
    <2>4. /\ Upto(m) \in Seq(Seq(S)) /\ Len(Upto(m)) = m /\ FlattenSeq(Upto(m)) \in Seq(S)
          /\ Upto(m + 1) \in Seq(Seq(S)) /\ Len(Upto(m + 1)) = m + 1
          /\ FlattenSeq(Upto(k)) \in Seq(S) /\ FlattenSeq(Upto(m + 1)) \in Seq(S)
      BY <1>1, <1>2, <2>0
    <2>. HIDE DEF Upto, T
    <2>5. FlattenSeq(Upto(m + 1)) = FlattenSeq(Upto(m)) \o tt[m + 1]
      BY <2>2, <2>3, <2>4, FlattenOneMore
    <2>6. IsPrefix(FlattenSeq(Upto(m)), FlattenSeq(Upto(m + 1)))
      BY <2>2, <2>4, <2>5, PrefixOfConcat
    <2>. QED BY <2>0, <2>1, <2>4, <2>6, PrefixTransitive
  <1>. DEFINE n == Len(tt) - k
  <1>5. n \in T
    <2>1. n \in Nat
      BY <1>1
    <2>. HIDE DEF T, n
    <2>. QED BY <1>3, <1>4, <2>1, NatSetInduction
  <1>6. k + n = Len(tt) /\ Upto(Len(tt)) = tt
    BY <1>1
  <1>. HIDE DEF Upto, n
  <1>7. IsPrefix(FlattenSeq(Upto(k)), FlattenSeq(tt))
    BY <1>1, <1>5, <1>6
  <1>. QED BY <1>7 DEF Upto

\* The beginnings of a sequence of sequences, flattened.
LEMMA FlattenUpto ==
  ASSUME NEW S, NEW tt \in Seq(Seq(S)), NEW k \in 0 .. Len(tt)
  PROVE  LET F(n) == FlattenSeq([i \in 1 .. n |-> tt[i]])
         IN  /\ F(k) \in Seq(S)
             /\ F(0) = <<>>
             /\ IsPrefix(F(k), F(Len(tt)))
             /\ k < Len(tt) => F(k + 1) = F(k) \o tt[k + 1]
  <1>. DEFINE M(n) == [i \in 1 .. n |-> tt[i]]
              F(n) == FlattenSeq(M(n))
  <1>1. Len(tt) \in Nat /\ k \in Nat /\ k <= Len(tt)
        /\ \A i \in 1 .. Len(tt) : tt[i] \in Seq(S)
    BY LenProperties, ElementOfSeq
  <1>2. ASSUME NEW n \in 0 .. Len(tt)
        PROVE  /\ M(n) \in Seq(Seq(S)) /\ Len(M(n)) = n
               /\ \A i \in 1 .. n : M(n)[i] = tt[i]
    BY <1>1
  <1>3. M(0) = <<>> /\ M(Len(tt)) = tt
    BY <1>1
  <1>4. F(k) \in Seq(S)
    <2>. HIDE DEF M
    <2>. QED BY <1>2, FlattenType
  <1>5. F(0) = <<>>
    BY <1>3, FlattenEmpty
  <1>6. IsPrefix(F(k), F(Len(tt)))
    BY <1>3, FlattenPrefixes
  <1>7. ASSUME k < Len(tt)
        PROVE  F(k + 1) = F(k) \o tt[k + 1]
    <2>. HIDE DEF M
    <2>1. k + 1 \in 0 .. Len(tt)
      BY <1>1, <1>7
    <2>2. /\ M(k) \in Seq(Seq(S)) /\ M(k + 1) \in Seq(Seq(S))
          /\ Len(M(k + 1)) = Len(M(k)) + 1 /\ Len(M(k)) = k
      BY <1>2, <2>1
    <2>3. \A i \in 1 .. Len(M(k)) : M(k)[i] = M(k + 1)[i]
      <3>1. \A i \in 1 .. k : i \in 1 .. k + 1
        BY <1>1
      <3>. QED BY <1>2, <2>1, <2>2, <3>1
    <2>4. FlattenSeq(M(k + 1)) = FlattenSeq(M(k)) \o M(k + 1)[Len(M(k + 1))]
      BY <2>2, <2>3, FlattenOneMore
    <2>5. M(k + 1)[k + 1] = tt[k + 1]
      BY <1>1, <1>2, <2>1
    <2>. QED BY <2>2, <2>4, <2>5
  <1>. HIDE DEF M
  <1>. QED BY <1>4, <1>5, <1>6, <1>7 DEF M

----------------------------------------------------------------------------
(* Sums over finite sets, which MapThenSumSet computes one chosen element   *)
(* after another: any element may be taken first.                           *)

AnElement(s) == CHOOSE x \in s : TRUE

\* f[s] is the sum of v over s, for every subset s of S.
Sums(f, S, v) ==
  f = [s \in SUBSET S |-> IF s = {} THEN 0
                          ELSE v[AnElement(s)] + f[s \ {AnElement(s)}]]

LEMMA WithoutOne ==
  ASSUME NEW S, IsFiniteSet(S), NEW s \in SUBSET S, NEW x \in s, NEW n \in Nat,
         Cardinality(s) <= n + 1
  PROVE  /\ IsFiniteSet(s) /\ s \ {x} \in SUBSET S
         /\ Cardinality(s) \in Nat /\ Cardinality(s \ {x}) \in Nat
         /\ Cardinality(s \ {x}) = Cardinality(s) - 1
         /\ Cardinality(s \ {x}) <= n
  BY FS_Subset, FS_RemoveElement, FS_CardinalityType

LEMMA SumsExist ==
  ASSUME NEW S, IsFiniteSet(S), NEW v
  PROVE  \E f : Sums(f, S, v)
  <1>. DEFINE Sub(n) == {s \in SUBSET S : Cardinality(s) <= n}
              Rest(f, s) == IF s = {} THEN 0 ELSE v[AnElement(s)] + f[s \ {AnElement(s)}]
              Good(n, f) == f = [s \in Sub(n) |-> Rest(f, s)]
              T == {n \in Nat : \E f : Good(n, f)}
  <1>1. 0 \in T
    <2>. DEFINE f == [s \in Sub(0) |-> 0]
    <2>1. \A s \in Sub(0) : s = {}
      BY FS_Subset, FS_EmptySet, FS_CardinalityType
    <2>2. \A s \in Sub(0) : Rest(f, s) = 0
      BY <2>1
    <2>. HIDE DEF Sub, Rest
    <2>3. Good(0, f)
      BY <2>2
    <2>. QED BY <2>3
  <1>2. ASSUME NEW n \in Nat, n \in T
        PROVE  n + 1 \in T
    <2>1. PICK f : Good(n, f)
      BY <1>2
    <2>. DEFINE g == [s \in Sub(n + 1) |-> Rest(f, s)]
    <2>2. ASSUME NEW s \in Sub(n + 1), s # {}
          PROVE  g[s \ {AnElement(s)}] = f[s \ {AnElement(s)}]
      <3>. DEFINE t == s \ {AnElement(s)}
      <3>1. AnElement(s) \in s
        BY <2>2 DEF AnElement
      <3>2. t \in Sub(n) /\ t \in Sub(n + 1)
        BY <3>1, WithoutOne
      <3>. HIDE DEF Sub, Rest, t
      <3>3. g[t] = Rest(f, t) /\ f[t] = Rest(f, t)
        BY <2>1, <3>2
      <3>. QED BY <3>3 DEF t
    <2>3. \A s \in Sub(n + 1) : g[s] = Rest(g, s)
      <3>. SUFFICES ASSUME NEW s \in Sub(n + 1) PROVE g[s] = Rest(g, s)
        OBVIOUS
      <3>1. g[s] = Rest(f, s)
        OBVIOUS
      <3>. HIDE DEF g, Sub
      <3>. QED BY <3>1, <2>2
    <2>4. DOMAIN g = Sub(n + 1) /\ g = [s \in Sub(n + 1) |-> g[s]]
      OBVIOUS
    <2>. HIDE DEF g, Sub, Rest
    <2>5. Good(n + 1, g)
      BY <2>3, <2>4
    <2>. HIDE DEF Good
    <2>. QED BY <2>5
  <1>3. Cardinality(S) \in T
    <2>. HIDE DEF T
    <2>1. \A n \in Nat : n \in T
      BY <1>1, <1>2, NatSetInduction
    <2>. QED BY <2>1, FS_CardinalityType
  <1>4. PICK f : Good(Cardinality(S), f)
    BY <1>3
  <1>5. Sub(Cardinality(S)) = SUBSET S
    BY FS_Subset
  <1>6. Sums(f, S, v)
    BY <1>4, <1>5 DEF Sums
  <1>. QED BY <1>6

\* Every sum is a number, and any element may be taken from it.
LEMMA SumsRemove ==
  ASSUME NEW S, IsFiniteSet(S), NEW v, \A x \in S : v[x] \in Nat,
         NEW f, Sums(f, S, v)
  PROVE  \A s \in SUBSET S : /\ f[s] \in Nat
                             /\ \A x \in s : f[s] = v[x] + f[s \ {x}]
  <1>. DEFINE Fine(s) == f[s] \in Nat /\ \A x \in s : f[s] = v[x] + f[s \ {x}]
              T == {n \in Nat : \A s \in SUBSET S : Cardinality(s) <= n => Fine(s)}
  <1>1. \A s \in SUBSET S :
          f[s] = IF s = {} THEN 0 ELSE v[AnElement(s)] + f[s \ {AnElement(s)}]
    BY DEF Sums
  <1>0. Fine({})
    <2>1. {} \in SUBSET S
      OBVIOUS
    <2>2. f[{}] = 0
      BY <1>1, <2>1
    <2>. QED BY <2>2
  <1>2. 0 \in T
    <2>1. \A s \in SUBSET S : Cardinality(s) <= 0 => s = {}
      BY FS_Subset, FS_EmptySet, FS_CardinalityType
    <2>. HIDE DEF Fine
    <2>. QED BY <1>0, <2>1
  <1>3. ASSUME NEW n \in Nat, n \in T
        PROVE  n + 1 \in T
    <2>1. ASSUME NEW s \in SUBSET S, Cardinality(s) <= n + 1, s # {}
          PROVE  Fine(s)
      <3>. DEFINE c == AnElement(s)
      <3>1. c \in s
        BY <2>1 DEF AnElement
      <3>2. ASSUME NEW x \in s PROVE Fine(s \ {x})
        <4>1. s \ {x} \in SUBSET S /\ Cardinality(s \ {x}) <= n
          BY <2>1, WithoutOne
        <4>. HIDE DEF Fine
        <4>. QED BY <1>3, <4>1
      <3>3. f[s] = v[c] + f[s \ {c}]
        BY <1>1, <2>1
      <3>. HIDE DEF c
      <3>4. f[s] \in Nat
        <4>1. v[c] \in Nat /\ f[s \ {c}] \in Nat
          BY <3>1, <3>2
        <4>. QED BY <3>3, <4>1
      <3>5. ASSUME NEW x \in s, x # c
            PROVE  f[s] = v[x] + f[s \ {x}]
        <4>1. f[s \ {c}] = v[x] + f[(s \ {c}) \ {x}]
          BY <3>1, <3>2, <3>5
        <4>2. f[s \ {x}] = v[c] + f[(s \ {x}) \ {c}]
          BY <3>1, <3>2, <3>5
        <4>3. (s \ {c}) \ {x} = (s \ {x}) \ {c}
          OBVIOUS
        <4>. DEFINE r == f[(s \ {x}) \ {c}]
        <4>4. r \in Nat
          <5>1. (s \ {x}) \ {c} \in SUBSET S /\ Cardinality((s \ {x}) \ {c}) <= n
            <6>1. IsFiniteSet(s \ {x}) /\ Cardinality(s \ {x}) <= n /\ Cardinality(s \ {x}) \in Nat
              BY <2>1, WithoutOne, FS_RemoveElement
            <6>2. Cardinality((s \ {x}) \ {c}) <= Cardinality(s \ {x})
                  /\ Cardinality((s \ {x}) \ {c}) \in Nat
              BY <6>1, FS_Subset, FS_CardinalityType
            <6>. QED BY <6>1, <6>2
          <5>. QED BY <5>1, <1>3
        <4>5. v[x] \in Nat /\ v[c] \in Nat
          BY <3>1
        <4>. HIDE DEF r
        <4>6. f[s \ {c}] = v[x] + r /\ f[s \ {x}] = v[c] + r
          BY <4>1, <4>2, <4>3 DEF r
        <4>. QED BY <3>3, <4>4, <4>5, <4>6
      <3>. QED BY <3>3, <3>4, <3>5
    <2>. HIDE DEF Fine
    <2>. QED BY <1>0, <2>1
  <1>. HIDE DEF Fine
  <1>4. \A s \in SUBSET S : Fine(s)
    <2>1. \A n \in Nat : n \in T
      <3>. HIDE DEF T
      <3>. QED BY <1>2, <1>3, NatSetInduction
    <2>2. ASSUME NEW s \in SUBSET S PROVE Fine(s)
      <3>1. Cardinality(s) \in Nat
        BY FS_Subset, FS_CardinalityType
      <3>. QED BY <2>1, <3>1
    <2>. QED BY <2>2
  <1>. QED BY <1>4 DEF Fine

\* Sums over a set depend on the values in it only.
LEMMA SumsAgree ==
  ASSUME NEW S, IsFiniteSet(S), NEW R, IsFiniteSet(R), S \subseteq R,
         NEW u, NEW v, \A x \in S : u[x] = v[x],
         NEW f, Sums(f, S, u), NEW g, Sums(g, R, v)
  PROVE  f[S] = g[S]
  <1>. DEFINE T == {n \in Nat : \A s \in SUBSET S : Cardinality(s) <= n => f[s] = g[s]}
  <1>1. \A s \in SUBSET S :
          /\ f[s] = IF s = {} THEN 0 ELSE u[AnElement(s)] + f[s \ {AnElement(s)}]
          /\ g[s] = IF s = {} THEN 0 ELSE v[AnElement(s)] + g[s \ {AnElement(s)}]
    BY DEF Sums
  <1>2. 0 \in T
    <2>1. \A s \in SUBSET S : Cardinality(s) <= 0 => s = {}
      BY FS_Subset, FS_EmptySet, FS_CardinalityType
    <2>. QED BY <1>1, <2>1
  <1>3. ASSUME NEW n \in Nat, n \in T
        PROVE  n + 1 \in T
    <2>1. ASSUME NEW s \in SUBSET S, Cardinality(s) <= n + 1
          PROVE  f[s] = g[s]
      <3>1. CASE s = {}
        BY <1>1, <3>1
      <3>2. CASE s # {}
        <4>1. AnElement(s) \in s
          BY <3>2 DEF AnElement
        <4>2. f[s \ {AnElement(s)}] = g[s \ {AnElement(s)}]
          BY <1>3, <2>1, <4>1, WithoutOne
        <4>. QED BY <1>1, <3>2, <4>1, <4>2
      <3>. QED BY <3>1, <3>2
    <2>. QED BY <2>1
  <1>4. \A n \in Nat : n \in T
    <2>. HIDE DEF T
    <2>. QED BY <1>2, <1>3, NatSetInduction
  <1>. QED BY <1>4, FS_CardinalityType

SumOf(v, S) == (CHOOSE f : Sums(f, S, v))[S]

\* Whatever function sums v over the subsets of S has this value at S.
LEMMA SumIs ==
  ASSUME NEW S, IsFiniteSet(S), NEW u, NEW v, \A x \in S : u[x] = v[x],
         NEW f, Sums(f, S, u)
  PROVE  f[S] = SumOf(v, S)
  <1>. DEFINE g == CHOOSE g : Sums(g, S, v)
  <1>1. Sums(g, S, v)
    BY SumsExist
  <1>. HIDE DEF g
  <1>2. f[S] = g[S]
    BY <1>1, SumsAgree
  <1>. QED BY <1>2 DEF SumOf, g

LEMMA SumOfNone == \A v : SumOf(v, {}) = 0
  <1>. SUFFICES ASSUME NEW v PROVE SumOf(v, {}) = 0
    OBVIOUS
  <1>. DEFINE g == CHOOSE g : Sums(g, {}, v)
  <1>1. Sums(g, {}, v)
    BY SumsExist, FS_EmptySet
  <1>. HIDE DEF g
  <1>2. g[{}] = 0
    BY <1>1 DEF Sums
  <1>. QED BY <1>2 DEF SumOf, g

\* One element more adds its value.
LEMMA SumOfOneMore ==
  ASSUME NEW S, IsFiniteSet(S), NEW x, x \notin S,
         NEW v, \A y \in S \cup {x} : v[y] \in Nat,
         NEW u, \A y \in S : u[y] = v[y]
  PROVE  SumOf(u, S) \in Nat /\ SumOf(v, S \cup {x}) = v[x] + SumOf(u, S)
  <1>. DEFINE R == S \cup {x}
              g == CHOOSE g : Sums(g, R, v)
              f == CHOOSE f : Sums(f, S, u)
  <1>1. IsFiniteSet(R)
    BY FS_AddElement
  <1>2. Sums(g, R, v) /\ Sums(f, S, u)
    BY <1>1, SumsExist
  <1>3. SumOf(v, R) = g[R] /\ SumOf(u, S) = f[S]
    BY DEF SumOf
  <1>. HIDE DEF f, g
  <1>4. f[S] = g[S]
    BY <1>1, <1>2, SumsAgree
  <1>5. \A s \in SUBSET R : g[s] \in Nat /\ \A y \in s : g[s] = v[y] + g[s \ {y}]
    BY <1>1, <1>2, SumsRemove
  <1>6. R \ {x} = S /\ x \in R /\ R \in SUBSET R /\ S \in SUBSET R
    OBVIOUS
  <1>7. g[R] = v[x] + g[S] /\ g[S] \in Nat
    BY <1>5, <1>6
  <1>. QED BY <1>3, <1>4, <1>7
=============================================================================
