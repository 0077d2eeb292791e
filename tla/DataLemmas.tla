----------------------------- MODULE DataLemmas -----------------------------
(***************************************************************************)
(* Facts about numbers, functions and sequences that the proofs of several *)
(* components need: the least element of a set of numbers, which stands    *)
(* for induction; that a recursive function exists; prefixes of sequences. *)
(***************************************************************************)
EXTENDS Integers, SequencesExt, FiniteSetTheorems, SequenceTheorems,
        WellFoundedInduction, NaturalsInduction, TLAPS

-----------------------------------------------------------------------------
(* Induction.                                                               *)

Smaller == {p \in Nat \X Nat : p[1] < p[2]}

LEMMA SmallerIsWellFounded == IsWellFoundedOn(Smaller, Nat)
  BY NatLessThanWellFounded DEF OpToRel, Smaller

\* A set of numbers has a least one.  A claim about every number follows when the least
\* number for which it is false cannot exist.
LEMMA Least ==
  ASSUME NEW S \in SUBSET Nat, S # {}
  PROVE  \E n \in S : \A m \in S : n =< m
<1>1. PICK n \in S : \A m \in S : ~(<<m, n>> \in Smaller)
  BY SmallerIsWellFounded, WFMin, Zenon
<1>2. ASSUME NEW m \in S
      PROVE  n =< m
  <2>1. m \in Nat /\ n \in Nat
    OBVIOUS
  <2>2. <<m, n>> \in Nat \X Nat
    BY <2>1
  <2>3. ~(<<m, n>> \in Smaller)
    BY <1>1
  <2>4. <<m, n>>[1] = m /\ <<m, n>>[2] = n
    OBVIOUS
  <2>5. ~(m < n)
    BY <2>2, <2>3, <2>4, Zenon DEF Smaller
  <2> QED BY <2>1, <2>5
<1> QED BY <1>2

\* Induction for a set.
LEMMA InductiveSet ==
  ASSUME NEW S, 0 \in S, \A n \in Nat : n \in S => n + 1 \in S
  PROVE  Nat \subseteq S
<1> DEFINE T == {n \in Nat : n \notin S}
<1>1. SUFFICES ASSUME T # {} PROVE FALSE
  OBVIOUS
<1>2. PICK n \in T : \A m \in T : n =< m
  BY <1>1, Least, T \in SUBSET Nat
<1>3. n # 0 /\ n \in Nat
  OBVIOUS
<1>4. n - 1 \in Nat /\ n - 1 \notin T
  BY <1>2, <1>3
<1>5. n - 1 + 1 \in S
  BY <1>4
<1>6. n \in S
  BY <1>3, <1>5
<1> QED BY <1>6

\* g is x and what the step function F makes of it in k steps.
Iterates(g, x, F, k) == g[0] = x /\ \A n \in 1..k : g[n] = F[<<n, g[n - 1]>>]

\* There is such a g.
LEMMA Iteration ==
  ASSUME NEW S, NEW x \in S, NEW F \in [Nat \X S -> S], NEW k \in Nat
  PROVE  \E g \in [0..k -> S] : Iterates(g, x, F, k)
<1> DEFINE Good(g, n) == g[0] = x /\ \A i \in 1..n : g[i] = F[<<i, g[i - 1]>>]
           T == {n \in Nat : \E g \in [0..n -> S] : Good(g, n)}
<1>1. 0 \in T
  <2>1. [i \in 0..0 |-> x] \in [0..0 -> S] /\ Good([i \in 0..0 |-> x], 0)
    OBVIOUS
  <2> QED BY <2>1
<1>2. ASSUME NEW n \in Nat, n \in T
      PROVE  n + 1 \in T
  <2>1. PICK g \in [0..n -> S] : Good(g, n)
    BY <1>2
  <2> DEFINE h == [i \in 0..(n + 1) |-> IF i = n + 1 THEN F[<<n + 1, g[n]>>] ELSE g[i]]
  <2>2. g[n] \in S /\ <<n + 1, g[n]>> \in Nat \X S
    OBVIOUS
  <2>3. F[<<n + 1, g[n]>>] \in S
    BY <2>2
  <2>4. h \in [0..(n + 1) -> S]
    BY <2>3
  <2>5. h[0] = x
    BY <2>1
  <2>6. ASSUME NEW i \in 1..(n + 1)
        PROVE  h[i] = F[<<i, h[i - 1]>>]
    <3>1. i - 1 \in 0..n /\ h[i - 1] = g[i - 1]
      OBVIOUS
    <3>2. CASE i = n + 1
      <4>1. h[i] = F[<<n + 1, g[n]>>]
        BY <3>2
      <4>2. h[i - 1] = g[n]
        BY <3>1, <3>2
      <4> QED BY <4>1, <4>2, <3>2
    <3>3. CASE i # n + 1
      <4>1. i \in 1..n /\ h[i] = g[i]
        BY <3>3
      <4> QED BY <2>1, <3>1, <4>1
    <3> QED BY <3>2, <3>3
  <2>7. Good(h, n + 1)
    BY <2>5, <2>6
  <2> HIDE DEF h, Good
  <2> QED BY <2>4, <2>7
<1> HIDE DEF T
<1>3. k \in T
  BY <1>1, <1>2, InductiveSet
<1> QED BY <1>3 DEF T, Iterates

-----------------------------------------------------------------------------
(* Prefixes.                                                                *)

\* A prefix, by its elements.
LEMMA PrefixElements ==
  ASSUME NEW S, NEW s \in Seq(S), NEW t \in Seq(S)
  PROVE  IsPrefix(s, t) <=> Len(s) =< Len(t) /\ \A i \in 1..Len(s) : s[i] = t[i]
<1>1. CASE Len(s) =< Len(t)
  <2> DEFINE a == SubSeq(s, 1, Len(s))
             b == SubSeq(t, 1, Len(s))
  <2>1. a \in Seq(S) /\ Len(a) = Len(s) /\ \A i \in 1..Len(s) : a[i] = s[i]
    BY SubSeqProperties
  <2>2. b \in Seq(S) /\ Len(b) = Len(s) /\ \A i \in 1..Len(s) : b[i] = t[i]
    BY <1>1, SubSeqProperties
  <2> HIDE DEF a, b
  <2>3. a = b <=> \A i \in 1..Len(s) : s[i] = t[i]
    BY <2>1, <2>2, SeqEqual
  <2> QED BY <1>1, <2>3 DEF IsPrefix, a, b
<1>2. CASE ~(Len(s) =< Len(t))
  BY <1>2 DEF IsPrefix
<1> QED BY <1>1, <1>2

LEMMA PrefixReflexive ==
  ASSUME NEW S, NEW s \in Seq(S)
  PROVE  IsPrefix(s, s)
BY PrefixElements

LEMMA PrefixTransitive ==
  ASSUME NEW S, NEW s \in Seq(S), NEW t \in Seq(S), NEW u \in Seq(S),
         IsPrefix(s, t), IsPrefix(t, u)
  PROVE  IsPrefix(s, u)
<1>1. Len(s) =< Len(t) /\ \A i \in 1..Len(s) : s[i] = t[i]
  BY PrefixElements
<1>2. Len(t) =< Len(u) /\ \A i \in 1..Len(t) : t[i] = u[i]
  BY PrefixElements
<1>3. Len(s) \in Nat /\ Len(t) \in Nat /\ Len(u) \in Nat
  OBVIOUS
<1>4. Len(s) =< Len(u) /\ \A i \in 1..Len(s) : s[i] = u[i]
  BY <1>1, <1>2, <1>3
<1> QED BY <1>4, PrefixElements

\* Of two prefixes of one sequence the shorter is a prefix of the longer.
LEMMA PrefixesCompare ==
  ASSUME NEW S, NEW s \in Seq(S), NEW t \in Seq(S), NEW u \in Seq(S),
         IsPrefix(s, u), IsPrefix(t, u)
  PROVE  IsPrefix(s, t) \/ IsStrictPrefix(t, s)
<1>1. Len(s) =< Len(u) /\ \A i \in 1..Len(s) : s[i] = u[i]
  BY PrefixElements
<1>2. Len(t) =< Len(u) /\ \A i \in 1..Len(t) : t[i] = u[i]
  BY PrefixElements
<1>3. Len(s) \in Nat /\ Len(t) \in Nat /\ Len(u) \in Nat
  OBVIOUS
<1>4. CASE Len(s) =< Len(t)
  <2>1. \A i \in 1..Len(s) : s[i] = t[i]
    BY <1>1, <1>2, <1>3, <1>4
  <2> QED BY <2>1, <1>4, PrefixElements
<1>5. CASE Len(t) < Len(s)
  <2>1. Len(t) =< Len(s) /\ \A i \in 1..Len(t) : t[i] = s[i]
    BY <1>1, <1>2, <1>3, <1>5
  <2>2. IsPrefix(t, s)
    BY <2>1, PrefixElements
  <2> QED BY <2>2, <1>3, <1>5 DEF IsStrictPrefix
<1> QED BY <1>3, <1>4, <1>5

-----------------------------------------------------------------------------
(* Sequences of the elements of a set.                                      *)

\* Every order of a finite set is a sequence of exactly its elements.
LEMMA OrderOfSet ==
  ASSUME NEW S, IsFiniteSet(S), NEW s \in SetToSeqs(S)
  PROVE  s \in Seq(S) /\ ToSet(s) = S
<1> DEFINE n == Cardinality(S)
<1>1. n \in Nat
  BY FS_CardinalityType
<1>2. s \in [1..n -> S] /\ \A i, j \in 1..n : i # j => s[i] # s[j]
  BY DEF SetToSeqs
<1>3. IsFiniteSet(1..n) /\ Cardinality(1..n) = n
  BY <1>1, FS_Interval
<1>4. Cardinality(1..n) = Cardinality(S)
  BY <1>3
<1>5. s \in Seq(S)
  BY <1>1, <1>2
<1> HIDE DEF n
<1>6. s \in Injection(1..n, S)
  BY <1>2 DEF Injection, IsInjective
<1>7. s \in Surjection(1..n, S)
  BY <1>6, <1>4, FS_Injection
<1>8. ToSet(s) = S
  BY <1>2, <1>7 DEF ToSet, Surjection
<1> QED BY <1>5, <1>8

LEMMA ChosenOrder ==
  ASSUME NEW S, IsFiniteSet(S)
  PROVE  SetToSeq(S) \in Seq(S) /\ ToSet(SetToSeq(S)) = S
<1> DEFINE n == Cardinality(S)
<1>1. \E f \in [1..n -> S] : IsInjective(f)
  BY FS_CardinalityType DEF ExistsBijection, Bijection, Injection
<1>2. SetToSeq(S) \in [1..n -> S] /\ IsInjective(SetToSeq(S))
  BY <1>1 DEF SetToSeq
<1>3. SetToSeq(S) \in SetToSeqs(S)
  BY <1>2 DEF SetToSeqs, IsInjective
<1> QED BY <1>3, OrderOfSet

\* A finite set has a finite image.
LEMMA FiniteImage ==
  ASSUME NEW S, IsFiniteSet(S), NEW f, f = [x \in S |-> f[x]]
  PROVE  IsFiniteSet({f[x] : x \in S})
<1> DEFINE T == {f[x] : x \in S}
<1>1. f \in [S -> T] /\ \A y \in T : \E x \in S : f[x] = y
  OBVIOUS
<1> HIDE DEF T
<1>2. f \in Surjection(S, T)
  BY <1>1 DEF Surjection
<1>3. IsFiniteSet(T)
  BY <1>2, FS_Surjection
<1> QED BY <1>3 DEF T
=============================================================================
