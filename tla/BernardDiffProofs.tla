--------------------------- MODULE BernardDiffProofs ---------------------------
(***************************************************************************)
(* Theorems about BernardDiff, for every drive: the ways up a tree, that   *)
(* every change of a drive leaves a tree, and that the folders of a diff   *)
(* cover every folder in which a file came, went or took another name.     *)
(***************************************************************************)
EXTENDS BernardDiff, DataLemmas

Node == Item \cup {Top, NoItem}

Tables == [Item -> Record \cup {NoItem}]

-----------------------------------------------------------------------------
(* The way up from an item.                                                 *)

LEMMA DepthType == Depth \in Nat /\ Depth - 1 = Cardinality(DriveFolder) /\ Depth >= 1
  BY BernardDiffAssumption, FS_CardinalityType DEF Depth

LEMMA ParentType ==
  ASSUME NEW t \in Tables, NEW i \in Node
  PROVE  /\ ParentIn(t, i) \in DriveFolder \cup {Top, NoItem} \/ ParentIn(t, i) = i
         /\ ParentIn(t, i) \in Node
         /\ i \in Item /\ t[i] # NoItem => ParentIn(t, i) = t[i].parent
         /\ ParentIn(t, Top) = Top
<1>1. CASE i \in {Top, NoItem}
  BY <1>1, BernardDiffAssumption DEF ParentIn, Node
<1>2. CASE i \notin {Top, NoItem}
  <2>1. i \in Item /\ t[i] \in Record \cup {NoItem}
    BY <1>2 DEF Node, Tables
  <2>2. CASE t[i] = NoItem
    BY <1>2, <2>2 DEF ParentIn, Node
  <2>3. CASE t[i] # NoItem
    <3>1. t[i].parent \in DriveFolder \cup {Top}
      BY <2>1, <2>3 DEF Record
    <3> QED BY <1>2, <2>3, <3>1 DEF ParentIn, Node, Item
  <2> QED BY <2>2, <2>3
<1> QED BY <1>1, <1>2

\* The equation of Up, which is a recursive function.
LEMMA UpEquation ==
  ASSUME NEW t \in Tables, NEW i \in Node
  PROVE  /\ Up(t, i) \in [0..Depth -> Node]
         /\ Up(t, i)[0] = i
         /\ \A n \in 1..Depth : Up(t, i)[n] = ParentIn(t, Up(t, i)[n - 1])
<1> DEFINE F == [p \in Nat \X Node |-> ParentIn(t, p[2])]
           Is(g) == g = [n \in 0..Depth |-> IF n = 0 THEN i ELSE ParentIn(t, g[n - 1])]
<1>1. Depth \in Nat
  BY DepthType
<1>2. F \in [Nat \X Node -> Node]
  <2>1. ASSUME NEW p \in Nat \X Node
        PROVE  ParentIn(t, p[2]) \in Node
    BY ParentType
  <2> QED BY <2>1
<1>3. \A n \in Nat : \A j \in Node : F[<<n, j>>] = ParentIn(t, j)
  OBVIOUS
<1> HIDE DEF F
<1>4. PICK g \in [0..Depth -> Node] : Iterates(g, i, F, Depth)
  BY <1>1, <1>2, Iteration
<1>5. \A n \in 1..Depth : n \in Nat /\ n - 1 \in 0..Depth /\ g[n - 1] \in Node
  BY <1>1
<1>6. g[0] = i /\ \A n \in 1..Depth : g[n] = ParentIn(t, g[n - 1])
  BY <1>3, <1>4, <1>5 DEF Iterates
<1>7. Is(g)
  BY <1>1, <1>6
<1>8. Up(t, i) = CHOOSE h : Is(h)
  BY DEF Up
<1>9. Is(Up(t, i))
  BY <1>7, <1>8
<1>10. Up(t, i)[0] = i /\ \A n \in 1..Depth : Up(t, i)[n] = ParentIn(t, Up(t, i)[n - 1])
  BY <1>1, <1>9
<1> DEFINE T == {n \in Nat : n \in 0..Depth => Up(t, i)[n] \in Node}
<1>11. 0 \in T
  BY <1>10
<1>12. ASSUME NEW n \in Nat, n \in T
       PROVE  n + 1 \in T
  <2>1. CASE n + 1 \in 0..Depth
    <3>1. n \in 0..Depth /\ n + 1 \in 1..Depth /\ n + 1 - 1 = n
      BY <1>1, <2>1
    <3>2. Up(t, i)[n] \in Node /\ Up(t, i)[n + 1] = ParentIn(t, Up(t, i)[n])
      BY <1>10, <1>12, <3>1
    <3> QED BY <3>2, ParentType
  <2> QED BY <2>1
<1> HIDE DEF T
<1>13. Nat \subseteq T
  BY <1>11, <1>12, InductiveSet
<1>14. \A n \in 0..Depth : Up(t, i)[n] \in Node
  BY <1>1, <1>13 DEF T
<1> QED BY <1>9, <1>10, <1>14

\* Everything above an item is a folder, or the top, or unknown; above the top is the top.
LEMMA UpTypes ==
  ASSUME NEW t \in Tables, NEW i \in Node, NEW n \in 1..Depth
  PROVE  /\ Up(t, i)[n - 1] \in Node /\ Up(t, i)[n] \in Node
         /\ Up(t, i)[n] \in DriveFolder \cup {Top, NoItem} \/ Up(t, i)[n] = Up(t, i)[n - 1]
         /\ Up(t, i)[n - 1] = Top => Up(t, i)[n] = Top
<1>1. n - 1 \in 0..Depth /\ n \in 0..Depth
  BY DepthType
<1>2. Up(t, i)[n - 1] \in Node /\ Up(t, i)[n] \in Node
  BY <1>1, UpEquation
<1>3. Up(t, i)[n] = ParentIn(t, Up(t, i)[n - 1])
  BY UpEquation
<1> QED BY <1>2, <1>3, ParentType

\* The top is not left.
LEMMA UpStaysAtTop ==
  ASSUME NEW t \in Tables, NEW i \in Node, NEW n \in 0..Depth, Up(t, i)[n] = Top
  PROVE  \A m \in n..Depth : Up(t, i)[m] = Top
<1> DEFINE T == {k \in Nat : n + k \in 0..Depth => Up(t, i)[n + k] = Top}
<1>1. Depth \in Nat /\ n \in Nat
  BY DepthType
<1>2. 0 \in T
  BY <1>1
<1>3. ASSUME NEW k \in Nat, k \in T
      PROVE  k + 1 \in T
  <2>1. CASE n + (k + 1) \in 0..Depth
    <3>1. n + k \in 0..Depth /\ n + (k + 1) \in 1..Depth /\ n + (k + 1) - 1 = n + k
      BY <1>1, <2>1
    <3>2. Up(t, i)[n + k] = Top
      BY <1>3, <3>1
    <3>3. Up(t, i)[n + (k + 1)] = Top
      BY <3>1, <3>2, UpTypes
    <3> QED BY <3>3
  <2> QED BY <2>1
<1> HIDE DEF T
<1>4. Nat \subseteq T
  BY <1>2, <1>3, InductiveSet
<1>5. ASSUME NEW m \in n..Depth
      PROVE  Up(t, i)[m] = Top
  <2>1. m - n \in Nat /\ n + (m - n) = m /\ m \in 0..Depth
    BY <1>1
  <2> QED BY <1>4, <2>1 DEF T
<1> QED BY <1>5

\* The way from a node of a way is the rest of that way.
LEMMA UpFrom ==
  ASSUME NEW t \in Tables, NEW i \in Node, NEW k \in 0..Depth
  PROVE  \A n \in 0..(Depth - k) : Up(t, Up(t, i)[k])[n] = Up(t, i)[k + n]
<1> DEFINE j == Up(t, i)[k]
           T == {n \in Nat : n \in 0..(Depth - k) => Up(t, j)[n] = Up(t, i)[k + n]}
<1>1. Depth \in Nat /\ k \in Nat /\ k =< Depth
  BY DepthType
<1>2. j \in Node
  BY <1>1, UpEquation
<1> HIDE DEF j
<1>3. 0 \in T
  <2>1. Up(t, j)[0] = j
    BY <1>2, UpEquation
  <2> QED BY <1>1, <2>1 DEF j
<1>4. ASSUME NEW n \in Nat, n \in T
      PROVE  n + 1 \in T
  <2>1. CASE n + 1 \in 0..(Depth - k)
    <3>1. /\ n \in 0..(Depth - k) /\ n + 1 \in 1..Depth /\ n + 1 - 1 = n
          /\ k + (n + 1) \in 1..Depth /\ k + (n + 1) - 1 = k + n
      BY <1>1, <2>1
    <3>2. Up(t, j)[n] = Up(t, i)[k + n]
      BY <1>4, <3>1
    <3>3. Up(t, j)[n + 1] = ParentIn(t, Up(t, j)[n])
      BY <1>2, <3>1, UpEquation
    <3>4. Up(t, i)[k + (n + 1)] = ParentIn(t, Up(t, i)[k + n])
      BY <3>1, UpEquation
    <3> QED BY <3>2, <3>3, <3>4
  <2> QED BY <2>1
<1> HIDE DEF T
<1>5. Nat \subseteq T
  BY <1>3, <1>4, InductiveSet
<1>6. ASSUME NEW n \in 0..(Depth - k)
      PROVE  Up(t, j)[n] = Up(t, i)[k + n]
  BY <1>1, <1>5 DEF T
<1> QED BY <1>6 DEF j

-----------------------------------------------------------------------------
(* Heights and paths.                                                       *)

\* How far below the top an item is.
Height(t, i) ==
  CHOOSE n \in 0..Depth : Up(t, i)[n] = Top /\ \A m \in 0..(n - 1) : Up(t, i)[m] # Top

LEMMA HeightType ==
  ASSUME NEW t \in Tables, NEW i \in Node, Up(t, i)[Depth] = Top
  PROVE  /\ Height(t, i) \in 0..Depth
         /\ Up(t, i)[Height(t, i)] = Top
         /\ \A m \in 0..(Height(t, i) - 1) : Up(t, i)[m] # Top
<1> DEFINE S == {n \in 0..Depth : Up(t, i)[n] = Top}
<1>1. Depth \in Nat
  BY DepthType
<1>2. Depth \in S /\ S \in SUBSET Nat
  BY <1>1
<1>3. PICK n \in S : \A m \in S : n =< m
  BY <1>2, Least
<1>4. \A m \in 0..(n - 1) : Up(t, i)[m] # Top
  <2> SUFFICES ASSUME NEW m \in 0..(n - 1), Up(t, i)[m] = Top
               PROVE  FALSE
    OBVIOUS
  <2>1. m \in S /\ m < n
    BY <1>1
  <2> QED BY <1>1, <1>3, <2>1
<1>5. \E k \in 0..Depth : Up(t, i)[k] = Top /\ \A m \in 0..(k - 1) : Up(t, i)[m] # Top
  BY <1>3, <1>4
<1> QED BY <1>5 DEF Height

\* The height is the only such number.
LEMMA HeightUnique ==
  ASSUME NEW t \in Tables, NEW i \in Node, Up(t, i)[Depth] = Top,
         NEW h \in 0..Depth, Up(t, i)[h] = Top, \A m \in 0..(h - 1) : Up(t, i)[m] # Top
  PROVE  Height(t, i) = h
<1> DEFINE k == Height(t, i)
<1>1. k \in 0..Depth /\ Up(t, i)[k] = Top /\ \A m \in 0..(k - 1) : Up(t, i)[m] # Top
  BY HeightType
<1> HIDE DEF k
<1>2. Depth \in Nat
  BY DepthType
<1>3. ~(k < h) /\ ~(h < k)
  <2>1. k < h => k \in 0..(h - 1)
    BY <1>1, <1>2
  <2>2. h < k => h \in 0..(k - 1)
    BY <1>1, <1>2
  <2> QED BY <1>1, <2>1, <2>2
<1> QED BY <1>1, <1>2, <1>3 DEF k

LEMMA PathByHeight ==
  ASSUME NEW t, NEW i
  PROVE  PathOf(t, i) = [k \in 1..Height(t, i) |-> t[Up(t, i)[Height(t, i) - k]].name]
BY DEF PathOf, Height

\* A node on the way up: its own way ends at the top, and it is that much higher.
LEMMA HeightFrom ==
  ASSUME NEW t \in Tables, NEW i \in Node, Up(t, i)[Depth] = Top, NEW k \in 0..Height(t, i)
  PROVE  /\ Up(t, i)[k] \in Node
         /\ Up(t, Up(t, i)[k])[Depth] = Top
         /\ Height(t, Up(t, i)[k]) = Height(t, i) - k
         /\ \A n \in 0..(Height(t, i) - k) : Up(t, Up(t, i)[k])[n] = Up(t, i)[k + n]
<1> DEFINE h == Height(t, i)
           j == Up(t, i)[k]
<1>1. h \in 0..Depth /\ Up(t, i)[h] = Top /\ \A m \in 0..(h - 1) : Up(t, i)[m] # Top
  BY HeightType
<1> HIDE DEF h
<1>2. Depth \in Nat /\ h \in Nat /\ k \in 0..Depth /\ k =< h
  BY <1>1, DepthType DEF h
<1>3. j \in Node
  BY <1>2, UpEquation
<1>4. \A n \in 0..(Depth - k) : Up(t, j)[n] = Up(t, i)[k + n]
  BY <1>2, UpFrom
<1> HIDE DEF j
<1>5. \A n \in 0..(h - k) : n \in 0..(Depth - k) /\ n \in 0..Depth
  BY <1>1, <1>2
<1>6. h - k \in 0..(h - k) /\ k + (h - k) = h
  BY <1>1, <1>2
<1>7. Up(t, j)[h - k] = Top
  BY <1>1, <1>4, <1>5, <1>6
<1>8. Up(t, j)[Depth] = Top
  <2>1. h - k \in 0..Depth /\ Depth \in (h - k)..Depth
    BY <1>1, <1>2
  <2> QED BY <1>3, <1>7, <2>1, UpStaysAtTop
<1>9. \A m \in 0..((h - k) - 1) : Up(t, j)[m] # Top
  <2> SUFFICES ASSUME NEW m \in 0..((h - k) - 1)
               PROVE  Up(t, j)[m] # Top
    OBVIOUS
  <2>1. m \in 0..(Depth - k) /\ k + m \in 0..(h - 1)
    BY <1>1, <1>2
  <2> QED BY <1>1, <1>4, <2>1
<1>10. Height(t, j) = h - k
  <2>1. h - k \in 0..Depth
    BY <1>1, <1>2
  <2> QED BY <1>3, <1>7, <1>8, <1>9, <2>1, HeightUnique
<1> QED BY <1>3, <1>4, <1>5, <1>8, <1>10 DEF h, j

\* The names on the way, from the top.
LEMMA PathType ==
  ASSUME NEW t \in Tables, NEW i \in Node, Up(t, i)[Depth] = Top, NEW S,
         \A n \in 0..(Height(t, i) - 1) : t[Up(t, i)[n]].name \in S
  PROVE  PathOf(t, i) \in [1..Height(t, i) -> S] /\ PathOf(t, i) \in Seq(S)
<1> DEFINE h == Height(t, i)
<1>1. h \in Nat
  BY HeightType, DepthType
<1>2. \A k \in 1..h : h - k \in 0..(h - 1)
  BY <1>1
<1> HIDE DEF h
<1>3. PathOf(t, i) = [k \in 1..h |-> t[Up(t, i)[h - k]].name]
  BY PathByHeight DEF h
<1>4. PathOf(t, i) \in [1..h -> S]
  BY <1>2, <1>3 DEF h
<1> QED BY <1>1, <1>4 DEF h

\* The path of a node on the way up is a prefix of the path.
LEMMA PathPrefix ==
  ASSUME NEW t \in Tables, NEW i \in Node, Up(t, i)[Depth] = Top, NEW k \in 0..Height(t, i),
         NEW S, \A n \in 0..(Height(t, i) - 1) : t[Up(t, i)[n]].name \in S
  PROVE  PathOf(t, Up(t, i)[k]) \in Seq(S) /\ IsPrefix(PathOf(t, Up(t, i)[k]), PathOf(t, i))
<1> DEFINE h == Height(t, i)
           j == Up(t, i)[k]
<1>1. h \in Nat /\ k \in Nat /\ k =< h
  BY HeightType, DepthType
<1>2. /\ j \in Node /\ Up(t, j)[Depth] = Top /\ Height(t, j) = h - k
      /\ \A n \in 0..(h - k) : Up(t, j)[n] = Up(t, i)[k + n]
  BY HeightFrom
<1>3. \A n \in 0..(h - 1) : t[Up(t, i)[n]].name \in S
  OBVIOUS
<1> HIDE DEF h, j
<1>4. \A n \in 0..((h - k) - 1) : t[Up(t, j)[n]].name \in S
  <2> SUFFICES ASSUME NEW n \in 0..((h - k) - 1)
               PROVE  t[Up(t, j)[n]].name \in S
    OBVIOUS
  <2>1. n \in 0..(h - k) /\ k + n \in 0..(h - 1)
    BY <1>1
  <2> QED BY <1>2, <1>3, <2>1
<1>5. PathOf(t, j) \in [1..(h - k) -> S] /\ PathOf(t, j) \in Seq(S)
  BY <1>2, <1>4, PathType
<1>6. PathOf(t, i) \in [1..h -> S] /\ PathOf(t, i) \in Seq(S)
  BY PathType DEF h
<1>7. ASSUME NEW m \in 1..(h - k)
      PROVE  PathOf(t, j)[m] = PathOf(t, i)[m]
  <2>1. PathOf(t, j)[m] = t[Up(t, j)[(h - k) - m]].name
    BY <1>2, PathByHeight
  <2>2. m \in 1..h /\ (h - k) - m \in 0..(h - k) /\ k + ((h - k) - m) = h - m
    BY <1>1
  <2>3. PathOf(t, i)[m] = t[Up(t, i)[h - m]].name
    BY <2>2, PathByHeight DEF h
  <2> QED BY <1>2, <2>1, <2>2, <2>3
<1>8. Len(PathOf(t, j)) = h - k /\ Len(PathOf(t, i)) = h
  BY <1>1, <1>5, <1>6
<1>9. IsPrefix(PathOf(t, j), PathOf(t, i))
  <2>1. Len(PathOf(t, j)) =< Len(PathOf(t, i))
    BY <1>1, <1>8
  <2> QED BY <1>5, <1>6, <1>7, <1>8, <2>1, PrefixElements
<1> QED BY <1>5, <1>9 DEF j

\* The nodes below the top on the way up from i, i itself included.
Way(t, i) == {Up(t, i)[n] : n \in 0..(Height(t, i) - 1)}

\* Two trees that agree on parent and name of the first nodes of a way have the same way.
SameRecord(t, u, j) ==
  /\ t[j] # NoItem /\ u[j] # NoItem
  /\ t[j].parent = u[j].parent /\ t[j].name = u[j].name

LEMMA SameSteps ==
  ASSUME NEW t \in Tables, NEW u \in Tables, NEW i \in Node, NEW k \in 0..Depth,
         \A n \in 0..(k - 1) : Up(t, i)[n] \in Item /\ SameRecord(t, u, Up(t, i)[n])
  PROVE  \A n \in 0..k : Up(u, i)[n] = Up(t, i)[n]
<1> DEFINE T == {n \in Nat : n \in 0..k => Up(u, i)[n] = Up(t, i)[n]}
<1>1. Depth \in Nat /\ k \in Nat /\ k =< Depth
  BY DepthType
<1>2. 0 \in T
  <2>1. Up(u, i)[0] = i /\ Up(t, i)[0] = i
    BY UpEquation
  <2> QED BY <2>1
<1>3. ASSUME NEW n \in Nat, n \in T
      PROVE  n + 1 \in T
  <2>1. CASE n + 1 \in 0..k
    <3>1. n \in 0..k /\ n \in 0..(k - 1) /\ n + 1 \in 1..Depth /\ n + 1 - 1 = n
      BY <1>1, <2>1
    <3>2. Up(u, i)[n] = Up(t, i)[n]
      BY <1>3, <3>1
    <3> DEFINE j == Up(t, i)[n]
    <3>3. j \in Item /\ SameRecord(t, u, j)
      BY <3>1
    <3>4. Up(t, i)[n + 1] = ParentIn(t, j) /\ Up(u, i)[n + 1] = ParentIn(u, j)
      BY <3>1, <3>2, UpEquation
    <3> HIDE DEF j
    <3>5. ParentIn(t, j) = t[j].parent /\ ParentIn(u, j) = u[j].parent
      BY <3>3, ParentType DEF SameRecord, Node
    <3>6. Up(u, i)[n + 1] = Up(t, i)[n + 1]
      BY <3>3, <3>4, <3>5 DEF SameRecord
    <3> QED BY <3>6
  <2> QED BY <2>1
<1> HIDE DEF T
<1>4. Nat \subseteq T
  BY <1>2, <1>3, InductiveSet
<1> QED BY <1>1, <1>4 DEF T

LEMMA SameWay ==
  ASSUME NEW t \in Tables, NEW u \in Tables, NEW i \in Node, Up(t, i)[Depth] = Top,
         \A j \in Way(t, i) : j \in Item /\ SameRecord(t, u, j)
  PROVE  /\ Up(u, i)[Depth] = Top
         /\ Height(u, i) = Height(t, i)
         /\ \A n \in 0..Height(t, i) : Up(u, i)[n] = Up(t, i)[n]
         /\ PathOf(u, i) = PathOf(t, i)
<1> DEFINE h == Height(t, i)
<1>1. h \in 0..Depth /\ Up(t, i)[h] = Top /\ \A m \in 0..(h - 1) : Up(t, i)[m] # Top
  BY HeightType
<1>2. \A n \in 0..(h - 1) : Up(t, i)[n] \in Item /\ SameRecord(t, u, Up(t, i)[n])
  BY DEF Way
<1> HIDE DEF h
<1>3. Depth \in Nat /\ h \in Nat
  BY <1>1, DepthType
<1>4. \A n \in 0..h : Up(u, i)[n] = Up(t, i)[n]
  BY <1>1, <1>2, SameSteps
<1>5. Up(u, i)[h] = Top
  BY <1>1, <1>3, <1>4
<1>6. Up(u, i)[Depth] = Top
  <2>1. Depth \in h..Depth
    BY <1>1, <1>3
  <2> QED BY <1>1, <1>5, <2>1, UpStaysAtTop
<1>7. \A m \in 0..(h - 1) : Up(u, i)[m] # Top
  <2>1. \A m \in 0..(h - 1) : m \in 0..h
    BY <1>3
  <2> QED BY <1>1, <1>4, <2>1
<1>8. Height(u, i) = h
  BY <1>1, <1>5, <1>6, <1>7, HeightUnique
<1>9. PathOf(u, i) = PathOf(t, i)
  <2>1. PathOf(t, i) = [k \in 1..h |-> t[Up(t, i)[h - k]].name]
    BY PathByHeight DEF h
  <2>2. PathOf(u, i) = [k \in 1..h |-> u[Up(u, i)[h - k]].name]
    BY <1>8, PathByHeight
  <2>3. ASSUME NEW k \in 1..h
        PROVE  t[Up(t, i)[h - k]].name = u[Up(u, i)[h - k]].name
    <3>1. h - k \in 0..h /\ h - k \in 0..(h - 1)
      BY <1>3
    <3>2. SameRecord(t, u, Up(t, i)[h - k])
      BY <1>2, <3>1
    <3> QED BY <1>4, <3>1, <3>2 DEF SameRecord
  <2> QED BY <2>1, <2>2, <2>3
<1> QED BY <1>4, <1>6, <1>8, <1>9 DEF h

-----------------------------------------------------------------------------
(* The folders above a folder among those that RootFolders leaves.          *)

LEMMA RootAbove ==
  ASSUME NEW t \in Tables, NEW S \in SUBSET Node, NEW i \in S, Up(t, i)[Depth] = Top,
         \A j \in Way(t, i) : j \in Item /\ t[j] # NoItem
  PROVE  \E n \in 0..Height(t, i) : Up(t, i)[n] \in RootFolders(t, S)
<1> DEFINE h == Height(t, i)
           K == {m \in 0..h : Up(t, i)[h - m] \in S}
<1>1. h \in 0..Depth /\ Up(t, i)[h] = Top
  BY HeightType
<1>2. \A n \in 0..(h - 1) : Up(t, i)[n] \in Item /\ t[Up(t, i)[n]] # NoItem
  BY DEF Way
<1> HIDE DEF h
<1>3. Depth \in Nat /\ h \in Nat
  BY <1>1, DepthType
<1>4. h \in K
  <2>1. Up(t, i)[0] = i
    BY UpEquation
  <2> QED BY <1>3, <2>1
<1>5. PICK m \in K : \A l \in K : m =< l
  BY <1>3, <1>4, Least, K \in SUBSET Nat
<1>6. h - m \in 0..h /\ Up(t, i)[h - m] \in S
  BY <1>3, <1>5
<1>7. CASE m = 0
  BY <1>1, <1>3, <1>6, <1>7 DEF RootFolders, h
<1>8. CASE m # 0
  <2> DEFINE j == Up(t, i)[h - m]
  <2>1. /\ m - 1 \in 0..h /\ h - (m - 1) = (h - m) + 1 /\ (h - m) + 1 \in 1..Depth
        /\ (h - m) + 1 - 1 = h - m /\ h - m \in 0..(h - 1)
    BY <1>1, <1>3, <1>5, <1>8
  <2>2. m - 1 \notin K
    BY <1>3, <1>5
  <2>3. Up(t, i)[(h - m) + 1] \notin S
    BY <2>1, <2>2
  <2>4. Up(t, i)[(h - m) + 1] = ParentIn(t, j)
    BY <2>1, UpEquation
  <2>5. j \in Item /\ t[j] # NoItem
    BY <1>2, <2>1
  <2>6. j \in S
    BY <1>6
  <2> HIDE DEF j
  <2>7. ParentIn(t, j) = t[j].parent
    BY <2>5, ParentType DEF Node
  <2>8. j \in RootFolders(t, S)
    BY <2>3, <2>4, <2>6, <2>7 DEF RootFolders
  <2> QED BY <1>6, <2>8 DEF h, j
<1> QED BY <1>7, <1>8

-----------------------------------------------------------------------------
(* Trees.                                                                   *)

LEMMA TreeItem ==
  ASSUME NEW t, IsTree(t), NEW i \in Item, t[i] # NoItem
  PROVE  /\ t \in Tables
         /\ t[i] \in Record /\ t[i].name \in NamesOf[i] /\ t[i].name \in Name
         /\ t[i].parent \in DriveFolder \cup {Top}
         /\ t[i].parent # Top =>
              /\ t[i].parent \in Item /\ t[t[i].parent] # NoItem
              /\ t[t[i].parent].trashed => t[i].trashed
         /\ Up(t, i)[Depth] = Top
<1>1. t \in Tables /\ t[i] \in Record
  BY DEF IsTree, Tables
<1>2. t[i].parent \in DriveFolder \cup {Top}
  BY <1>1 DEF Record
<1> QED BY <1>1, <1>2 DEF IsTree, Item, Record

\* Above an item of a tree are folders of the tree, above one that is seen such ones.
LEMMA TreeWay ==
  ASSUME NEW t, IsTree(t), NEW i \in Item, t[i] # NoItem, NEW n \in 0..Depth
  PROVE  \/ Up(t, i)[n] = Top
         \/ /\ Up(t, i)[n] \in Item /\ t[Up(t, i)[n]] # NoItem
            /\ n > 0 => Up(t, i)[n] \in DriveFolder
            /\ t[Up(t, i)[n]].trashed => t[i].trashed
<1> DEFINE P(m) == \/ Up(t, i)[m] = Top
                   \/ /\ Up(t, i)[m] \in Item /\ t[Up(t, i)[m]] # NoItem
                      /\ m > 0 => Up(t, i)[m] \in DriveFolder
                      /\ t[Up(t, i)[m]].trashed => t[i].trashed
           T == {m \in Nat : m \in 0..Depth => P(m)}
<1>1. Depth \in Nat /\ t \in Tables /\ i \in Node
  BY DepthType, TreeItem DEF Node
<1>2. 0 \in T
  <2>1. Up(t, i)[0] = i
    BY <1>1, UpEquation
  <2> QED BY <2>1
<1>3. ASSUME NEW m \in Nat, m \in T
      PROVE  m + 1 \in T
  <2>1. CASE m + 1 \in 0..Depth
    <3>1. m \in 0..Depth /\ m + 1 \in 1..Depth /\ m + 1 - 1 = m
      BY <1>1, <2>1
    <3>2. P(m)
      BY <1>3, <3>1
    <3> DEFINE j == Up(t, i)[m]
    <3>3. Up(t, i)[m + 1] = ParentIn(t, j)
      BY <1>1, <3>1, UpEquation
    <3>4. CASE j = Top
      <4>1. Up(t, i)[m + 1] = Top
        BY <1>1, <3>3, <3>4, ParentType
      <4> QED BY <4>1
    <3>5. CASE j # Top
      <4>1. j \in Item /\ t[j] # NoItem /\ (t[j].trashed => t[i].trashed)
        BY <3>2, <3>5
      <4> HIDE DEF j
      <4>2. ParentIn(t, j) = t[j].parent
        BY <1>1, <4>1, ParentType DEF Node
      <4>3. /\ t[j].parent \in DriveFolder \cup {Top}
            /\ t[j].parent # Top =>
                 /\ t[j].parent \in Item /\ t[t[j].parent] # NoItem
                 /\ t[t[j].parent].trashed => t[j].trashed
        BY <4>1, TreeItem
      <4>4. P(m + 1)
        BY <3>3, <4>1, <4>2, <4>3
      <4> QED BY <4>4
    <3> QED BY <3>4, <3>5
  <2> QED BY <2>1
<1> HIDE DEF T, P
<1>4. Nat \subseteq T
  BY <1>2, <1>3, InductiveSet
<1>5. P(n)
  BY <1>1, <1>4 DEF T
<1> QED BY <1>5 DEF P

\* The way of a tree from the parent of an item.
LEMMA ParentWay ==
  ASSUME NEW t, IsTree(t), NEW i \in Item, t[i] # NoItem
  PROVE  /\ t[i].parent \in Node
         /\ Up(t, t[i].parent)[Depth] = Top
         /\ \A n \in 0..(Depth - 1) : Up(t, t[i].parent)[n] = Up(t, i)[n + 1]
         /\ \A j \in Way(t, t[i].parent) :
              /\ j \in DriveFolder /\ t[j] # NoItem /\ (t[j].trashed => t[i].trashed)
              /\ \E n \in 0..Depth : Up(t, i)[n] = j
<1> DEFINE p == t[i].parent
<1>1. Depth \in Nat /\ Depth >= 1 /\ t \in Tables /\ i \in Node /\ Up(t, i)[Depth] = Top
  BY DepthType, TreeItem DEF Node
<1>2. p \in Node
  BY TreeItem DEF Node, Item
<1>3. Up(t, i)[1] = p
  <2>1. Up(t, i)[0] = i /\ 1 \in 1..Depth /\ Up(t, i)[1] = ParentIn(t, Up(t, i)[1 - 1])
    BY <1>1, UpEquation
  <2>2. ParentIn(t, i) = p
    BY <1>1, ParentType
  <2> QED BY <2>1, <2>2
<1> HIDE DEF p
<1>4. \A n \in 0..(Depth - 1) : Up(t, p)[n] = Up(t, i)[1 + n]
  <2>1. 1 \in 0..Depth
    BY <1>1
  <2> QED BY <1>1, <1>3, <2>1, UpFrom
<1>5. Up(t, p)[Depth - 1] = Top
  BY <1>1, <1>4
<1>6. Up(t, p)[Depth] = Top
  <2>1. Depth - 1 \in 0..Depth /\ Depth \in (Depth - 1)..Depth
    BY <1>1
  <2> QED BY <1>1, <1>2, <1>5, <2>1, UpStaysAtTop
<1>7. ASSUME NEW j \in Way(t, p)
      PROVE  /\ j \in DriveFolder /\ t[j] # NoItem /\ (t[j].trashed => t[i].trashed)
             /\ \E n \in 0..Depth : Up(t, i)[n] = j
  <2>1. /\ Height(t, p) \in 0..Depth
        /\ \A m \in 0..(Height(t, p) - 1) : Up(t, p)[m] # Top
    BY <1>1, <1>2, <1>6, HeightType
  <2>2. PICK n \in 0..(Height(t, p) - 1) : j = Up(t, p)[n]
    BY DEF Way
  <2>3. n \in 0..(Depth - 1) /\ n + 1 \in 0..Depth /\ n + 1 > 0 /\ 1 + n = n + 1
    BY <1>1, <2>1
  <2>4. Up(t, i)[n + 1] = j /\ j # Top
    BY <1>4, <2>1, <2>2, <2>3
  <2>5. /\ Up(t, i)[n + 1] \in DriveFolder /\ t[Up(t, i)[n + 1]] # NoItem
        /\ t[Up(t, i)[n + 1]].trashed => t[i].trashed
    BY <2>3, <2>4, TreeWay
  <2> QED BY <2>3, <2>4, <2>5
<1>8. \A n \in 0..(Depth - 1) : Up(t, p)[n] = Up(t, i)[n + 1]
  <2> SUFFICES ASSUME NEW n \in 0..(Depth - 1)
               PROVE  Up(t, p)[n] = Up(t, i)[n + 1]
    OBVIOUS
  <2>1. 1 + n = n + 1
    BY <1>1
  <2> QED BY <1>4, <2>1
<1> QED BY <1>2, <1>6, <1>7, <1>8 DEF p

-----------------------------------------------------------------------------
(* Coverage.                                                                *)

\* The names on the way up from the parent of an item are names, and its path a sequence.
LEMMA ParentPath ==
  ASSUME NEW t, IsTree(t), NEW i \in Item, t[i] # NoItem
  PROVE  /\ \A n \in 0..(Height(t, t[i].parent) - 1) : t[Up(t, t[i].parent)[n]].name \in Name
         /\ PathOf(t, t[i].parent) \in Seq(Name)
<1>1. /\ t \in Tables /\ t[i].parent \in Node /\ Up(t, t[i].parent)[Depth] = Top
      /\ \A j \in Way(t, t[i].parent) : j \in Item /\ t[j] # NoItem
  BY TreeItem, ParentWay DEF Item
<1>2. \A j \in Way(t, t[i].parent) : t[j].name \in Name
  BY <1>1, TreeItem
<1>3. \A n \in 0..(Height(t, t[i].parent) - 1) : t[Up(t, t[i].parent)[n]].name \in Name
  BY <1>2 DEF Way
<1> QED BY <1>1, <1>3, PathType

\* The one argument for new and for old paths.  A file f is seen in the tree t and not in
\* the same place in u; the map m agrees with t above f; S holds the folder of f, or f is
\* as it was and S holds every folder that is not.  Then one of the folders that
\* RootFolders leaves of S has, by m, a path above that of f.
LEMMA SightCovered ==
  ASSUME NEW t, NEW u, IsTree(t), IsTree(u), NEW m \in Tables, NEW S \in SUBSET Node,
         NEW f \in Visible(t),
         \A j \in Way(t, t[f].parent) : SameRecord(t, m, j),
         \/ t[f].parent \in S
         \/ /\ u[f] = t[f]
            /\ \A j \in DriveFolder : (/\ t[j] # NoItem /\ ~t[j].trashed
                                       /\ u[j] # NoItem /\ ~u[j].trashed
                                       /\ t[j] # u[j]) => j \in S,
         <<f, t[f].name, PathOf(t, t[f].parent)>> \notin Sights(u)
  PROVE  \E r \in RootFolders(m, S) : IsPrefix(PathOf(m, r), PathOf(t, t[f].parent))
<1> DEFINE p == t[f].parent
           h == Height(t, p)
<1>1. f \in Item /\ t[f] # NoItem /\ ~t[f].trashed /\ f \in DriveFile
  BY DEF Visible, Item
<1>2. /\ t \in Tables /\ p \in Node /\ Up(t, p)[Depth] = Top
      /\ \A n \in 0..(Depth - 1) : Up(t, p)[n] = Up(t, f)[n + 1]
      /\ \A j \in Way(t, p) : j \in DriveFolder /\ j \in Item /\ t[j] # NoItem /\ ~t[j].trashed
  BY <1>1, TreeItem, ParentWay DEF Item
<1>3. /\ \A n \in 0..(h - 1) : t[Up(t, p)[n]].name \in Name
      /\ PathOf(t, p) \in Seq(Name)
  BY <1>1, ParentPath
<1>4. u \in Tables
  BY DEF IsTree, Tables
<1>5. Depth \in Nat /\ h \in 0..Depth /\ h \in Nat /\ \A n \in 0..(h - 1) : Up(t, p)[n] # Top
  BY <1>2, DepthType, HeightType
<1>6. \A n \in 0..(h - 1) : Up(t, p)[n] \in Way(t, p)
  BY DEF Way
<1>7. \E n \in 0..h : Up(t, p)[n] \in S
  <2>1. CASE p \in S
    <3>1. Up(t, p)[0] = p
      BY <1>2, UpEquation
    <3> QED BY <1>5, <2>1, <3>1
  <2>2. CASE p \notin S
    <3>1. /\ u[f] = t[f]
          /\ \A j \in DriveFolder : (/\ t[j] # NoItem /\ ~t[j].trashed
                                     /\ u[j] # NoItem /\ ~u[j].trashed
                                     /\ t[j] # u[j]) => j \in S
      BY <2>2
    <3> DEFINE D == {n \in 0..(h - 1) : u[Up(t, p)[n]] # t[Up(t, p)[n]]}
    <3>2. D # {}
      <4> SUFFICES ASSUME \A n \in 0..(h - 1) : u[Up(t, p)[n]] = t[Up(t, p)[n]]
                   PROVE  FALSE
        OBVIOUS
      <4>1. \A j \in Way(t, p) : u[j] = t[j]
        BY DEF Way
      <4>2. \A j \in Way(t, p) : j \in Item /\ SameRecord(t, u, j)
        BY <1>2, <4>1 DEF SameRecord
      <4>3. PathOf(u, p) = PathOf(t, p)
        BY <1>2, <1>4, <4>2, SameWay
      <4>4. f \in Visible(u) /\ u[f].name = t[f].name /\ u[f].parent = p
        BY <1>1, <3>1 DEF Visible
      <4>5. <<f, t[f].name, PathOf(t, p)>> \in Sights(u)
        BY <4>3, <4>4 DEF Sights
      <4> QED BY <4>5
    <3>3. PICK n \in D : \A l \in D : n =< l
      BY <1>5, <3>2, Least, D \in SUBSET Nat
    <3>4. n \in 0..(h - 1) /\ u[Up(t, p)[n]] # t[Up(t, p)[n]] /\ n \in 0..Depth
      BY <1>5, <3>3
    <3>5. \A l \in 0..(n - 1) : l \in 0..(h - 1) /\ u[Up(t, p)[l]] = t[Up(t, p)[l]]
      BY <1>5, <3>3
    <3>6. \A l \in 0..(n - 1) : Up(t, p)[l] \in Item /\ SameRecord(t, u, Up(t, p)[l])
      BY <1>2, <1>6, <3>5 DEF SameRecord
    <3> DEFINE j == Up(t, p)[n]
    <3>7. Up(u, p)[n] = j
      <4>1. n \in 0..n
        BY <1>5
      <4> HIDE DEF p, D
      <4> QED BY <1>2, <1>4, <3>4, <3>6, <4>1, SameSteps
    <3>8. j # Top /\ j \in DriveFolder /\ t[j] # NoItem /\ ~t[j].trashed
      BY <1>2, <1>5, <1>6, <3>4
    <3>9. u[j] # NoItem /\ ~u[j].trashed
      <4>1. u[f] # NoItem /\ ~u[f].trashed /\ u[f].parent = p
        BY <1>1, <3>1
      <4>2. n \in 0..(Depth - 1) /\ n + 1 \in 0..Depth
        BY <1>5, <3>4
      <4>3. Up(u, f)[n + 1] = j
        BY <1>1, <3>7, <4>1, <4>2, ParentWay
      <4> QED BY <1>1, <3>8, <4>1, <4>2, <4>3, TreeWay
    <3>10. j \in S
      BY <3>1, <3>4, <3>8, <3>9
    <3>11. n \in 0..h
      BY <1>5, <3>4
    <3> QED BY <3>10, <3>11
  <2> QED BY <2>1, <2>2
<1>8. PICK n \in 0..h : Up(t, p)[n] \in S
  BY <1>7
<1> DEFINE i == Up(t, p)[n]
<1>9. i \in Node /\ Up(t, i)[Depth] = Top /\ Height(t, i) = h - n
      /\ \A l \in 0..(h - n) : Up(t, i)[l] = Up(t, p)[n + l]
  BY <1>2, HeightFrom
<1>10. PathOf(t, i) \in Seq(Name) /\ IsPrefix(PathOf(t, i), PathOf(t, p))
  BY <1>2, <1>3, PathPrefix
<1>11. i \in S
  BY <1>8
<1>12. \A j \in Way(t, p) : SameRecord(t, m, j)
  OBVIOUS
<1> HIDE DEF i, h, p
<1>13. \A j \in Way(t, i) : j \in Way(t, p)
  <2> SUFFICES ASSUME NEW l \in 0..((h - n) - 1)
               PROVE  Up(t, i)[l] \in Way(t, p)
    BY <1>9 DEF Way
  <2>1. l \in 0..(h - n) /\ n + l \in 0..(h - 1)
    BY <1>5
  <2> QED BY <1>6, <1>9, <2>1
<1>14. \A j \in Way(t, i) : j \in Item /\ SameRecord(t, m, j)
  BY <1>2, <1>12, <1>13
<1>15. /\ Up(m, i)[Depth] = Top /\ Height(m, i) = h - n
       /\ \A l \in 0..(h - n) : Up(m, i)[l] = Up(t, i)[l]
       /\ PathOf(m, i) = PathOf(t, i)
  BY <1>2, <1>9, <1>14, SameWay
<1>16. \A l \in 0..((h - n) - 1) : /\ Up(m, i)[l] = Up(t, i)[l]
                                   /\ Up(t, i)[l] \in Way(t, i)
  BY <1>5, <1>9, <1>15 DEF Way
<1>17. \A l \in 0..((h - n) - 1) : m[Up(m, i)[l]].name \in Name
  BY <1>2, <1>13, <1>14, <1>16, TreeItem DEF SameRecord
<1>18. \A j \in Way(m, i) : j \in Item /\ m[j] # NoItem
  BY <1>14, <1>15, <1>16 DEF Way, SameRecord
<1>19. PICK k \in 0..(h - n) : Up(m, i)[k] \in RootFolders(m, S)
  BY <1>9, <1>11, <1>15, <1>18, RootAbove
<1>20. PathOf(m, Up(m, i)[k]) \in Seq(Name) /\ IsPrefix(PathOf(m, Up(m, i)[k]), PathOf(m, i))
  BY <1>9, <1>15, <1>17, PathPrefix
<1>21. IsPrefix(PathOf(m, Up(m, i)[k]), PathOf(t, p))
  BY <1>3, <1>10, <1>15, <1>20, PrefixTransitive
<1> QED BY <1>19, <1>21 DEF p

\* The maps and sets of a diff of two trees.
LEMMA DiffTypes ==
  ASSUME IsTree(store), IsTree(drive)
  PROVE  /\ store \in Tables /\ drive \in Tables /\ Current \in Tables /\ Old \in Tables
         /\ Added \subseteq Item /\ Changed \subseteq Item /\ Removed \subseteq Item
         /\ \A i \in Added \cup Changed : drive[i] # NoItem /\ Current[i] = drive[i]
         /\ \A i \in Changed \cup Removed : store[i] # NoItem /\ Old[i] # NoItem
         /\ NewParents \subseteq DriveFolder \cup {Top}
         /\ OldParents \subseteq DriveFolder \cup {Top}
<1>1. store \in Tables /\ drive \in Tables
  BY DEF IsTree, Tables
<1>2. Current \in Tables /\ Old \in Tables
  BY <1>1 DEF Current, Old, Tables
<1>3. /\ Added \subseteq Item /\ Changed \subseteq Item /\ Removed \subseteq Item
      /\ \A i \in Added \cup Changed : drive[i] # NoItem
      /\ \A i \in Changed \cup Removed : store[i] # NoItem
      /\ \A i \in Trashed : drive[i] # NoItem
      /\ \A i \in Added : drive[i] # NoItem
  BY DEF Added, Changed, Removed, Differs, Restored, Trashed, In
<1>4. \A i \in Added \cup Changed : Current[i] = drive[i]
  BY <1>3 DEF Current
<1>5. \A i \in Changed \cup Removed : Old[i] # NoItem
  BY <1>3 DEF Old
<1>6. \A t \in Tables : \A i \in Item : t[i] # NoItem => t[i].parent \in DriveFolder \cup {Top}
  BY DEF Tables, Record
<1>7. NewParents \subseteq DriveFolder \cup {Top}
  BY <1>1, <1>3, <1>6 DEF NewParents, ParentsIn
<1>8. OldParents \subseteq DriveFolder \cup {Top}
  BY <1>2, <1>3, <1>5, <1>6 DEF OldParents, ParentsIn
<1> QED BY <1>1, <1>2, <1>3, <1>4, <1>5, <1>7, <1>8

\* Where a file came or took another name, a folder above is among the new ones: the way
\* to the file is the drive's.
LEMMA NewCovered ==
  ASSUME IsTree(store), IsTree(drive), NEW f \in Visible(drive),
         <<f, drive[f].name, PathOf(drive, drive[f].parent)>> \notin Sights(store)
  PROVE  \E p \in NewFolders : IsPrefix(p, PathOf(drive, drive[f].parent))
<1> DEFINE seen(t, i) == t[i] # NoItem /\ ~t[i].trashed
<1>1. f \in Item /\ f \in DriveFile /\ seen(drive, f)
  BY DEF Visible, Item
<1>2. ASSUME NEW j \in Item, seen(drive, j)
      PROVE  Current[j] = drive[j]
  <2>1. CASE j \in Added \cup Changed
    BY <2>1, DiffTypes
  <2>2. CASE j \notin Added \cup Changed
    <3>1. store[j] = drive[j]
      BY <1>2, <2>2 DEF Added, Changed, Differs, Restored, Trashed, In
    <3> QED BY <2>2, <3>1 DEF Current
  <2> QED BY <2>1, <2>2
<1>3. \A j \in Way(drive, drive[f].parent) : SameRecord(drive, Current, j)
  <2>1. \A j \in Way(drive, drive[f].parent) : j \in Item /\ seen(drive, j)
    BY <1>1, ParentWay DEF Item
  <2> QED BY <1>2, <2>1 DEF SameRecord
<1>4. \/ drive[f].parent \in NewParents
      \/ /\ store[f] = drive[f]
         /\ \A j \in DriveFolder : (/\ drive[j] # NoItem /\ ~drive[j].trashed
                                    /\ store[j] # NoItem /\ ~store[j].trashed
                                    /\ drive[j] # store[j]) => j \in NewParents
  <2>1. CASE f \in Added \cup Changed
    BY <1>1, <2>1 DEF NewParents, ParentsIn
  <2>2. CASE f \notin Added \cup Changed
    <3>1. store[f] = drive[f]
      BY <1>1, <2>2 DEF Added, Changed, Differs, Restored, Trashed, In
    <3>2. ASSUME NEW j \in DriveFolder, seen(drive, j), seen(store, j), drive[j] # store[j]
          PROVE  j \in NewParents
      BY <3>2 DEF Changed, Differs, Restored, Trashed, In, NewParents, Item
    <3> QED BY <3>1, <3>2
  <2> QED BY <2>1, <2>2
<1>5. Current \in Tables /\ NewParents \in SUBSET Node
  BY DiffTypes DEF Node, Item
<1>6. \E r \in RootFolders(Current, NewParents) :
        IsPrefix(PathOf(Current, r), PathOf(drive, drive[f].parent))
  BY <1>3, <1>4, <1>5, SightCovered
<1> QED BY <1>6 DEF NewFolders

\* Where a file went or took another name, a folder above is among the old ones, unless the
\* file or a folder above it was moved or renamed and trashed.
LEMMA OldCovered ==
  ASSUME IsTree(store), IsTree(drive), NEW f \in Visible(store), f \notin MisplacedFiles,
         <<f, store[f].name, PathOf(store, store[f].parent)>> \notin Sights(drive)
  PROVE  \E p \in OldFolders : IsPrefix(p, PathOf(store, store[f].parent))
<1> DEFINE seen(t, i) == t[i] # NoItem /\ ~t[i].trashed
<1>1. f \in Item /\ f \in DriveFile /\ seen(store, f)
  BY DEF Visible, Item
<1>2. store \in Tables /\ Old \in Tables /\ OldParents \in SUBSET Node /\ f \in Node
  BY <1>1, DiffTypes DEF Node, Item
<1>3. ASSUME NEW j \in Item, seen(store, j), f \in Below(store, j)
      PROVE  SameRecord(store, Old, j)
  <2>1. j \notin Added
    BY <1>3 DEF Added, Restored, In
  <2>2. CASE j \in Trashed
    <3>1. j \notin MovedToTrash
      BY <1>3 DEF MisplacedFiles
    <3>2. store[j].parent = drive[j].parent /\ store[j].name = drive[j].name
      BY <2>2, <3>1 DEF MovedToTrash
    <3>3. Old[j] = drive[j] /\ drive[j] # NoItem
      BY <1>3, <2>2 DEF Old, Trashed, Differs, In
    <3> QED BY <1>3, <3>2, <3>3 DEF SameRecord
  <2>3. CASE j \notin Trashed
    <3>1. Old[j] = store[j]
      BY <2>1, <2>3 DEF Old
    <3> QED BY <1>3, <3>1 DEF SameRecord
  <2> QED BY <2>2, <2>3
<1>4. f \in Below(store, f)
  <2>1. Up(store, f)[0] = f /\ 0 \in 0..Depth
    BY <1>2, UpEquation, DepthType
  <2> QED BY <1>1, <2>1 DEF Below
<1>5. \A j \in Way(store, store[f].parent) : SameRecord(store, Old, j)
  <2>1. \A j \in Way(store, store[f].parent) :
          j \in Item /\ seen(store, j) /\ \E n \in 0..Depth : Up(store, f)[n] = j
    BY <1>1, ParentWay DEF Item
  <2>2. \A j \in Way(store, store[f].parent) : f \in Below(store, j)
    BY <1>1, <2>1 DEF Below
  <2> QED BY <1>3, <2>1, <2>2
<1>6. \/ store[f].parent \in OldParents
      \/ /\ drive[f] = store[f]
         /\ \A j \in DriveFolder : (/\ store[j] # NoItem /\ ~store[j].trashed
                                    /\ drive[j] # NoItem /\ ~drive[j].trashed
                                    /\ store[j] # drive[j]) => j \in OldParents
  <2>1. CASE f \in Changed \cup Removed
    <3>1. SameRecord(store, Old, f)
      BY <1>1, <1>3, <1>4
    <3>2. Old[f].parent \in OldParents
      BY <1>1, <2>1 DEF OldParents, ParentsIn
    <3> QED BY <3>1, <3>2 DEF SameRecord
  <2>2. CASE f \notin Changed \cup Removed
    <3>1. drive[f] = store[f]
      BY <1>1, <2>2 DEF Changed, Removed, Differs, Restored, Trashed, In
    <3>2. ASSUME NEW j \in DriveFolder, seen(drive, j), seen(store, j), drive[j] # store[j]
          PROVE  j \in OldParents
      BY <3>2 DEF Changed, Differs, Restored, Trashed, In, OldParents, Item
    <3> QED BY <3>1, <3>2
  <2> QED BY <2>1, <2>2
<1>7. \E r \in RootFolders(Old, OldParents) :
        IsPrefix(PathOf(Old, r), PathOf(store, store[f].parent))
  BY <1>2, <1>5, <1>6, SightCovered
<1> QED BY <1>7 DEF OldFolders

\* The folders of the diff of two trees cover everything that should be scanned.
LEMMA DiffCovers ==
  ASSUME IsTree(store), IsTree(drive), NEW q \in ChangedPaths
  PROVE  \E p \in NewFolders \cup OldFolders : IsPrefix(p, q)
<1>1. CASE \E s \in Sights(drive) \ Sights(store) : q = s[3]
  <2>1. PICK f \in Visible(drive) :
          /\ <<f, drive[f].name, PathOf(drive, drive[f].parent)>> \notin Sights(store)
          /\ q = PathOf(drive, drive[f].parent)
    BY <1>1 DEF Sights
  <2> QED BY <2>1, NewCovered
<1>2. CASE \E s \in Sights(store) \ Sights(drive) : s[1] \notin MisplacedFiles /\ q = s[3]
  <2>1. PICK f \in Visible(store) :
          /\ <<f, store[f].name, PathOf(store, store[f].parent)>> \notin Sights(drive)
          /\ f \notin MisplacedFiles
          /\ q = PathOf(store, store[f].parent)
    BY <1>2 DEF Sights
  <2> QED BY <2>1, OldCovered
<1> QED BY <1>1, <1>2 DEF ChangedPaths

-----------------------------------------------------------------------------
(* The folders of a diff.                                                   *)

\* What is unknown has nothing above.
LEMMA UpStaysUnknown ==
  ASSUME NEW t \in Tables, NEW i \in Node, NEW n \in 0..Depth, Up(t, i)[n] = NoItem
  PROVE  \A m \in n..Depth : Up(t, i)[m] = NoItem
<1> DEFINE T == {k \in Nat : n + k \in 0..Depth => Up(t, i)[n + k] = NoItem}
<1>1. Depth \in Nat /\ n \in Nat
  BY DepthType
<1>2. 0 \in T
  BY <1>1
<1>3. ASSUME NEW k \in Nat, k \in T
      PROVE  k + 1 \in T
  <2>1. CASE n + (k + 1) \in 0..Depth
    <3>1. n + k \in 0..Depth /\ n + (k + 1) \in 1..Depth /\ n + (k + 1) - 1 = n + k
      BY <1>1, <2>1
    <3>2. Up(t, i)[n + k] = NoItem
      BY <1>3, <3>1
    <3>3. Up(t, i)[n + (k + 1)] = ParentIn(t, NoItem)
      BY <3>1, <3>2, UpEquation
    <3> QED BY <3>3 DEF ParentIn
  <2> QED BY <2>1
<1> HIDE DEF T
<1>4. Nat \subseteq T
  BY <1>2, <1>3, InductiveSet
<1>5. ASSUME NEW m \in n..Depth
      PROVE  Up(t, i)[m] = NoItem
  <2>1. m - n \in Nat /\ n + (m - n) = m /\ m \in 0..Depth
    BY <1>1
  <2> QED BY <1>4, <2>1 DEF T
<1> QED BY <1>5

\* Above a folder are folders, known ones if the way ends at the top.
LEMMA FolderWay ==
  ASSUME NEW t \in Tables, NEW i \in DriveFolder \cup {Top}
  PROVE  /\ \A n \in 0..Depth : Up(t, i)[n] \in DriveFolder \cup {Top, NoItem}
         /\ Up(t, i)[Depth] = Top =>
              \A n \in 0..(Height(t, i) - 1) :
                Up(t, i)[n] \in DriveFolder /\ t[Up(t, i)[n]] # NoItem
<1> DEFINE T == {n \in Nat : n \in 0..Depth => Up(t, i)[n] \in DriveFolder \cup {Top, NoItem}}
<1>1. Depth \in Nat /\ i \in Node
  BY DepthType DEF Node, Item
<1>2. 0 \in T
  <2>1. Up(t, i)[0] = i
    BY <1>1, UpEquation
  <2> QED BY <2>1
<1>3. ASSUME NEW n \in Nat, n \in T
      PROVE  n + 1 \in T
  <2>1. CASE n + 1 \in 0..Depth
    <3>1. n \in 0..Depth /\ n + 1 \in 1..Depth /\ n + 1 - 1 = n
      BY <1>1, <2>1
    <3>2. Up(t, i)[n] \in DriveFolder \cup {Top, NoItem}
      BY <1>3, <3>1
    <3>3. Up(t, i)[n + 1] \in DriveFolder \cup {Top, NoItem}
      BY <1>1, <3>1, <3>2, UpTypes
    <3> QED BY <3>3
  <2> QED BY <2>1
<1> HIDE DEF T
<1>4. Nat \subseteq T
  BY <1>2, <1>3, InductiveSet
<1>5. \A n \in 0..Depth : Up(t, i)[n] \in DriveFolder \cup {Top, NoItem}
  BY <1>1, <1>4 DEF T
<1>6. ASSUME Up(t, i)[Depth] = Top, NEW n \in 0..(Height(t, i) - 1)
      PROVE  Up(t, i)[n] \in DriveFolder /\ t[Up(t, i)[n]] # NoItem
  <2>1. Height(t, i) \in 0..Depth /\ Up(t, i)[n] # Top
    BY <1>1, <1>6, HeightType
  <2>2. n \in 0..Depth /\ n + 1 \in 0..Depth /\ n + 1 \in 1..Depth /\ n + 1 - 1 = n
        /\ Depth \in n..Depth /\ Depth \in (n + 1)..Depth
    BY <1>1, <2>1
  <2>3. Up(t, i)[n] # NoItem /\ Up(t, i)[n + 1] # NoItem
    BY <1>1, <1>6, <2>2, UpStaysUnknown, BernardDiffAssumption
  <2>4. Up(t, i)[n] \in DriveFolder
    BY <1>5, <2>1, <2>2, <2>3
  <2>5. Up(t, i)[n + 1] = ParentIn(t, Up(t, i)[n])
    BY <1>1, <2>2, UpEquation
  <2> QED BY <2>1, <2>3, <2>4, <2>5 DEF ParentIn
<1> QED BY <1>5, <1>6

\* The path of a folder whose way ends at the top has at most Depth names, all of folders.
LEMMA FolderPath ==
  ASSUME NEW t \in Tables, NEW i \in DriveFolder \cup {Top}, Up(t, i)[Depth] = Top,
         \A j \in Item : t[j] # NoItem => t[j].name \in NamesOf[j]
  PROVE  /\ Height(t, i) \in 0..Depth
         /\ PathOf(t, i) \in [1..Height(t, i) -> UNION {NamesOf[j] : j \in DriveFolder}]
<1> DEFINE S == UNION {NamesOf[j] : j \in DriveFolder}
<1>1. i \in Node
  BY DEF Node, Item
<1>2. \A j \in DriveFolder : t[j] # NoItem => t[j].name \in S
  BY DEF Item
<1>3. \A n \in 0..(Height(t, i) - 1) : Up(t, i)[n] \in DriveFolder /\ t[Up(t, i)[n]] # NoItem
  BY FolderWay
<1> HIDE DEF S
<1>4. \A n \in 0..(Height(t, i) - 1) : t[Up(t, i)[n]].name \in S
  BY <1>2, <1>3
<1>5. PathOf(t, i) \in [1..Height(t, i) -> S]
  BY <1>1, <1>4, PathType
<1> QED BY <1>1, <1>5, HeightType DEF S

\* When the hooks return, they have found finitely many folders of the drive.
LEMMA FoundFolders ==
  ASSUME IsTree(store), IsTree(drive), ~NotFound, ~Endless
  PROVE  /\ IsFiniteSet(NewFolders \cup OldFolders)
         /\ \A p \in NewFolders \cup OldFolders :
              \E d \in 0..Depth : p \in [1..d -> UNION {NamesOf[j] : j \in DriveFolder}]
<1> DEFINE S == UNION {NamesOf[j] : j \in DriveFolder}
           N == RootFolders(Current, NewParents)
           O == RootFolders(Old, OldParents)
<1>1. /\ Current \in Tables /\ Old \in Tables
      /\ N \subseteq DriveFolder \cup {Top} /\ O \subseteq DriveFolder \cup {Top}
  BY DiffTypes DEF RootFolders
<1>2. /\ \A j \in Item : Current[j] # NoItem => Current[j].name \in NamesOf[j]
      /\ \A j \in Item : Old[j] # NoItem => Old[j].name \in NamesOf[j]
  BY TreeItem DEF Current, Old
<1>3. Depth \in 0..Depth
  BY DepthType
<1>4. /\ \A i \in N : Up(Current, i) \in WaysUp
      /\ \A i \in O : Up(Old, i) \in WaysUp
  BY DEF WaysUp
<1>5. ASSUME NEW i \in N
      PROVE  Up(Current, i)[Depth] = Top
  <2>1. Up(Current, i)[Depth] \in DriveFolder \cup {Top, NoItem}
    BY <1>1, <1>3, FolderWay
  <2> QED BY <1>4, <2>1 DEF NotFound, Endless
<1>6. ASSUME NEW i \in O
      PROVE  Up(Old, i)[Depth] = Top
  <2>1. Up(Old, i)[Depth] \in DriveFolder \cup {Top, NoItem}
    BY <1>1, <1>3, FolderWay
  <2> QED BY <1>4, <2>1 DEF NotFound, Endless
<1>7. ASSUME NEW i \in N
      PROVE  \E d \in 0..Depth : PathOf(Current, i) \in [1..d -> S]
  BY <1>1, <1>2, <1>5, FolderPath
<1>8. ASSUME NEW i \in O
      PROVE  \E d \in 0..Depth : PathOf(Old, i) \in [1..d -> S]
  BY <1>1, <1>2, <1>6, FolderPath
<1>9. IsFiniteSet(DriveFolder \cup {Top})
  BY BernardDiffAssumption, FS_AddElement
<1>10. IsFiniteSet(N) /\ IsFiniteSet(O)
  BY <1>1, <1>9, FS_Subset
<1> HIDE DEF N, O
<1>11. IsFiniteSet({PathOf(Current, i) : i \in N})
  <2> DEFINE f == [i \in N |-> PathOf(Current, i)]
  <2>1. f = [i \in N |-> f[i]] /\ {f[i] : i \in N} = {PathOf(Current, i) : i \in N}
    OBVIOUS
  <2> HIDE DEF f
  <2> QED BY <1>10, <2>1, FiniteImage
<1>12. IsFiniteSet({PathOf(Old, i) : i \in O})
  <2> DEFINE f == [i \in O |-> PathOf(Old, i)]
  <2>1. f = [i \in O |-> f[i]] /\ {f[i] : i \in O} = {PathOf(Old, i) : i \in O}
    OBVIOUS
  <2> HIDE DEF f
  <2> QED BY <1>10, <2>1, FiniteImage
<1>13. NewFolders = {PathOf(Current, i) : i \in N} /\ OldFolders = {PathOf(Old, i) : i \in O}
  BY DEF NewFolders, OldFolders, N, O
<1>14. IsFiniteSet(NewFolders \cup OldFolders)
  BY <1>11, <1>12, <1>13, FS_Union
<1> QED BY <1>7, <1>8, <1>13, <1>14 DEF S

-----------------------------------------------------------------------------
(* A change of a drive leaves a tree.                                       *)

\* What is known is under the top or under something known of a smaller rank.
Ranked(t, r) ==
  \A i \in Item : t[i] # NoItem =>
    \/ t[i].parent = Top
    \/ t[i].parent \in Item /\ t[t[i].parent] # NoItem /\ r[t[i].parent] < r[i]

\* With ranks no way is endless: a way of Depth folders would hold one of them twice.
LEMMA RankedWay ==
  ASSUME NEW t \in Tables, NEW r \in [Item \cup {Top} -> Nat], Ranked(t, r),
         NEW i \in Item, t[i] # NoItem
  PROVE  Up(t, i)[Depth] = Top
<1> SUFFICES ASSUME Up(t, i)[Depth] # Top
             PROVE  FALSE
  OBVIOUS
<1> DEFINE w == Up(t, i)
<1>1. Depth \in Nat /\ Depth >= 1 /\ Depth - 1 = Cardinality(DriveFolder) /\ i \in Node
  BY DepthType DEF Node
<1>2. w \in [0..Depth -> Node] /\ w[0] = i /\ \A n \in 1..Depth : w[n] = ParentIn(t, w[n - 1])
  BY <1>1, UpEquation
<1>3. \A n \in 0..Depth : w[n] # Top
  <2>1. \A n \in 0..Depth : Depth \in n..Depth
    BY <1>1
  <2> QED BY <1>1, <2>1, UpStaysAtTop
<1> HIDE DEF w
<1> DEFINE T == {n \in Nat : n \in 0..Depth => w[n] \in Item /\ t[w[n]] # NoItem}
<1>4. 0 \in T
  BY <1>2
<1>5. \A n \in 0..(Depth - 1) : w[n] \in Item /\ t[w[n]] # NoItem =>
        /\ w[n + 1] = t[w[n]].parent
        /\ w[n + 1] \in DriveFolder /\ w[n + 1] \in Item
        /\ t[w[n + 1]] # NoItem /\ r[w[n + 1]] < r[w[n]]
  <2> SUFFICES ASSUME NEW n \in 0..(Depth - 1), w[n] \in Item, t[w[n]] # NoItem
               PROVE  /\ w[n + 1] = t[w[n]].parent
                      /\ w[n + 1] \in DriveFolder /\ w[n + 1] \in Item
                      /\ t[w[n + 1]] # NoItem /\ r[w[n + 1]] < r[w[n]]
    OBVIOUS
  <2>1. n + 1 \in 1..Depth /\ n + 1 - 1 = n /\ n + 1 \in 0..Depth
    BY <1>1
  <2>2. w[n + 1] = ParentIn(t, w[n])
    BY <1>2, <2>1
  <2>3. w[n + 1] = t[w[n]].parent
    BY <2>2, ParentType DEF Node
  <2>4. w[n + 1] # Top
    BY <1>3, <2>1
  <2>5. t[w[n]].parent \in DriveFolder \cup {Top}
    BY DEF Tables, Record
  <2> QED BY <2>3, <2>4, <2>5 DEF Ranked, Item
<1>6. ASSUME NEW n \in Nat, n \in T
      PROVE  n + 1 \in T
  <2>1. CASE n + 1 \in 0..Depth
    <3>1. n \in 0..Depth /\ n \in 0..(Depth - 1)
      BY <1>1, <2>1
    <3> QED BY <1>5, <1>6, <3>1
  <2> QED BY <2>1
<1> HIDE DEF T
<1>7. Nat \subseteq T
  BY <1>4, <1>6, InductiveSet
<1>8. \A n \in 0..Depth : w[n] \in Item /\ t[w[n]] # NoItem
  BY <1>1, <1>7 DEF T
<1>9. \A n \in 0..(Depth - 1) : w[n + 1] \in DriveFolder /\ r[w[n + 1]] < r[w[n]]
  BY <1>1, <1>5, <1>8
<1>10. \A n \in 0..Depth : r[w[n]] \in Nat
  BY <1>8
<1> DEFINE rank(n) == r[w[n]]
           D == {k \in Nat : \A n \in 0..Depth : n + k + 1 \in 0..Depth => rank(n + k + 1) < rank(n)}
<1>11. \A n \in 0..Depth : rank(n) \in Nat
  BY <1>10
<1>12. \A n \in 0..(Depth - 1) : rank(n + 1) < rank(n)
  BY <1>9
<1> HIDE DEF rank
<1>13. 0 \in D
  BY <1>1, <1>12
<1>14. ASSUME NEW k \in Nat, k \in D
       PROVE  k + 1 \in D
  <2> SUFFICES ASSUME NEW n \in 0..Depth, n + (k + 1) + 1 \in 0..Depth
               PROVE  rank(n + (k + 1) + 1) < rank(n)
    OBVIOUS
  <2>1. /\ n + k + 1 \in 0..Depth /\ n + k + 1 \in 0..(Depth - 1)
        /\ n + (k + 1) + 1 = (n + k + 1) + 1
    BY <1>1
  <2>2. rank(n + k + 1) < rank(n)
    BY <1>14, <2>1
  <2>3. rank(n + (k + 1) + 1) < rank(n + k + 1)
    BY <1>12, <2>1
  <2>4. rank(n) \in Nat /\ rank(n + k + 1) \in Nat /\ rank(n + (k + 1) + 1) \in Nat
    BY <1>11, <2>1
  <2> QED BY <2>2, <2>3, <2>4
<1> HIDE DEF D
<1>15. Nat \subseteq D
  BY <1>13, <1>14, InductiveSet
<1>16. \A m, n \in 1..Depth : m < n => rank(n) < rank(m)
  <2> SUFFICES ASSUME NEW m \in 1..Depth, NEW n \in 1..Depth, m < n
               PROVE  rank(n) < rank(m)
    OBVIOUS
  <2>1. n - m - 1 \in D /\ m \in 0..Depth /\ n \in 0..Depth /\ m + (n - m - 1) + 1 = n
    BY <1>1, <1>15
  <2> QED BY <2>1 DEF D
<1> DEFINE f == [n \in 1..Depth |-> w[n]]
<1>17. f \in [1..Depth -> DriveFolder]
  <2>1. ASSUME NEW n \in 1..Depth
        PROVE  w[n] \in DriveFolder
    <3>1. n - 1 \in 0..(Depth - 1) /\ (n - 1) + 1 = n
      BY <1>1
    <3> QED BY <1>9, <3>1
  <2> QED BY <2>1
<1>18. IsFiniteSet(1..Depth) /\ Cardinality(1..Depth) = Depth
  BY <1>1, FS_Interval
<1>19. IsFiniteSet(DriveFolder) /\ Cardinality(DriveFolder) < Cardinality(1..Depth)
  BY <1>1, <1>18, BernardDiffAssumption
<1>20. \A m, n \in 1..Depth : f[m] = f[n] => rank(m) = rank(n)
  BY DEF rank
<1> HIDE DEF f
<1>21. PICK m, n \in 1..Depth : m # n /\ f[m] = f[n]
  BY <1>17, <1>18, <1>19, FS_PigeonHole
<1>22. m < n \/ n < m
  BY <1>1, <1>21
<1>23. rank(m) = rank(n) /\ rank(m) \in Nat /\ (rank(m) < rank(n) \/ rank(n) < rank(m))
  BY <1>1, <1>11, <1>16, <1>20, <1>21, <1>22
<1> QED BY <1>23

LEMMA TreeByRank ==
  ASSUME NEW t \in Tables, NEW r \in [Item \cup {Top} -> Nat], Ranked(t, r),
         \A i \in Item : t[i] # NoItem =>
           /\ t[i].name \in NamesOf[i]
           /\ t[i].parent # Top => (t[t[i].parent].trashed => t[i].trashed)
  PROVE  IsTree(t)
<1>1. \A i \in Item : t[i] # NoItem => Up(t, i)[Depth] = Top
  BY RankedWay
<1>2. \A i \in Item : t[i] # NoItem => t[i].parent = Top \/ t[t[i].parent] # NoItem
  BY DEF Ranked
<1> QED BY <1>1, <1>2 DEF IsTree, Tables

\* In a tree the heights are ranks.
Rank(t) == [i \in Item \cup {Top} |-> IF i \in Item /\ t[i] # NoItem THEN Height(t, i) ELSE 0]

LEMMA TreeRank ==
  ASSUME NEW t, IsTree(t)
  PROVE  Rank(t) \in [Item \cup {Top} -> Nat] /\ Ranked(t, Rank(t))
<1>1. Depth \in Nat /\ Depth >= 1 /\ t \in Tables
  BY DepthType DEF IsTree, Tables
<1>2. \A i \in Item : t[i] # NoItem => Height(t, i) \in Nat
  BY <1>1, TreeItem, HeightType DEF Node
<1>3. ASSUME NEW i \in Item, t[i] # NoItem, t[i].parent # Top
      PROVE  /\ t[i].parent \in Item /\ t[t[i].parent] # NoItem
             /\ Height(t, t[i].parent) < Height(t, i)
  <2>1. t[i].parent \in Item /\ t[t[i].parent] # NoItem /\ Up(t, i)[Depth] = Top /\ i \in Node
    BY <1>3, TreeItem DEF Node
  <2>2. Up(t, i)[0] = i /\ Up(t, i)[1] = t[i].parent
    <3>1. 1 \in 1..Depth /\ Up(t, i)[1] = ParentIn(t, Up(t, i)[1 - 1]) /\ Up(t, i)[0] = i
      BY <1>1, <2>1, UpEquation
    <3> QED BY <1>1, <1>3, <2>1, <3>1, ParentType
  <2>3. Height(t, i) \in Nat /\ Up(t, i)[Height(t, i)] = Top
    BY <1>2, <1>1, <2>1, HeightType, <1>3
  <2>4. Height(t, i) # 0
    BY <2>2, <2>3, BernardDiffAssumption
  <2>5. 1 \in 0..Height(t, i)
    BY <2>3, <2>4
  <2>6. Height(t, Up(t, i)[1]) = Height(t, i) - 1
    BY <1>1, <2>1, <2>5, HeightFrom
  <2> QED BY <2>1, <2>2, <2>3, <2>6
<1>4. Rank(t) \in [Item \cup {Top} -> Nat]
  BY <1>2 DEF Rank
<1> QED BY <1>3, <1>4 DEF Ranked, Rank

\* What is below an item, by parents.
LEMMA BelowStep ==
  ASSUME NEW t, IsTree(t), NEW i \in Item, NEW j \in Item, t[j] # NoItem
  PROVE  j \in Below(t, i) <=> j = i \/ t[j].parent \in Below(t, i)
<1> DEFINE p == t[j].parent
<1>1. Depth \in Nat /\ Depth >= 1 /\ t \in Tables /\ j \in Node
  BY DepthType DEF IsTree, Tables, Node
<1>2. /\ p \in Node /\ Up(t, p)[Depth] = Top
      /\ \A n \in 0..(Depth - 1) : Up(t, p)[n] = Up(t, j)[n + 1]
  BY ParentWay
<1>3. p # Top => p \in Item /\ t[p] # NoItem
  BY TreeItem
<1>4. p = Top => \A n \in 0..Depth : Up(t, p)[n] = Top
  <2>1. 0 \in 0..Depth /\ Up(t, p)[0] = p
    BY <1>1, <1>2, UpEquation
  <2> QED BY <1>1, <1>2, <2>1, UpStaysAtTop
<1>5. Top \notin Item
  BY BernardDiffAssumption
<1>6. Up(t, j)[0] = j
  BY <1>1, UpEquation
<1> HIDE DEF p
<1>7. ASSUME j \in Below(t, i), j # i
      PROVE  p \in Below(t, i)
  <2>1. PICK n \in 0..Depth : Up(t, j)[n] = i
    BY <1>7 DEF Below
  <2>2. n # 0
    BY <1>6, <1>7, <2>1
  <2>3. n - 1 \in 0..(Depth - 1) /\ n - 1 \in 0..Depth /\ (n - 1) + 1 = n
    BY <1>1, <2>2
  <2>4. Up(t, p)[n - 1] = i
    BY <1>2, <2>1, <2>3
  <2>5. p # Top
    BY <1>4, <1>5, <2>3, <2>4
  <2> QED BY <1>3, <2>3, <2>4, <2>5 DEF Below
<1>8. ASSUME p \in Below(t, i)
      PROVE  j \in Below(t, i)
  <2>1. PICK n \in 0..Depth : Up(t, p)[n] = i
    BY <1>8 DEF Below
  <2>2. n # Depth
    BY <1>2, <1>5, <2>1
  <2>3. n \in 0..(Depth - 1) /\ n + 1 \in 0..Depth
    BY <1>1, <2>2
  <2>4. Up(t, j)[n + 1] = i
    BY <1>2, <2>1, <2>3
  <2> QED BY <2>3, <2>4 DEF Below
<1>9. i = j => j \in Below(t, i)
  BY <1>1, <1>6 DEF Below
<1> QED BY <1>7, <1>8, <1>9 DEF p

\* The parent of an item is not below it.
LEMMA ParentNotBelow ==
  ASSUME NEW t, IsTree(t), NEW i \in Item, t[i] # NoItem
  PROVE  t[i].parent \notin Below(t, i)
<1> DEFINE p == t[i].parent
<1> SUFFICES ASSUME p \in Below(t, i)
             PROVE  FALSE
  OBVIOUS
<1>1. Depth \in Nat /\ t \in Tables /\ p \in Node /\ Up(t, p)[Depth] = Top /\ p # Top
      /\ i # Top
  BY DepthType, ParentWay, BernardDiffAssumption DEF IsTree, Tables, Below
<1>2. PICK n \in 0..Depth : Up(t, p)[n] = i
  BY DEF Below
<1>3. Height(t, p) \in 0..Depth /\ Up(t, p)[Height(t, p)] = Top
  BY <1>1, HeightType
<1>4. n \in 0..Height(t, p)
  <2>1. CASE n > Height(t, p)
    <3>1. n \in Height(t, p)..Depth
      BY <1>1, <1>3, <2>1
    <3>2. Up(t, p)[n] = Top
      BY <1>1, <1>3, <3>1, UpStaysAtTop
    <3> QED BY <1>1, <1>2, <3>2
  <2> QED BY <1>1, <1>3, <2>1
<1>5. Height(t, i) = Height(t, p) - n
  BY <1>1, <1>2, <1>4, HeightFrom
<1>6. Height(t, p) < Height(t, i)
  BY <1>1, TreeRank, TreeItem DEF Ranked, Rank
<1> QED BY <1>1, <1>3, <1>4, <1>5, <1>6

\* An item is put under a folder that is seen and not below it: a new item, or one that is
\* seen itself.
LEMMA PutTree ==
  ASSUME NEW t, IsTree(t), NEW i \in Item, NEW p \in DriveFolder \cup {Top}, NEW n \in NamesOf[i],
         p = Top \/ (t[p] # NoItem /\ ~t[p].trashed), p # i, p \notin Below(t, i),
         t[i] # NoItem => ~t[i].trashed
  PROVE  IsTree([t EXCEPT ![i] = [parent |-> p, name |-> n, trashed |-> FALSE]])
<1> DEFINE rec == [parent |-> p, name |-> n, trashed |-> FALSE]
           u == [t EXCEPT ![i] = rec]
           R == Rank(t)
           r == [j \in Item \cup {Top} |->
                   IF j = i \/ j \in Below(t, i) THEN R[j] + R[p] + 1 ELSE R[j]]
<1>1. t \in Tables /\ Top \notin Item /\ NoItem \notin Record
  BY BernardDiffAssumption DEF IsTree, Tables
<1>2. R \in [Item \cup {Top} -> Nat] /\ Ranked(t, R) /\ p \in Item \cup {Top}
  BY TreeRank DEF Item
<1>3. n \in Name
  BY BernardDiffAssumption
<1>4. rec \in Record /\ rec # NoItem /\ rec.parent = p /\ rec.name = n /\ ~rec.trashed
  <2>1. rec \in Record
    BY <1>3 DEF Record
  <2> QED BY <1>1, <2>1
<1>5. u \in Tables /\ u[i] = rec /\ \A j \in Item : j # i => u[j] = t[j]
  <2> HIDE DEF rec
  <2> QED BY <1>1, <1>4 DEF Tables
<1>6. r \in [Item \cup {Top} -> Nat] /\ r[p] = R[p]
  <2>1. \A j \in Item \cup {Top} : R[j] + R[p] + 1 \in Nat /\ R[j] \in Nat
    BY <1>2
  <2> HIDE DEF R
  <2> QED BY <1>2, <2>1
<1>7. r[i] > R[p] /\ r[i] \in Nat /\ R[p] \in Nat
  <2>1. r[i] = R[i] + R[p] + 1 /\ R[i] \in Nat /\ R[p] \in Nat
    BY <1>2
  <2> HIDE DEF R, r
  <2> QED BY <2>1
<1> HIDE DEF rec, u
<1>8. ASSUME NEW j \in Item, j # i, t[j] # NoItem, t[j].parent # Top
      PROVE  /\ t[j].parent \in Item /\ u[t[j].parent] # NoItem /\ r[t[j].parent] < r[j]
             /\ u[t[j].parent].trashed => t[j].trashed
  <2> DEFINE q == t[j].parent
  <2>1. q \in Item /\ t[q] # NoItem /\ (t[q].trashed => t[j].trashed) /\ R[q] < R[j]
    <3>1. q \in Item /\ t[q] # NoItem /\ (t[q].trashed => t[j].trashed)
      BY <1>8, TreeItem
    <3> QED BY <1>2, <1>8, <3>1 DEF Ranked
  <2>2. j \in Below(t, i) <=> q \in Below(t, i)
    BY <1>8, BelowStep
  <2>3. q = i => q \in Below(t, i)
    BY <2>1, BelowStep
  <2> HIDE DEF q
  <2>4. r[q] < r[j]
    <3>1. R[q] \in Nat /\ R[j] \in Nat /\ R[p] \in Nat
      BY <1>2, <2>1
    <3>2. CASE j \in Below(t, i)
      <4>1. r[q] = R[q] + R[p] + 1 /\ r[j] = R[j] + R[p] + 1
        BY <2>1, <2>2, <3>2
      <4> HIDE DEF r, R
      <4> QED BY <2>1, <3>1, <4>1
    <3>3. CASE j \notin Below(t, i)
      <4>1. r[q] = R[q] /\ r[j] = R[j]
        BY <1>8, <2>1, <2>2, <2>3, <3>3
      <4> QED BY <2>1, <4>1
    <3> QED BY <3>2, <3>3
  <2>5. u[q] # NoItem /\ (u[q].trashed => t[j].trashed)
    BY <1>4, <1>5, <2>1
  <2> QED BY <2>1, <2>4, <2>5 DEF q
<1> HIDE DEF r, R
<1>9. p # Top => p \in Item /\ u[p] = t[p] /\ t[p] # NoItem /\ ~t[p].trashed /\ r[p] < r[i]
  BY <1>5, <1>6, <1>7 DEF Item
<1>10. Ranked(u, r)
  <2> SUFFICES ASSUME NEW j \in Item, u[j] # NoItem
               PROVE  \/ u[j].parent = Top
                      \/ /\ u[j].parent \in Item /\ u[u[j].parent] # NoItem
                         /\ r[u[j].parent] < r[j]
    BY DEF Ranked
  <2>1. CASE j = i
    BY <1>4, <1>5, <1>9, <2>1
  <2>2. CASE j # i
    BY <1>5, <1>8, <2>2
  <2> QED BY <2>1, <2>2
<1>11. ASSUME NEW j \in Item, u[j] # NoItem
       PROVE  /\ u[j].name \in NamesOf[j]
              /\ u[j].parent # Top => (u[u[j].parent].trashed => u[j].trashed)
  <2>1. CASE j = i
    BY <1>4, <1>5, <1>9, <2>1
  <2>2. CASE j # i
    <3>1. t[j] # NoItem /\ u[j] = t[j] /\ t[j].name \in NamesOf[j]
      BY <1>5, <1>11, <2>2, TreeItem
    <3> QED BY <1>8, <2>2, <3>1
  <2> QED BY <2>1, <2>2
<1>12. IsTree(u)
  BY <1>5, <1>6, <1>10, <1>11, TreeByRank
<1> QED BY <1>12 DEF u, rec

\* What is below an item is trashed, or restored when the item's folder is seen.
LEMMA MarkedTree ==
  ASSUME NEW t, IsTree(t), NEW i \in Item, t[i] # NoItem, NEW b \in BOOLEAN,
         b \/ t[i].parent = Top \/ ~t[t[i].parent].trashed
  PROVE  IsTree([j \in Item |-> IF j \in Below(t, i) THEN [t[j] EXCEPT !.trashed = b] ELSE t[j]])
<1> DEFINE u == [j \in Item |-> IF j \in Below(t, i) THEN [t[j] EXCEPT !.trashed = b] ELSE t[j]]
<1>1. t \in Tables /\ NoItem \notin Record
  BY BernardDiffAssumption DEF IsTree, Tables
<1>2. ASSUME NEW j \in Item
      PROVE  /\ t[j] = NoItem => u[j] = NoItem
             /\ t[j] # NoItem =>
                  /\ u[j] \in Record /\ u[j] # NoItem
                  /\ u[j].parent = t[j].parent /\ u[j].name = t[j].name
                  /\ j \in Below(t, i) => u[j].trashed = b
                  /\ j \notin Below(t, i) => u[j] = t[j]
  <2>1. CASE j \in Below(t, i)
    <3>1. t[j] # NoItem /\ t[j] \in Record /\ u[j] = [t[j] EXCEPT !.trashed = b]
      BY <1>1, <2>1 DEF Below, Tables
    <3> QED BY <1>1, <2>1, <3>1 DEF Record
  <2>2. CASE j \notin Below(t, i)
    BY <1>1, <2>2 DEF Tables
  <2> QED BY <2>1, <2>2
<1>3. u \in Tables
  <2>1. \A j \in Item : u[j] \in Record \cup {NoItem}
    BY <1>2
  <2>2. DOMAIN u = Item /\ u = [j \in Item |-> u[j]]
    OBVIOUS
  <2> HIDE DEF u
  <2> QED BY <2>1, <2>2 DEF Tables
<1> HIDE DEF u
<1>4. Rank(t) \in [Item \cup {Top} -> Nat] /\ Ranked(t, Rank(t))
  BY TreeRank
<1>5. Ranked(u, Rank(t))
  BY <1>2, <1>4 DEF Ranked
<1>6. ASSUME NEW j \in Item, u[j] # NoItem
      PROVE  /\ u[j].name \in NamesOf[j]
             /\ u[j].parent # Top => (u[u[j].parent].trashed => u[j].trashed)
  <2>1. t[j] # NoItem /\ u[j].parent = t[j].parent /\ u[j].name = t[j].name
    BY <1>2, <1>6
  <2>2. t[j].name \in NamesOf[j]
    BY <2>1, TreeItem
  <2>3. j \in Below(t, i) <=> j = i \/ t[j].parent \in Below(t, i)
    BY <2>1, BelowStep
  <2>4. ASSUME t[j].parent # Top, u[t[j].parent].trashed
        PROVE  u[j].trashed
    <3> DEFINE p == t[j].parent
    <3>1. p \in Item /\ t[p] # NoItem
      BY <2>1, <2>4, TreeItem
    <3>2. t[p].trashed => t[j].trashed
      BY <2>1, <2>4, TreeItem
    <3>3. CASE p \in Below(t, i)
      BY <1>2, <2>1, <2>3, <2>4, <3>1, <3>3
    <3>4. CASE p \notin Below(t, i) /\ j = i
      <4>1. u[p] = t[p] /\ u[j].trashed = b
        BY <1>2, <2>1, <2>3, <3>1, <3>4
      <4>2. t[p].trashed /\ p # Top
        BY <2>4, <4>1
      <4>3. b
        BY <3>4, <4>2
      <4> QED BY <4>1, <4>3
    <3>5. CASE p \notin Below(t, i) /\ j # i
      <4>1. u[p] = t[p] /\ u[j] = t[j]
        BY <1>2, <2>1, <2>3, <3>1, <3>5
      <4> QED BY <2>4, <3>2, <4>1
    <3> QED BY <3>3, <3>4, <3>5
  <2> QED BY <2>1, <2>2, <2>4
<1>7. IsTree(u)
  BY <1>3, <1>4, <1>5, <1>6, TreeByRank
<1> QED BY <1>7 DEF u

\* An item goes with everything below it.
LEMMA PrunedTree ==
  ASSUME NEW t, IsTree(t), NEW i \in Item, t[i] # NoItem
  PROVE  IsTree([j \in Item |-> IF j \in Below(t, i) THEN NoItem ELSE t[j]])
<1> DEFINE u == [j \in Item |-> IF j \in Below(t, i) THEN NoItem ELSE t[j]]
<1>1. t \in Tables
  BY DEF IsTree, Tables
<1>2. u \in Tables /\ \A j \in Item : u[j] # NoItem <=> t[j] # NoItem /\ j \notin Below(t, i)
  BY <1>1 DEF Tables
<1>3. \A j \in Item : u[j] # NoItem => u[j] = t[j]
  OBVIOUS
<1> HIDE DEF u
<1>4. Rank(t) \in [Item \cup {Top} -> Nat] /\ Ranked(t, Rank(t))
  BY TreeRank
<1>5. ASSUME NEW j \in Item, u[j] # NoItem
      PROVE  /\ t[j] # NoItem /\ u[j] = t[j]
             /\ t[j].parent # Top => /\ t[j].parent \in Item /\ t[t[j].parent] # NoItem
                                    /\ u[t[j].parent] = t[t[j].parent]
  <2>1. t[j] # NoItem /\ j \notin Below(t, i) /\ u[j] = t[j]
    BY <1>2, <1>3, <1>5
  <2>2. t[j].parent \notin Below(t, i)
    BY <2>1, BelowStep
  <2> QED BY <1>2, <1>3, <2>1, <2>2, TreeItem
<1>6. Ranked(u, Rank(t))
  <2> SUFFICES ASSUME NEW j \in Item, u[j] # NoItem, u[j].parent # Top
               PROVE  /\ u[j].parent \in Item /\ u[u[j].parent] # NoItem
                      /\ Rank(t)[u[j].parent] < Rank(t)[j]
    BY DEF Ranked
  <2>1. u[j] = t[j] /\ t[j] # NoItem /\ t[j].parent # Top
    BY <1>5
  <2>2. t[j].parent \in Item /\ t[t[j].parent] # NoItem /\ u[t[j].parent] = t[t[j].parent]
    BY <1>5, <2>1
  <2>3. Rank(t)[t[j].parent] < Rank(t)[j]
    BY <1>4, <2>1 DEF Ranked
  <2> QED BY <2>1, <2>2, <2>3
<1>7. ASSUME NEW j \in Item, u[j] # NoItem
      PROVE  /\ u[j].name \in NamesOf[j]
             /\ u[j].parent # Top => (u[u[j].parent].trashed => u[j].trashed)
  <2>1. u[j] = t[j] /\ t[j] # NoItem
    BY <1>5, <1>7
  <2>2. t[j].name \in NamesOf[j]
    BY <2>1, TreeItem
  <2>3. ASSUME t[j].parent # Top
        PROVE  u[t[j].parent].trashed => t[j].trashed
    <3>1. u[t[j].parent] = t[t[j].parent]
      BY <1>5, <1>7, <2>3
    <3>2. t[t[j].parent].trashed => t[j].trashed
      BY <2>1, <2>3, TreeItem
    <3> QED BY <3>1, <3>2
  <2> QED BY <2>1, <2>2, <2>3
<1>8. IsTree(u)
  BY <1>2, <1>4, <1>6, <1>7, TreeByRank
<1> QED BY <1>8 DEF u

\* Every change of the drive leaves a tree.
LEMMA ChangedDrive ==
  ASSUME IsTree(drive), DriveChange
  PROVE  IsTree(drive') /\ UNCHANGED store
<1>1. PICK i \in Item :
        \/ \E p \in DriveFolder \cup {Top} : Upload(i, p) \/ Move(i, p)
        \/ Rename(i) \/ Trash(i) \/ Restore(i) \/ Delete(i)
  BY DEF DriveChange
<1>2. UNCHANGED store
  BY <1>1 DEF Upload, Move, Rename, Trash, Restore, Delete, Operation
<1>3. \A p : Live(p) => p = Top \/ (drive[p] # NoItem /\ ~drive[p].trashed)
  BY DEF Live
<1>4. i # Top
  BY BernardDiffAssumption
<1>5. ASSUME NEW p \in DriveFolder \cup {Top}, Upload(i, p)
      PROVE  IsTree(drive')
  <2>1. drive[i] = NoItem /\ (p = Top \/ (drive[p] # NoItem /\ ~drive[p].trashed)) /\ p # i
    BY <1>3, <1>4, <1>5 DEF Upload
  <2>2. p \notin Below(drive, i)
    <3> SUFFICES ASSUME p \in Below(drive, i)
                 PROVE  FALSE
      OBVIOUS
    <3>1. PICK n \in 0..Depth : Up(drive, p)[n] = i
      BY DEF Below
    <3>2. p \in Item /\ drive[p] # NoItem
      BY DEF Below
    <3> QED BY <1>4, <2>1, <3>1, <3>2, TreeWay
  <2>3. PICK n \in NamesOf[i] : drive' = [drive EXCEPT ![i] = [parent |-> p, name |-> n, trashed |-> FALSE]]
    BY <1>5 DEF Upload, Put
  <2> QED BY <2>1, <2>2, <2>3, PutTree
<1>6. ASSUME NEW p \in DriveFolder \cup {Top}, Move(i, p)
      PROVE  IsTree(drive')
  <2>1. /\ drive[i] # NoItem /\ ~drive[i].trashed /\ p \notin Below(drive, i)
        /\ p = Top \/ (drive[p] # NoItem /\ ~drive[p].trashed)
        /\ drive' = [drive EXCEPT ![i] = [parent |-> p, name |-> drive[i].name, trashed |-> FALSE]]
    BY <1>3, <1>4, <1>6 DEF Move, Put
  <2>2. p # i /\ drive[i].name \in NamesOf[i]
    BY <2>1, BelowStep, TreeItem
  <2> QED BY <2>1, <2>2, PutTree
<1>7. ASSUME Rename(i)
      PROVE  IsTree(drive')
  <2>1. drive[i] # NoItem /\ ~drive[i].trashed
    BY <1>3, <1>4, <1>7 DEF Rename
  <2> DEFINE p == drive[i].parent
  <2>2. PICK n \in NamesOf[i] : drive' = [drive EXCEPT ![i] = [parent |-> p, name |-> n, trashed |-> FALSE]]
    BY <1>7 DEF Rename, Put
  <2>3. /\ p \in DriveFolder \cup {Top} /\ p \notin Below(drive, i)
        /\ p = Top \/ (drive[p] # NoItem /\ ~drive[p].trashed)
    BY <2>1, TreeItem, ParentNotBelow
  <2>4. p # i
    BY <2>1, <2>3, BelowStep
  <2> HIDE DEF p
  <2> QED BY <2>1, <2>2, <2>3, <2>4, PutTree
<1>8. ASSUME Trash(i)
      PROVE  IsTree(drive')
  BY <1>8, MarkedTree DEF Trash, Marked
<1>9. ASSUME Restore(i)
      PROVE  IsTree(drive')
  <2>1. drive[i] # NoItem /\ (drive[i].parent = Top \/ ~drive[drive[i].parent].trashed)
    BY <1>9 DEF Restore, Live
  <2> QED BY <1>9, <2>1, MarkedTree DEF Restore, Marked
<1>10. ASSUME Delete(i)
       PROVE  IsTree(drive')
  BY <1>10, PrunedTree DEF Delete
<1> QED BY <1>1, <1>2, <1>5, <1>6, <1>7, <1>8, <1>9, <1>10

-----------------------------------------------------------------------------
(* The lookups of the hooks.                                                *)

\* Every item of the drive or of the store is in the map, with its record there.
Complete(m) ==
  /\ m \in Tables
  /\ \A j \in In(store) \cup In(drive) : m[j] # NoItem
  /\ \A j \in Item : m[j] # NoItem => \/ j \in In(store) /\ m[j] = store[j]
                                      \/ j \in In(drive) /\ m[j] = drive[j]

LEMMA MapsComplete ==
  ASSUME IsTree(store), IsTree(drive)
  PROVE  Complete(Current) /\ Complete(Old)
<1>1. Current \in Tables /\ Old \in Tables
  BY DiffTypes
<1>2. /\ \A i \in Added \cup Changed \cup Trashed : i \in In(drive)
      /\ \A i \in In(drive) : i \in In(store) \/ i \in Added
  BY DEF Added, Changed, Differs, Restored, Trashed, In
<1>3. In(store) \subseteq Item /\ In(drive) \subseteq Item
  BY DEF In
<1>4. Complete(Current)
  <2>1. \A j \in Item : Current[j] = IF j \in Added \cup Changed THEN drive[j] ELSE store[j]
    BY DEF Current
  <2>2. \A j \in In(store) \cup In(drive) : Current[j] # NoItem
    BY <1>2, <1>3, <2>1 DEF In
  <2>3. \A j \in Item : Current[j] # NoItem => \/ j \in In(store) /\ Current[j] = store[j]
                                               \/ j \in In(drive) /\ Current[j] = drive[j]
    BY <1>2, <2>1 DEF In
  <2> QED BY <1>1, <2>2, <2>3 DEF Complete
<1>5. Complete(Old)
  <2>1. \A j \in Item : Old[j] = IF j \in Added \cup Trashed THEN drive[j] ELSE store[j]
    BY DEF Old
  <2>2. \A j \in In(store) \cup In(drive) : Old[j] # NoItem
    BY <1>2, <1>3, <2>1 DEF In
  <2>3. \A j \in Item : Old[j] # NoItem => \/ j \in In(store) /\ Old[j] = store[j]
                                           \/ j \in In(drive) /\ Old[j] = drive[j]
    BY <1>2, <2>1 DEF In
  <2> QED BY <1>1, <2>2, <2>3 DEF Complete
<1> QED BY <1>4, <1>5

\* The way up from a known folder does not leave what is known.
LEMMA KnownWay ==
  ASSUME IsTree(store), IsTree(drive), NEW m, Complete(m),
         NEW i \in Item \cup {Top}, i # Top => m[i] # NoItem
  PROVE  Up(m, i)[Depth] # NoItem
<1> DEFINE known(j) == j = Top \/ (j \in Item /\ m[j] # NoItem)
           T == {n \in Nat : n \in 0..Depth => known(Up(m, i)[n])}
<1>1. m \in Tables /\ i \in Node /\ Depth \in Nat
  BY DepthType DEF Complete, Node
<1>2. ASSUME NEW j \in Item, m[j] # NoItem
      PROVE  known(m[j].parent)
  <2>1. PICK t \in {store, drive} : IsTree(t) /\ j \in In(t) /\ m[j] = t[j]
    BY <1>2 DEF Complete
  <2>2. t[j] # NoItem
    BY <2>1 DEF In
  <2>3. \/ t[j].parent = Top
        \/ t[j].parent \in Item /\ t[t[j].parent] # NoItem
    BY <2>1, <2>2, TreeItem
  <2>4. CASE t[j].parent \in Item /\ t[t[j].parent] # NoItem
    <3>1. t[j].parent \in In(store) \cup In(drive)
      BY <2>1, <2>4 DEF In
    <3> QED BY <2>1, <2>4, <3>1 DEF Complete
  <2> QED BY <2>1, <2>3, <2>4
<1>3. 0 \in T
  <2>1. Up(m, i)[0] = i
    BY <1>1, UpEquation
  <2>2. known(i)
    OBVIOUS
  <2>3. known(Up(m, i)[0])
    BY <2>1, <2>2
  <2> QED BY <2>3
<1>4. ASSUME NEW n \in Nat, n \in T
      PROVE  n + 1 \in T
  <2>1. CASE n + 1 \in 0..Depth
    <3>1. n \in 0..Depth /\ n + 1 \in 1..Depth /\ n + 1 - 1 = n
      BY <1>1, <2>1
    <3>2. known(Up(m, i)[n]) /\ Up(m, i)[n] \in Node
      BY <1>1, <1>4, <3>1, UpEquation
    <3>3. Up(m, i)[n + 1] = ParentIn(m, Up(m, i)[n])
      BY <1>1, <3>1, UpEquation
    <3>4. known(ParentIn(m, Up(m, i)[n]))
      BY <1>1, <1>2, <3>2, ParentType
    <3> QED BY <3>3, <3>4
  <2> QED BY <2>1
<1> HIDE DEF T
<1>5. Depth \in T /\ Depth \in 0..Depth
  BY <1>1, <1>3, <1>4, InductiveSet
<1>6. known(Up(m, i)[Depth])
  BY <1>5 DEF T
<1> QED BY <1>6, BernardDiffAssumption

\* No hook ends with "folder not found": whatever changed, each folder that is looked up is
\* in the diff or in the store.
LEMMA LookupsSucceed ==
  ASSUME IsTree(store), IsTree(drive)
  PROVE  ~NotFound
<1>1. Complete(Current) /\ Complete(Old)
  BY MapsComplete
<1>2. ASSUME NEW i \in NewParents, i # Top
      PROVE  i \in Item /\ Current[i] # NoItem
  <2>1. /\ \A j \in Added \cup Changed : j \in Item /\ drive[j] # NoItem
        /\ \A j \in Item : drive[j] # NoItem => Current[j] # NoItem
    BY <1>1, DiffTypes DEF Complete, In
  <2>2. CASE i \in Changed
    BY <2>1, <2>2
  <2>3. CASE \E f \in Added \cup Changed : i = drive[f].parent
    BY <1>2, <2>1, <2>3, TreeItem
  <2> QED BY <2>2, <2>3 DEF NewParents, ParentsIn
<1>3. ASSUME NEW i \in OldParents, i # Top
      PROVE  i \in Item /\ Old[i] # NoItem
  <2>1. \A j \in Changed \cup Removed : j \in Item /\ Old[j] # NoItem
    BY DiffTypes
  <2>2. CASE i \in Changed \cup Removed
    BY <2>1, <2>2
  <2>3. CASE \E f \in Changed \cup Removed : i = Old[f].parent
    <3>1. PICK f \in Item : Old[f] # NoItem /\ i = Old[f].parent
      BY <2>1, <2>3
    <3>2. PICK t \in {store, drive} : IsTree(t) /\ f \in In(t) /\ Old[f] = t[f]
      BY <1>1, <3>1 DEF Complete
    <3>3. i \in Item /\ t[i] # NoItem
      BY <1>3, <3>1, <3>2, TreeItem
    <3> QED BY <1>1, <3>2, <3>3 DEF Complete, In
  <2> QED BY <2>2, <2>3 DEF OldParents, ParentsIn
<1>4. NewParents \subseteq Item \cup {Top} /\ OldParents \subseteq Item \cup {Top}
  BY <1>2, <1>3
<1>5. \A i \in NewParents : Up(Current, i)[Depth] # NoItem
  BY <1>1, <1>2, <1>4, KnownWay
<1>6. \A i \in OldParents : Up(Old, i)[Depth] # NoItem
  BY <1>1, <1>3, <1>4, KnownWay
<1>7. /\ \A i \in NewParents \ {Top} : Current[i] # NoItem
      /\ \A i \in OldParents \ {Top} : Old[i] # NoItem
  BY <1>2, <1>3
<1> QED BY <1>5, <1>6, <1>7 DEF NotFound, WaysUp, RootFolders

-----------------------------------------------------------------------------
(* Ways without an end.                                                     *)

Seen(t, j) == t[j] # NoItem /\ ~t[j].trashed

\* The record that shows the way in a map of records of two trees: that of the first tree, but
\* for an item that is seen only in the second or is only there.
Guide(u, v, j) ==
  IF Seen(u, j) \/ (~Seen(v, j) /\ u[j] # NoItem) THEN u[j] ELSE v[j]

LEMMA RankBound ==
  ASSUME NEW t, IsTree(t), NEW i \in Item
  PROVE  Rank(t)[i] \in 0..Depth
<1>1. Depth \in Nat /\ t \in Tables /\ i \in Node
  BY DepthType DEF IsTree, Tables, Node
<1>2. CASE t[i] # NoItem
  BY <1>1, <1>2, TreeItem, HeightType DEF Rank
<1>3. CASE t[i] = NoItem
  BY <1>1, <1>3 DEF Rank
<1> QED BY <1>2, <1>3

\* A way through such a map visits four kinds of items in this order and none of them again:
\* only in the second tree, trashed in the first, seen in the second, seen in the first.
LEMMA GuidedWay ==
  ASSUME IsTree(store), IsTree(drive), NEW m, Complete(m),
         NEW u, NEW v, (u = drive /\ v = store) \/ (u = store /\ v = drive),
         \A j \in DriveFolder : m[j] # NoItem => m[j].parent = Guide(u, v, j).parent,
         NEW i \in DriveFolder \cup {Top}, i # Top => m[i] # NoItem
  PROVE  Up(m, i)[Depth] = Top
<1> DEFINE M == Depth + 1
           phase(j) ==
             IF Seen(u, j) THEN Rank(u)[j]
             ELSE IF Seen(v, j) THEN M + Rank(v)[j]
             ELSE IF u[j] # NoItem THEN M + M + Rank(u)[j]
             ELSE M + M + M + Rank(v)[j]
           r == [j \in Item \cup {Top} |->
                   IF j \in DriveFolder THEN phase(j)
                   ELSE IF j = Top THEN 0 ELSE M + M + M + M]
<1>1. /\ IsTree(u) /\ IsTree(v) /\ m \in Tables /\ Depth \in Nat /\ M = Depth + 1
      /\ DriveFolder \subseteq Item /\ Top \notin Item
      /\ \A j \in Item : m[j] # NoItem <=> u[j] # NoItem \/ v[j] # NoItem
  BY DepthType, BernardDiffAssumption DEF Complete, In, Item
<1>2. \A j \in Item : /\ Rank(u)[j] \in Nat /\ Rank(u)[j] < M
                      /\ Rank(v)[j] \in Nat /\ Rank(v)[j] < M
  BY <1>1, RankBound
<1> HIDE DEF M
<1>3. \A j \in Item : phase(j) \in Nat /\ phase(j) < M + M + M + M
  BY <1>1, <1>2
<1>4. ASSUME NEW t \in {u, v}, NEW j \in Item, t[j] # NoItem, t[j].parent # Top
      PROVE  /\ t[j].parent \in DriveFolder /\ t[j].parent \in Item
             /\ t[t[j].parent] # NoItem
             /\ Rank(t)[t[j].parent] < Rank(t)[j]
             /\ Seen(t, j) => Seen(t, t[j].parent)
  <2>1. IsTree(t)
    BY <1>1
  <2>2. t[j].parent \in DriveFolder /\ t[j].parent \in Item /\ t[t[j].parent] # NoItem
    BY <1>4, <2>1, TreeItem
  <2>3. Rank(t)[t[j].parent] < Rank(t)[j]
    BY <1>1, <1>4, <2>1, TreeRank DEF Ranked
  <2>4. Seen(t, j) => Seen(t, t[j].parent)
    <3>1. t[t[j].parent].trashed => t[j].trashed
      BY <1>4, <2>1, TreeItem
    <3> QED BY <2>2, <3>1 DEF Seen
  <2> QED BY <2>2, <2>3, <2>4
<1>5. ASSUME NEW j \in DriveFolder, m[j] # NoItem, m[j].parent # Top
      PROVE  phase(m[j].parent) < phase(j)
  <2> DEFINE p == m[j].parent
  <2>1. j \in Item /\ p = Guide(u, v, j).parent /\ (u[j] # NoItem \/ v[j] # NoItem)
    <3> HIDE DEF phase
    <3>1. j \in Item
      BY <1>1
    <3>2. p = Guide(u, v, j).parent
      BY <1>5
    <3>3. u[j] # NoItem \/ v[j] # NoItem
      BY <1>1, <1>5, <3>1
    <3> QED BY <3>1, <3>2, <3>3
  <2>2. CASE Seen(u, j)
    <3>1. p = u[j].parent /\ u[j] # NoItem
      BY <2>1, <2>2 DEF Guide, Seen
    <3>2. Seen(u, p) /\ Rank(u)[p] < Rank(u)[j]
      BY <1>4, <1>5, <2>1, <2>2, <3>1
    <3> QED BY <2>2, <3>2
  <2>3. CASE ~Seen(u, j) /\ Seen(v, j)
    <3>1. p = v[j].parent /\ v[j] # NoItem
      BY <2>1, <2>3 DEF Guide, Seen
    <3>2. p \in Item /\ Seen(v, p) /\ Rank(v)[p] < Rank(v)[j]
      BY <1>4, <1>5, <2>1, <2>3, <3>1
    <3> HIDE DEF p
    <3> QED BY <1>1, <1>2, <2>1, <2>3, <3>2
  <2>4. CASE ~Seen(u, j) /\ ~Seen(v, j) /\ u[j] # NoItem
    <3>1. p = u[j].parent
      BY <2>1, <2>4 DEF Guide
    <3>2. p \in Item /\ u[p] # NoItem /\ Rank(u)[p] < Rank(u)[j]
      BY <1>4, <1>5, <2>1, <2>4, <3>1
    <3> HIDE DEF p
    <3> QED BY <1>1, <1>2, <2>1, <2>4, <3>2
  <2>5. CASE ~Seen(u, j) /\ ~Seen(v, j) /\ u[j] = NoItem
    <3>1. p = v[j].parent /\ v[j] # NoItem
      BY <2>1, <2>5 DEF Guide
    <3>2. p \in Item /\ v[p] # NoItem /\ Rank(v)[p] < Rank(v)[j]
      BY <1>4, <1>5, <2>1, <3>1
    <3> HIDE DEF p
    <3> QED BY <1>1, <1>2, <2>1, <2>5, <3>2
  <2> QED BY <2>2, <2>3, <2>4, <2>5
<1> HIDE DEF phase
<1>6. r \in [Item \cup {Top} -> Nat]
  BY <1>1, <1>3
<1>7. ASSUME NEW j \in Item, m[j] # NoItem, m[j].parent # Top
      PROVE  m[j].parent \in Item /\ m[m[j].parent] # NoItem /\ r[m[j].parent] < r[j]
  <2>1. PICK t \in {u, v} : t[j] # NoItem /\ m[j] = t[j]
    BY <1>7 DEF Complete, In
  <2>2. m[j].parent \in DriveFolder /\ m[j].parent \in Item /\ t[m[j].parent] # NoItem
    BY <1>4, <1>7, <2>1
  <2>3. m[m[j].parent] # NoItem
    BY <1>1, <2>1, <2>2
  <2>4. r[m[j].parent] = phase(m[j].parent)
    BY <2>2
  <2>5. CASE j \in DriveFolder
    BY <1>5, <1>7, <2>2, <2>3, <2>4, <2>5
  <2>6. CASE j \notin DriveFolder
    <3>1. r[j] = M + M + M + M
      BY <1>1, <2>6
    <3> QED BY <1>3, <2>2, <2>3, <2>4, <3>1
  <2> QED BY <2>5, <2>6
<1> HIDE DEF r
<1>8. Ranked(m, r)
  BY <1>7 DEF Ranked
<1>9. CASE i = Top
  <2>1. Up(m, i)[0] = Top /\ Depth \in 0..Depth /\ 0 \in 0..Depth /\ i \in Node
    BY <1>1, <1>9, UpEquation DEF Node
  <2> QED BY <1>1, <2>1, UpStaysAtTop
<1>10. CASE i # Top
  BY <1>1, <1>6, <1>8, <1>10, RankedWay
<1> QED BY <1>9, <1>10

\* The new records lead to the top, whatever changed.  So do the old ones if no folder was
\* moved and then trashed.
LEMMA WaysEnd ==
  ASSUME IsTree(store), IsTree(drive),
         \A i \in Trashed \cap DriveFolder : store[i].parent = drive[i].parent
  PROVE  ~Endless
<1>1. Complete(Current) /\ Complete(Old) /\ ~NotFound
  BY MapsComplete, LookupsSucceed
<1>2. /\ NewParents \subseteq DriveFolder \cup {Top} /\ OldParents \subseteq DriveFolder \cup {Top}
      /\ \A i \in NewParents : i # Top => Current[i] # NoItem
      /\ \A i \in OldParents : i # Top => Old[i] # NoItem
  BY <1>1, DiffTypes DEF NotFound
<1>3. ASSUME NEW j \in DriveFolder, Current[j] # NoItem
      PROVE  Current[j] = Guide(drive, store, j)
  <2>1. /\ j \in Item
        /\ Current[j] = IF j \in Added \cup Changed THEN drive[j] ELSE store[j]
    BY DEF Item, Current
  <2> QED BY <1>3, <2>1
      DEF Guide, Seen, Added, Changed, Differs, Restored, Trashed, In
<1>4. ASSUME NEW j \in DriveFolder, Old[j] # NoItem
      PROVE  Old[j].parent = Guide(store, drive, j).parent
  <2>1. /\ j \in Item
        /\ Old[j] = IF j \in Added \cup Trashed THEN drive[j] ELSE store[j]
    BY DEF Item, Old
  <2>2. CASE j \in Trashed
    <3>1. Guide(store, drive, j) = store[j]
      BY <2>2 DEF Guide, Seen, Trashed, Differs, In
    <3> QED BY <2>1, <2>2, <3>1
  <2>3. CASE j \notin Trashed
    <3>1. Old[j] = Guide(store, drive, j)
      BY <1>4, <2>1, <2>3 DEF Guide, Seen, Added, Differs, Restored, Trashed, In
    <3> QED BY <3>1
  <2> QED BY <2>2, <2>3
<1>5. \A i \in NewParents : Up(Current, i)[Depth] = Top
  BY <1>1, <1>2, <1>3, GuidedWay
<1>6. \A i \in OldParents : Up(Old, i)[Depth] = Top
  BY <1>1, <1>2, <1>4, GuidedWay
<1>7. Top \notin DriveFolder
  BY BernardDiffAssumption DEF Item
<1> QED BY <1>5, <1>6, <1>7 DEF Endless, WaysUp, RootFolders

-----------------------------------------------------------------------------
(* The theorems.                                                            *)

\* What the store and the drive hold are trees at all times.
DiffInv == IsTree(store) /\ IsTree(drive)

LEMMA DiffInvariance == DiffSpec => []DiffInv
<1>1. DiffInit => DiffInv
  BY TreesAssumption DEF DiffInit, DiffInv
<1>2. ASSUME DiffInv, [DiffNext]_tree
      PROVE  DiffInv'
  <2>1. CASE DriveChange
    BY <1>2, <2>1, ChangedDrive DEF DiffInv
  <2>2. CASE StoreChanges
    BY <1>2, <2>2 DEF DiffInv, StoreChanges
  <2>3. CASE SyncHangs
    BY <1>2, <2>3 DEF DiffInv, SyncHangs
  <2>4. CASE UNCHANGED tree
    BY <1>2, <2>4 DEF DiffInv, tree
  <2> QED BY <1>2, <2>1, <2>2, <2>3, <2>4 DEF DiffNext
<1> QED BY <1>1, <1>2, PTL DEF DiffSpec

\* A sync can hang only after a folder was moved and then trashed.
THEOREM HangsAreTrashedMoves == DiffSpec => []OnlyTrashedMovesHang
<1>1. ASSUME DiffInv
      PROVE  OnlyTrashedMovesHang
  BY <1>1, WaysEnd DEF DiffInv, OnlyTrashedMovesHang
<1> QED BY <1>1, DiffInvariance, PTL

\* No sync fails because a folder of its diff is not found.
THEOREM LookupsAlwaysSucceed == DiffSpec => []FoldersAreFound
<1>1. ASSUME DiffInv
      PROVE  FoldersAreFound
  BY <1>1, LookupsSucceed DEF DiffInv, FoldersAreFound
<1> QED BY <1>1, DiffInvariance, PTL
=============================================================================
