--------------------------- MODULE ScanStoreProofs ---------------------------
(***************************************************************************)
(* Lemmas about the operators of ScanStore: what a statement, and a batch  *)
(* of them, does to the table.                                             *)
(***************************************************************************)
EXTENDS ScanStore, DataLemmas

-----------------------------------------------------------------------------
(* The table.                                                               *)

\* The row a scan makes, and the one it merges into, are rows.
LEMMA RowTypes ==
  ASSUME NEW s \in Scan
  PROVE  RowOf(s) \in Row /\ \A r \in Row : Merged(r, s) \in Row
BY StoreAssumption DEF RowOf, Merged, Larger, Row, Scan

\* An upsert gives a table: it touches the row of one folder, which then exists.
LEMMA UpsertedTable ==
  ASSUME NEW T \in Table, NEW s \in Scan
  PROVE  /\ Upserted(T, s) \in Table
         /\ Upserted(T, s)[s.folder] # NoRow
         /\ \A f \in Folder : f # s.folder => Upserted(T, s)[f] = T[f]
<1>1. s.folder \in Folder
  BY DEF Scan
<1>2. T[s.folder] \in Row \cup {NoRow}
  BY <1>1 DEF Table
<1> DEFINE r == IF T[s.folder] = NoRow THEN RowOf(s) ELSE Merged(T[s.folder], s)
<1>3. r \in Row /\ r # NoRow
  <2>1. r \in Row
    BY <1>2, RowTypes
  <2> QED
    BY <2>1, StoreAssumption
<1> HIDE DEF r
<1>4. Upserted(T, s) = [T EXCEPT ![s.folder] = r]
  BY DEF Upserted, r
<1> QED
  BY <1>1, <1>3, <1>4 DEF Table

\* A deletion gives a table: it touches one folder, which then has no row.
LEMMA DeletedTable ==
  ASSUME NEW T \in Table, NEW f \in Folder
  PROVE  /\ Deleted(T, f) \in Table
         /\ Deleted(T, f)[f] = NoRow
         /\ \A g \in Folder : g # f => Deleted(T, f)[g] = T[g]
BY DEF Deleted, Table

-----------------------------------------------------------------------------
(* A batch.                                                                 *)

\* The tables that the upserts of a batch make one after the other.
LEMMA UpsertedEachStep ==
  ASSUME NEW T \in Table, NEW b \in Seq(Scan)
  PROVE  /\ UpsertedEach(T, b) \in [0..Len(b) -> Table]
         /\ UpsertedEach(T, b)[0] = T
         /\ \A n \in 1..Len(b) :
              UpsertedEach(T, b)[n] = Upserted(UpsertedEach(T, b)[n - 1], b[n])
<1> DEFINE k == Len(b)
           F == [p \in Nat \X Table |-> IF p[1] \in 1..k THEN Upserted(p[2], b[p[1]]) ELSE p[2]]
           Is(g) == g = [n \in 0..k |-> IF n = 0 THEN T ELSE Upserted(g[n - 1], b[n])]
<1>1. k \in Nat /\ \A n \in 1..k : b[n] \in Scan
  OBVIOUS
<1>2. F \in [Nat \X Table -> Table]
  <2>1. ASSUME NEW p \in Nat \X Table
        PROVE  (IF p[1] \in 1..k THEN Upserted(p[2], b[p[1]]) ELSE p[2]) \in Table
    BY <1>1, UpsertedTable
  <2> QED BY <2>1
<1>3. \A n \in 1..k : \A U \in Table : F[<<n, U>>] = Upserted(U, b[n])
  BY <1>1
<1> HIDE DEF F, k
<1>4. PICK g \in [0..k -> Table] : Iterates(g, T, F, k)
  BY <1>1, <1>2, Iteration
<1>5. \A n \in 1..k : n - 1 \in 0..k /\ g[n - 1] \in Table
  BY <1>1
<1>6. \A n \in 1..k : g[n] = Upserted(g[n - 1], b[n])
  BY <1>3, <1>4, <1>5 DEF Iterates
<1>7. Is(g)
  BY <1>1, <1>4, <1>6 DEF Iterates
<1>8. UpsertedEach(T, b) = CHOOSE h : Is(h)
  BY DEF UpsertedEach, k
<1>9. Is(UpsertedEach(T, b))
  BY <1>7, <1>8
<1> QED BY <1>9 DEF k

\* The row of an upsert has the relative path of the scan.
LEMMA UpsertedPath ==
  ASSUME NEW T \in Table, NEW s \in Scan
  PROVE  Upserted(T, s)[s.folder].relativePath = s.relativePath
<1>1. s.folder \in Folder /\ s.folder \in DOMAIN T
  BY DEF Scan, Table
<1>2. Upserted(T, s)[s.folder] =
        IF T[s.folder] = NoRow THEN RowOf(s) ELSE Merged(T[s.folder], s)
  BY <1>1 DEF Upserted
<1>3. /\ RowOf(s).relativePath = s.relativePath
      /\ Merged(T[s.folder], s).relativePath = s.relativePath
  BY DEF RowOf, Merged
<1> QED BY <1>2, <1>3

\* A batch leaves every folder queued, queues those of its scans, and a row has the relative
\* path of a scan of its folder or is the row of before.
LEMMA UpsertedAllRows ==
  ASSUME NEW T \in Table, NEW b \in Seq(Scan)
  PROVE  /\ UpsertedAll(T, b) \in Table
         /\ Queued(T) \subseteq Queued(UpsertedAll(T, b))
         /\ \A i \in 1..Len(b) : b[i].folder \in Queued(UpsertedAll(T, b))
         /\ \A f \in Queued(UpsertedAll(T, b)) :
              \/ /\ f \in Queued(T) /\ \A i \in 1..Len(b) : b[i].folder # f
                 /\ UpsertedAll(T, b)[f].relativePath = T[f].relativePath
              \/ \E i \in 1..Len(b) : /\ f = b[i].folder
                                     /\ UpsertedAll(T, b)[f].relativePath = b[i].relativePath
<1> DEFINE k == Len(b)
           g == UpsertedEach(T, b)
           From(U, n) ==
             /\ U \in Table /\ Queued(T) \subseteq Queued(U)
             /\ \A i \in 1..n : b[i].folder \in Queued(U)
             /\ \A f \in Queued(U) :
                  \/ /\ f \in Queued(T) /\ \A i \in 1..n : b[i].folder # f
                     /\ U[f].relativePath = T[f].relativePath
                  \/ \E i \in 1..n : f = b[i].folder /\ U[f].relativePath = b[i].relativePath
<1>1. /\ k \in Nat /\ g[0] = T /\ g \in [0..k -> Table]
      /\ \A n \in 1..k : g[n] = Upserted(g[n - 1], b[n]) /\ b[n] \in Scan
  BY UpsertedEachStep
<1> HIDE DEF g, k
<1> DEFINE S == {n \in Nat : n \in 0..k => From(g[n], n)}
<1>2. 0 \in S
  BY <1>1
<1>3. ASSUME NEW n \in Nat, n \in S
      PROVE  n + 1 \in S
  <2>1. CASE n + 1 \in 0..k
    <3> DEFINE s == b[n + 1]
               U == g[n]
               V == g[n + 1]
    <3>1. /\ n \in 0..k /\ n + 1 \in 1..k /\ n + 1 - 1 = n
          /\ \A i \in 1..(n + 1) : i \in 1..n \/ i = n + 1
          /\ \A i \in 1..n : i \in 1..(n + 1)
          /\ n + 1 \in 1..(n + 1)
      BY <1>1, <2>1
    <3>2. From(U, n)
      BY <1>3, <3>1
    <3>3. V = Upserted(U, s) /\ s \in Scan /\ U \in Table
      BY <1>1, <3>1
    <3> HIDE DEF s, U, V
    <3>4. /\ V \in Table /\ V[s.folder] # NoRow /\ s.folder \in Folder
          /\ \A f \in Folder : f # s.folder => V[f] = U[f]
          /\ V[s.folder].relativePath = s.relativePath
      BY <3>3, UpsertedTable, UpsertedPath DEF Scan
    <3>5. /\ Queued(U) \subseteq Queued(V) /\ s.folder \in Queued(V)
          /\ \A f \in Queued(V) : f # s.folder => f \in Queued(U) /\ V[f] = U[f]
      BY <3>4 DEF Queued
    <3>6. \A i \in 1..(n + 1) : b[i].folder \in Queued(V)
      BY <3>1, <3>2, <3>5 DEF s
    <3>7. ASSUME NEW f \in Queued(V)
          PROVE  \/ /\ f \in Queued(T) /\ \A i \in 1..(n + 1) : b[i].folder # f
                    /\ V[f].relativePath = T[f].relativePath
                 \/ \E i \in 1..(n + 1) : f = b[i].folder /\ V[f].relativePath = b[i].relativePath
      <4>1. CASE f = s.folder
        BY <3>1, <3>4, <4>1 DEF s
      <4>2. CASE f # s.folder
        <5>1. f \in Queued(U) /\ V[f] = U[f]
          BY <3>5, <4>2
        <5>2. b[n + 1].folder # f
          BY <4>2 DEF s
        <5> QED BY <3>1, <3>2, <5>1, <5>2
      <4> QED BY <4>1, <4>2
    <3>8. From(V, n + 1)
      BY <3>2, <3>4, <3>5, <3>6, <3>7
    <3> QED BY <3>8 DEF V
  <2> QED BY <2>1
<1> HIDE DEF S
<1>4. Nat \subseteq S
  BY <1>2, <1>3, InductiveSet
<1>5. From(g[k], k)
  <2> HIDE DEF From
  <2>1. k \in Nat /\ k \in 0..k
    BY <1>1
  <2> QED BY <1>4, <2>1 DEF S
<1> QED BY <1>5 DEF UpsertedAll, g, k
==============================================================================
