---------------------------- MODULE DeliveryProofs ----------------------------
(***************************************************************************)
(* Theorems about Delivery, for every set of events, rules, libraries and  *)
(* drives: what a handler or a diff hands over is above everything that    *)
(* was meant, and what a server has not been told of waits in the table.   *)
(***************************************************************************)
EXTENDS Delivery, ScanStoreProofs, BernardDiffProofs

-----------------------------------------------------------------------------
(* Rewriting.                                                               *)

\* The first rule that matches, if any.
LEMMA Rewriting ==
  ASSUME NEW rules \in Rules, NEW p \in Path
  PROVE  /\ Rewritten(rules, p) \in Path
         /\ \/ Matching(rules, p) = {} /\ Rewritten(rules, p) = p
            \/ \E i \in Matching(rules, p) :
                 /\ \A j \in Matching(rules, p) : i =< j
                 /\ rules[i].from \in Path /\ rules[i].to \in Path
                 /\ Rewritten(rules, p) =
                      rules[i].to \o SubSeq(p, Len(rules[i].from) + 1, Len(p))
<1>1. CASE Matching(rules, p) = {}
  BY <1>1 DEF Rewritten
<1>2. CASE Matching(rules, p) # {}
  <2>1. Matching(rules, p) \in SUBSET Nat /\ Matching(rules, p) \subseteq DOMAIN rules
    BY DEF Matching, Rules
  <2>2. \E i \in Matching(rules, p) : \A j \in Matching(rules, p) : i =< j
    BY <1>2, <2>1, Least
  <2> DEFINE i == Min(Matching(rules, p))
  <2>3. i \in Matching(rules, p) /\ \A j \in Matching(rules, p) : i =< j
    BY <2>2 DEF Min
  <2> HIDE DEF i
  <2>4. rules[i].from \in Path /\ rules[i].to \in Path
    <3>1. rules \in Seq([from : Path, to : Path]) /\ i \in 1..Len(rules)
      BY <2>1, <2>3 DEF Rules
    <3>2. rules[i] \in [from : Path, to : Path]
      BY <3>1, ElementOfSeq
    <3> QED BY <3>2
  <2>5. Rewritten(rules, p) = rules[i].to \o SubSeq(p, Len(rules[i].from) + 1, Len(p))
    BY <1>2 DEF Rewritten, i
  <2>6. Rewritten(rules, p) \in Path
    <3>1. Len(p) \in Nat /\ Len(rules[i].from) \in Nat
      BY <2>4 DEF Path
    <3>2. SubSeq(p, Len(rules[i].from) + 1, Len(p)) \in Path
      BY <3>1, SubSeqProperties DEF Path
    <3> QED BY <2>4, <2>5, <3>2, ConcatProperties DEF Path
  <2> QED BY <2>3, <2>4, <2>5, <2>6
<1> QED BY <1>1, <1>2

-----------------------------------------------------------------------------
(* Paths of files.                                                          *)

NameOrVoid == Name \cup {Void}

Place == [folder : Path, file : NameOrVoid \cup {NoFile}]

LEMMA FileAtType ==
  ASSUME NEW p \in Path
  PROVE  /\ Dir(p) \in Path /\ Base(p) \in NameOrVoid \cup {NoFile}
         /\ p # <<>> => /\ Len(Dir(p)) = Len(p) - 1
                        /\ \A i \in 1..(Len(p) - 1) : Dir(p)[i] = p[i]
         /\ p = <<>> => Dir(p) = p
<1>1. CASE p = <<>>
  BY <1>1 DEF Dir, Base
<1>2. CASE p # <<>>
  <2> DEFINE n == Len(p) - 1
  <2>1. n \in Nat /\ Len(p) = n + 1
    BY <1>2 DEF Path
  <2>2. p[Len(p)] \in NameOrVoid /\ \A i \in 1..n : p[i] \in NameOrVoid /\ 1 + i - 1 = i
    BY <1>2 DEF Path, NameOrVoid
  <2> HIDE DEF n
  <2>3. /\ SubSeq(p, 1, n) \in Seq(NameOrVoid)
        /\ Len(SubSeq(p, 1, n)) = IF 1 =< n THEN n - 1 + 1 ELSE 0
        /\ \A i \in 1..(n - 1 + 1) : SubSeq(p, 1, n)[i] = p[1 + i - 1]
    BY <2>1, <2>2, SubSeqProperties
  <2>4. /\ SubSeq(p, 1, Len(p) - 1) \in Seq(NameOrVoid)
        /\ Len(SubSeq(p, 1, Len(p) - 1)) = Len(p) - 1
        /\ \A i \in 1..(Len(p) - 1) : SubSeq(p, 1, Len(p) - 1)[i] = p[i]
    BY <2>1, <2>2, <2>3 DEF n
  <2>5. Dir(p) = SubSeq(p, 1, Len(p) - 1) /\ Base(p) = p[Len(p)]
    BY <1>2 DEF Dir, Base, Front, Last
  <2> QED BY <1>2, <2>2, <2>4, <2>5 DEF Path, NameOrVoid
<1> QED BY <1>1, <1>2

\* A path is told from its folder and file by the other instance of autoscan.
LEMMA AppendedPath ==
  ASSUME NEW f \in Path, NEW n
  PROVE  /\ Append(f, n) # <<>>
         /\ Dir(Append(f, n)) = f /\ Base(Append(f, n)) = n
<1> DEFINE S == NameOrVoid \cup {n}
           p == Append(f, n)
<1>1. f \in Seq(S) /\ n \in S
  BY DEF Path, NameOrVoid
<1>2. p \in Seq(S) /\ Len(p) = Len(f) + 1 /\ p[Len(f) + 1] = n
      /\ \A i \in 1..Len(f) : p[i] = f[i]
  BY <1>1
<1>3. Len(f) \in Nat /\ p # <<>>
  BY <1>1, <1>2
<1> HIDE DEF p, S
<1>4. /\ SubSeq(p, 1, Len(f)) \in Seq(S) /\ Len(SubSeq(p, 1, Len(f))) = Len(f)
      /\ \A i \in 1..Len(f) : SubSeq(p, 1, Len(f))[i] = p[i]
  BY <1>2, <1>3, SubSeqProperties
<1>5. SubSeq(p, 1, Len(f)) = f
  BY <1>1, <1>2, <1>4, SeqEqual
<1>6. Dir(p) = f /\ Base(p) = n
  BY <1>2, <1>3, <1>5 DEF Dir, Base, Front, Last
<1> QED BY <1>3, <1>6 DEF p

-----------------------------------------------------------------------------
(* The handlers.                                                            *)

\* Distinct leaves out no element and adds none.
LEMMA DistinctElements ==
  ASSUME NEW S, NEW s \in Seq(S)
  PROVE  /\ Distinct(s) \in Seq(S)
         /\ \A i \in 1..Len(s) : Contains(Distinct(s), s[i])
<1> DEFINE k == Len(s)
           G(n, u) == IF Contains(u, s[n]) THEN u ELSE Append(u, s[n])
           F == [p \in Nat \X Seq(S) |-> IF p[1] \in 1..k THEN G(p[1], p[2]) ELSE p[2]]
           Is(g) == g = [n \in 0..k |-> IF n = 0 THEN <<>> ELSE G(n, g[n - 1])]
           g == CHOOSE h : Is(h)
<1>1. k \in Nat /\ \A n \in 1..k : s[n] \in S
  OBVIOUS
<1>2. ASSUME NEW n \in 1..k, NEW u \in Seq(S)
      PROVE  /\ G(n, u) \in Seq(S) /\ Contains(G(n, u), s[n])
             /\ \A x : Contains(u, x) => Contains(G(n, u), x)
  <2>1. CASE Contains(u, s[n])
    BY <2>1
  <2>2. CASE ~Contains(u, s[n])
    <3> DEFINE v == Append(u, s[n])
    <3>1. s[n] \in S
      BY <1>1
    <3>2. /\ v \in Seq(S) /\ Len(v) = Len(u) + 1 /\ v[Len(u) + 1] = s[n]
          /\ \A i \in 1..Len(u) : v[i] = u[i]
      BY <3>1, AppendProperties
    <3>3. G(n, u) = v
      BY <2>2
    <3> HIDE DEF v, G
    <3>4. Len(u) \in Nat /\ Len(v) \in 1..Len(v) /\ Len(v) = Len(u) + 1
          /\ \A i \in 1..Len(u) : i \in 1..Len(v)
      BY <3>2
    <3>5. Contains(v, s[n])
      BY <3>2, <3>4 DEF Contains
    <3>6. \A x : Contains(u, x) => Contains(v, x)
      BY <3>2, <3>4 DEF Contains
    <3> QED BY <3>2, <3>3, <3>5, <3>6
  <2> QED BY <2>1, <2>2
<1> HIDE DEF G
<1>3. F \in [Nat \X Seq(S) -> Seq(S)]
  <2>1. ASSUME NEW p \in Nat \X Seq(S)
        PROVE  (IF p[1] \in 1..k THEN G(p[1], p[2]) ELSE p[2]) \in Seq(S)
    BY <1>2
  <2> QED BY <2>1
<1>4. \A n \in 1..k : \A u \in Seq(S) : F[<<n, u>>] = G(n, u)
  BY <1>1
<1> HIDE DEF F, k
<1>5. <<>> \in Seq(S)
  OBVIOUS
<1>6. PICK h \in [0..k -> Seq(S)] : Iterates(h, <<>>, F, k)
  BY <1>1, <1>3, <1>5, Iteration
<1>7. \A n \in 1..k : n - 1 \in 0..k /\ h[n - 1] \in Seq(S)
  BY <1>1
<1>8. h[0] = <<>> /\ \A n \in 1..k : h[n] = G(n, h[n - 1])
  BY <1>4, <1>6, <1>7 DEF Iterates
<1>9. Is(h)
  BY <1>1, <1>8
<1>10. Is(g)
  BY <1>9
<1>11. Distinct(s) = g[k]
  BY DEF Distinct, G, k
<1> HIDE DEF g
<1>12. g[0] = <<>> /\ \A n \in 1..k : g[n] = G(n, g[n - 1])
  BY <1>1, <1>10
<1> HIDE DEF Is
<1> DEFINE T == {n \in Nat : n \in 0..k => /\ g[n] \in Seq(S)
                                           /\ \A i \in 1..n : Contains(g[n], s[i])}
<1>13. 0 \in T
  <2>1. g[0] \in Seq(S)
    BY <1>5, <1>12, Zenon
  <2>2. \A i \in 1..0 : Contains(g[0], s[i])
    OBVIOUS
  <2> QED BY <2>1, <2>2
<1>14. ASSUME NEW n \in Nat, n \in T
       PROVE  n + 1 \in T
  <2>1. CASE n + 1 \in 0..k
    <3>1. n \in 0..k /\ n + 1 \in 1..k /\ n + 1 - 1 = n
      BY <1>1, <2>1
    <3>2. g[n] \in Seq(S) /\ \A i \in 1..n : Contains(g[n], s[i])
      BY <1>14, <3>1
    <3>3. g[n + 1] = G(n + 1, g[n])
      BY <1>12, <3>1
    <3>4. \A i \in 1..(n + 1) : i \in 1..n \/ i = n + 1
      OBVIOUS
    <3>5. g[n + 1] \in Seq(S) /\ \A i \in 1..(n + 1) : Contains(g[n + 1], s[i])
      BY <1>2, <3>1, <3>2, <3>3, <3>4
    <3> QED BY <3>5
  <2> QED BY <2>1
<1> HIDE DEF T
<1>15. Nat \subseteq T
  BY <1>13, <1>14, InductiveSet
<1>16. k \in 0..k
  BY <1>1
<1>17. g[k] \in Seq(S) /\ \A i \in 1..k : Contains(g[k], s[i])
  BY <1>1, <1>15, <1>16 DEF T
<1> QED BY <1>11, <1>17 DEF k

\* What a batch must be: a scan of the folder of every place that was meant, or only scans
\* of whole folders with one of its folder or one above; and each scan is of the folder as
\* a whole or of a place that was meant.
Covers(batch, places) ==
  \A p \in places :
    \/ \E i \in DOMAIN batch : batch[i].folder = p.folder
    \/ /\ \E i \in DOMAIN batch : IsPrefix(batch[i].folder, p.folder)
       /\ \A i \in DOMAIN batch : batch[i].file = NoFile

Announces(batch, places) ==
  \A i \in DOMAIN batch : batch[i].file = NoFile \/ batch[i] \in places

Handed(batch, places) ==
  /\ batch \in Seq(Place) /\ places \subseteq Place
  /\ Covers(batch, places) /\ Announces(batch, places)

LEMMA EntryType ==
  ASSUME NEW f \in Path, NEW n \in NameOrVoid \cup {NoFile}
  PROVE  Entry(f, n) \in Place /\ Entry(f, n).folder = f /\ Entry(f, n).file = n
BY DEF Entry, Place

LEMMA FileAtPlace ==
  ASSUME NEW p \in Path
  PROVE  /\ FileAt(p) \in Place /\ FileAt(p).folder = Dir(p) /\ FileAt(p).file = Base(p)
         /\ FileAt(p) = Entry(Dir(p), Base(p))
BY FileAtType, EntryType DEF FileAt

LEMMA LocalPlace ==
  ASSUME NEW rules \in Rules, NEW p \in Place
  PROVE  /\ Entry(Rewritten(rules, p.folder), p.file) \in Place
         /\ Entry(Rewritten(rules, p.folder), p.file).folder = Rewritten(rules, p.folder)
         /\ IsPrefix(Rewritten(rules, p.folder), Rewritten(rules, p.folder))
<1>1. p.folder \in Path /\ p.file \in NameOrVoid \cup {NoFile}
  BY DEF Place
<1>2. Rewritten(rules, p.folder) \in Path
  BY <1>1, Rewriting
<1>3. IsPrefix(Rewritten(rules, p.folder), Rewritten(rules, p.folder))
  BY <1>2, PrefixReflexive DEF Path
<1> QED BY <1>1, <1>2, <1>3, EntryType

\* A batch whose scans are the places that were meant, rewritten.
LEMMA ExactBatch ==
  ASSUME NEW rules \in Rules, NEW said \in Seq(Place), NEW batch,
         batch = [i \in 1..Len(said) |-> Entry(Rewritten(rules, said[i].folder), said[i].file)],
         NEW places \in SUBSET Place,
         \A p \in places : \E i \in 1..Len(said) : said[i].folder = p.folder,
         \A i \in 1..Len(said) : said[i].file = NoFile \/ said[i] \in places
  PROVE  Handed(batch, Local(rules, places))
<1> DEFINE local(p) == Entry(Rewritten(rules, p.folder), p.file)
<1>1. \A i \in 1..Len(said) : said[i] \in Place
  OBVIOUS
<1>2. \A p \in Place : /\ local(p) \in Place
                       /\ local(p).folder = Rewritten(rules, p.folder)
                       /\ IsPrefix(local(p).folder, Rewritten(rules, p.folder))
                       /\ local(p).file = p.file
  BY LocalPlace DEF Entry
<1>3. Local(rules, places) = {local(p) : p \in places}
  BY DEF Local
<1>4. batch = [i \in 1..Len(said) |-> local(said[i])]
  OBVIOUS
<1> HIDE DEF local
<1>5. Len(said) \in Nat /\ DOMAIN batch = 1..Len(said)
  BY <1>4
<1>6. batch \in Seq(Place)
  BY <1>1, <1>2, <1>4, <1>5
<1>7. Local(rules, places) \subseteq Place
  BY <1>2, <1>3
<1>8. ASSUME NEW p \in places
      PROVE  \E i \in DOMAIN batch : batch[i].folder = local(p).folder
  <2>1. PICK i \in 1..Len(said) : said[i].folder = p.folder
    OBVIOUS
  <2>2. batch[i] = local(said[i]) /\ said[i] \in Place /\ p \in Place
    BY <1>1, <1>4
  <2>3. /\ batch[i].folder = Rewritten(rules, p.folder)
        /\ local(p).folder = Rewritten(rules, p.folder)
    BY <1>2, <2>1, <2>2
  <2> QED BY <1>5, <2>3
<1>9. Covers(batch, Local(rules, places))
  BY <1>3, <1>8 DEF Covers
<1>10. Announces(batch, Local(rules, places))
  <2> SUFFICES ASSUME NEW i \in 1..Len(said)
               PROVE  batch[i].file = NoFile \/ batch[i] \in Local(rules, places)
    BY <1>5 DEF Announces
  <2>1. batch[i] = local(said[i]) /\ said[i] \in Place
    BY <1>1, <1>4
  <2> QED BY <1>2, <1>3, <2>1
<1> QED BY <1>6, <1>7, <1>9, <1>10 DEF Handed

\* No scan, and nothing that was meant.
LEMMA EmptyBatch ==
  ASSUME NEW rules \in Rules
  PROVE  Handed(<<>>, Local(rules, {}))
<1> DEFINE said == <<>>
           batch == <<>>
<1>1. said \in Seq(Place) /\ Len(said) = 0
  OBVIOUS
<1>2. batch = [i \in 1..Len(said) |-> Entry(Rewritten(rules, said[i].folder), said[i].file)]
  BY <1>1
<1>3. \A i \in 1..Len(said) : FALSE
  BY <1>1
<1> HIDE DEF said, batch
<1>4. Handed(batch, Local(rules, {}))
  BY <1>1, <1>2, <1>3, ExactBatch
<1> QED BY <1>4 DEF batch

ArrEvent ==
  [hook : {"sonarr", "radarr"}, type : STRING, parent : Path, file : Path,
   renamed : Seq([previous : Path, current : Path])]

\* The paths that Sonarr's handler collects are folders of what was meant, and all of them.
Collected(paths, places) ==
  /\ IsFiniteSet(DOMAIN paths)
  /\ \A f \in DOMAIN paths :
       /\ Entry(f, paths[f]) \in Place
       /\ paths[f] = NoFile \/ Entry(f, paths[f]) \in places
  /\ places \subseteq Place
  /\ \A p \in places : p.folder \in DOMAIN paths

\* What is said of each renamed file: the path before and the path after.
LEMMA RenameMentionsEach ==
  ASSUME NEW e \in ArrEvent
  PROVE  /\ \A k \in 1..(2 * Len(e.renamed)) :
              /\ RenameMentions(e)[k] \in Path
              /\ \E i \in DOMAIN e.renamed :
                   \/ RenameMentions(e)[k] = e.renamed[i].previous
                   \/ RenameMentions(e)[k] = e.parent \o e.renamed[i].current
         /\ \A i \in DOMAIN e.renamed :
              /\ 2 * i - 1 \in 1..(2 * Len(e.renamed)) /\ 2 * i \in 1..(2 * Len(e.renamed))
              /\ RenameMentions(e)[2 * i - 1] = e.renamed[i].previous
              /\ RenameMentions(e)[2 * i] = e.parent \o e.renamed[i].current
<1> DEFINE n == Len(e.renamed)
           at(k) == (k + 1) \div 2
<1>1. /\ n \in Nat /\ DOMAIN e.renamed = 1..n /\ e.parent \in Path
      /\ \A i \in 1..n : e.renamed[i].previous \in Path /\ e.renamed[i].current \in Path
  <2>1. e.renamed \in Seq([previous : Path, current : Path]) /\ e.parent \in Path
    BY DEF ArrEvent
  <2>2. \A i \in 1..n : e.renamed[i] \in [previous : Path, current : Path]
    BY <2>1, ElementOfSeq
  <2>3. \A i \in 1..n : e.renamed[i].previous \in Path /\ e.renamed[i].current \in Path
    BY <2>2
  <2> QED BY <2>1, <2>3
<1>2. \A i \in 1..n : e.parent \o e.renamed[i].current \in Path
  BY <1>1, ConcatProperties DEF Path
<1>3. RenameMentions(e) =
        [k \in 1..(2 * n) |-> IF k % 2 = 1 THEN e.renamed[at(k)].previous
                             ELSE e.parent \o e.renamed[at(k)].current]
  BY DEF RenameMentions
<1> HIDE DEF n
<1>4. \A k \in 1..(2 * n) : at(k) \in 1..n
  BY <1>1
<1>5. \A i \in 1..n : /\ 2 * i - 1 \in 1..(2 * n) /\ 2 * i \in 1..(2 * n)
                      /\ at(2 * i - 1) = i /\ at(2 * i) = i
                      /\ (2 * i - 1) % 2 = 1 /\ (2 * i) % 2 = 0
  BY <1>1
<1> HIDE DEF at
<1>6. ASSUME NEW k \in 1..(2 * n)
      PROVE  /\ RenameMentions(e)[k] \in Path
             /\ \E i \in 1..n :
                  \/ RenameMentions(e)[k] = e.renamed[i].previous
                  \/ RenameMentions(e)[k] = e.parent \o e.renamed[i].current
  <2>1. PICK i \in 1..n : i = at(k)
    BY <1>4
  <2>2. \/ RenameMentions(e)[k] = e.renamed[i].previous
        \/ RenameMentions(e)[k] = e.parent \o e.renamed[i].current
    BY <1>3, <2>1
  <2> QED BY <1>1, <1>2, <2>2
<1>7. ASSUME NEW i \in 1..n
      PROVE  /\ RenameMentions(e)[2 * i - 1] = e.renamed[i].previous
             /\ RenameMentions(e)[2 * i] = e.parent \o e.renamed[i].current
  <2>1. PICK j, k \in 1..(2 * n) : /\ j = 2 * i - 1 /\ j % 2 = 1 /\ at(j) = i
                                   /\ k = 2 * i /\ k % 2 = 0 /\ at(k) = i
    BY <1>5
  <2>2. RenameMentions(e)[j] = e.renamed[i].previous
    BY <1>3, <2>1
  <2>3. RenameMentions(e)[k] = e.parent \o e.renamed[i].current
    <3>1. k % 2 # 1
      BY <2>1
    <3> QED BY <1>3, <2>1, <3>1, Zenon
  <2> QED BY <2>1, <2>2, <2>3
<1> QED BY <1>1, <1>5, <1>6, <1>7 DEF n

LEMMA RenamesCollected ==
  ASSUME NEW e \in ArrEvent, e.hook = "sonarr", e.type = "Rename"
  PROVE  Collected(RenamePaths(e), Means(e))
<1> DEFINE said == RenameMentions(e)
           n == 2 * Len(e.renamed)
           paths == RenamePaths(e)
           first(f) == Min({i \in DOMAIN said : Dir(said[i]) = f})
<1>1. n \in Nat /\ DOMAIN said = 1..n
  BY DEF RenameMentions, ArrEvent
<1>2. \A k \in 1..n : said[k] \in Path
  BY RenameMentionsEach
<1>3. paths = [f \in {Dir(p) : p \in ToSet(said)} |-> Base(said[first(f)])]
  BY DEF RenamePaths
<1>4. Means(e) = UNION {{FileAt(e.renamed[i].previous), FileAt(e.parent \o e.renamed[i].current)} :
                          i \in DOMAIN e.renamed}
  BY DEF Means
<1>5. ASSUME NEW k \in 1..n
      PROVE  FileAt(said[k]) \in Means(e)
  <2>1. PICK i \in DOMAIN e.renamed :
          \/ said[k] = e.renamed[i].previous
          \/ said[k] = e.parent \o e.renamed[i].current
    BY RenameMentionsEach
  <2>2. FileAt(said[k]) \in {FileAt(e.renamed[i].previous), FileAt(e.parent \o e.renamed[i].current)}
    BY <2>1
  <2> QED BY <1>4, <2>2
<1>6. \A p \in Means(e) : \E k \in 1..n : p = FileAt(said[k])
  <2> SUFFICES ASSUME NEW i \in DOMAIN e.renamed
               PROVE  /\ \E k \in 1..n : FileAt(e.renamed[i].previous) = FileAt(said[k])
                      /\ \E k \in 1..n : FileAt(e.parent \o e.renamed[i].current) = FileAt(said[k])
    BY <1>4
  <2>1. /\ 2 * i - 1 \in 1..n /\ said[2 * i - 1] = e.renamed[i].previous
        /\ 2 * i \in 1..n /\ said[2 * i] = e.parent \o e.renamed[i].current
    BY RenameMentionsEach
  <2> QED BY <2>1
<1> HIDE DEF said, n, paths
<1>7. DOMAIN paths = {Dir(said[k]) : k \in 1..n}
  BY <1>1, <1>3 DEF ToSet
<1>8. IsFiniteSet(DOMAIN paths)
  <2> DEFINE D == 1..n
             g == [k \in D |-> Dir(said[k])]
  <2>1. g = [k \in D |-> g[k]] /\ {g[k] : k \in D} = DOMAIN paths
    BY <1>7
  <2>2. IsFiniteSet(D)
    BY <1>1, FS_Interval
  <2> HIDE DEF g, D
  <2>3. IsFiniteSet({g[k] : k \in D})
    BY <2>1, <2>2, FiniteImage
  <2> QED BY <2>1, <2>3
<1>9. ASSUME NEW f \in DOMAIN paths
      PROVE  \E k \in 1..n : f = Dir(said[k]) /\ paths[f] = Base(said[k])
  <2> DEFINE K == {i \in DOMAIN said : Dir(said[i]) = f}
  <2>1. K \in SUBSET Nat /\ K # {}
    BY <1>1, <1>7
  <2>2. \E i \in K : \A j \in K : i =< j
    BY <2>1, Least
  <2>3. Min(K) \in K
    BY <2>2 DEF Min
  <2>4. paths[f] = Base(said[Min(K)])
    BY <1>3
  <2> QED BY <1>1, <2>3, <2>4
<1>10. \A k \in 1..n : /\ FileAt(said[k]) \in Place /\ FileAt(said[k]).folder = Dir(said[k])
                       /\ FileAt(said[k]) = Entry(Dir(said[k]), Base(said[k]))
  BY <1>2, FileAtPlace
<1>11. \A f \in DOMAIN paths : Entry(f, paths[f]) \in Place /\ Entry(f, paths[f]) \in Means(e)
  BY <1>5, <1>9, <1>10
<1>12. Means(e) \subseteq Place /\ \A p \in Means(e) : p.folder \in DOMAIN paths
  BY <1>6, <1>7, <1>10
<1> QED BY <1>8, <1>11, <1>12 DEF Collected, paths

LEMMA SonarrCollects ==
  ASSUME NEW e \in ArrEvent, e.hook = "sonarr", ~SonarrRefuses(e)
  PROVE  Collected(SonarrPaths(e), Means(e))
<1> DEFINE whole == e.parent \o e.file
<1>1. e.parent \in Path /\ e.file \in Path
  BY DEF ArrEvent
<1>2. whole \in Path
  BY <1>1, ConcatProperties DEF Path
<1> HIDE DEF whole
<1>3. CASE e.type \in {"Download", "EpisodeFileDelete"}
  <2>1. Means(e) = {FileAt(whole)}
    BY <1>3 DEF Means, whole
  <2>2. SonarrPaths(e) = [f \in {Dir(whole)} |-> Base(whole)]
    BY <1>3 DEF SonarrPaths, DownloadPaths, whole
  <2>3. IsFiniteSet({Dir(whole)})
    BY FS_Singleton
  <2> QED BY <1>2, <2>1, <2>2, <2>3, FileAtPlace DEF Collected
<1>4. CASE e.type = "SeriesDelete"
  <2>1. Means(e) = {Entry(e.parent, NoFile)}
    BY <1>4 DEF Means
  <2>2. SonarrPaths(e) = [f \in {e.parent} |-> NoFile]
    BY <1>4 DEF SonarrPaths
  <2>3. IsFiniteSet({e.parent})
    BY FS_Singleton
  <2> QED BY <1>1, <2>1, <2>2, <2>3, EntryType DEF Collected
<1>5. CASE e.type = "Rename"
  <2>1. SonarrPaths(e) = RenamePaths(e)
    BY <1>5 DEF SonarrPaths
  <2> QED BY <1>5, <2>1, RenamesCollected
<1>6. CASE e.type \notin {"Download", "EpisodeFileDelete", "SeriesDelete", "Rename"}
  <2>1. Means(e) = {}
    BY <1>6 DEF Means
  <2>2. SonarrPaths(e) = <<>>
    BY <1>6 DEF SonarrPaths
  <2>3. DOMAIN SonarrPaths(e) = {}
    BY <2>2
  <2>4. IsFiniteSet({})
    BY FS_EmptySet
  <2> QED BY <2>1, <2>3, <2>4 DEF Collected
<1> QED BY <1>3, <1>4, <1>5, <1>6

LEMMA SonarrHands ==
  ASSUME NEW rules \in Rules, NEW e \in ArrEvent, e.hook = "sonarr", NEW batch \in Sonarr(rules, e)
  PROVE  Handed(batch, Local(rules, Means(e)))
<1> DEFINE paths == SonarrPaths(e)
<1>1. ~SonarrRefuses(e)
  BY DEF Sonarr
<1>2. PICK s \in SetToSeqs(DOMAIN paths) :
        batch = [i \in DOMAIN s |-> Entry(Rewritten(rules, s[i]), paths[s[i]])]
  BY <1>1 DEF Sonarr
<1>3. Collected(paths, Means(e))
  BY <1>1, SonarrCollects
<1> HIDE DEF paths
<1>4. s \in Seq(DOMAIN paths) /\ ToSet(s) = DOMAIN paths
  BY <1>3, OrderOfSet DEF Collected
<1> DEFINE said == [i \in 1..Len(s) |-> Entry(s[i], paths[s[i]])]
<1>5. /\ Len(s) \in Nat /\ DOMAIN s = 1..Len(s)
      /\ \A i \in 1..Len(s) : s[i] \in DOMAIN paths
      /\ \A f \in DOMAIN paths : \E i \in 1..Len(s) : s[i] = f
  BY <1>4 DEF ToSet
<1>6. \A i \in 1..Len(s) : said[i] \in Place /\ (said[i].file = NoFile \/ said[i] \in Means(e))
  BY <1>3, <1>5 DEF Collected, Entry
<1>7. said \in Seq(Place) /\ Len(said) = Len(s)
  BY <1>5, <1>6
<1>8. batch = [i \in 1..Len(said) |-> Entry(Rewritten(rules, said[i].folder), said[i].file)]
  BY <1>2, <1>5, <1>7 DEF Entry
<1>9. \A p \in Means(e) : \E i \in 1..Len(s) : said[i].folder = p.folder
  BY <1>3, <1>5 DEF Collected, Entry
<1>10. Means(e) \in SUBSET Place
  BY <1>3 DEF Collected
<1> HIDE DEF said
<1> QED BY <1>6, <1>7, <1>8, <1>9, <1>10, ExactBatch

LEMMA RadarrHands ==
  ASSUME NEW rules \in Rules, NEW e \in ArrEvent, e.hook = "radarr", NEW batch \in Radarr(rules, e)
  PROVE  Handed(batch, Local(rules, Means(e)))
<1> DEFINE whole == e.parent \o e.file
<1>1. e.parent \in Path /\ e.file \in Path
  BY DEF ArrEvent
<1>2. whole \in Path
  BY <1>1, ConcatProperties DEF Path
<1>3. ~RadarrRefuses(e)
  BY DEF Radarr
<1> HIDE DEF whole
<1>4. CASE e.type = "Test"
  <2>1. batch = <<>> /\ Means(e) = {}
    BY <1>3, <1>4 DEF Radarr, Means
  <2> QED BY <2>1, EmptyBatch
<1>5. ASSUME NEW p \in Place, batch = <<Entry(Rewritten(rules, p.folder), p.file)>>,
             Means(e) \in SUBSET Place,
             \A o \in Means(e) : o.folder = p.folder,
             p.file = NoFile \/ p \in Means(e)
      PROVE  Handed(batch, Local(rules, Means(e)))
  <2> DEFINE said == <<p>>
  <2>1. said \in Seq(Place) /\ Len(said) = 1 /\ said[1] = p /\ 1..1 = {1}
    OBVIOUS
  <2>2. batch = [i \in 1..Len(said) |-> Entry(Rewritten(rules, said[i].folder), said[i].file)]
    BY <1>5
  <2>3. /\ \A o \in Means(e) : \E i \in 1..Len(said) : said[i].folder = o.folder
        /\ \A i \in 1..Len(said) : said[i].file = NoFile \/ said[i] \in Means(e)
    BY <1>5, <2>1
  <2> HIDE DEF said
  <2> QED BY <1>5, <2>1, <2>2, <2>3, ExactBatch
<1>6. CASE e.type \in {"Download", "MovieFileDelete"}
  <2>1. Means(e) = {FileAt(whole)}
    BY <1>6 DEF Means, whole
  <2>2. batch = <<Entry(Rewritten(rules, Dir(whole)), Base(whole))>>
    BY <1>3, <1>6 DEF Radarr, RadarrScan, whole
  <2>3. FileAt(whole) \in Place /\ FileAt(whole).folder = Dir(whole) /\ FileAt(whole).file = Base(whole)
    BY <1>2, FileAtPlace
  <2> QED BY <1>5, <2>1, <2>2, <2>3
<1>7. CASE e.type \in {"MovieDelete", "Rename"}
  <2>1. Means(e) = {Entry(e.parent, NoFile)}
    BY <1>7 DEF Means
  <2>2. batch = <<Entry(Rewritten(rules, e.parent), NoFile)>>
    BY <1>3, <1>7 DEF Radarr, RadarrScan
  <2>3. Entry(e.parent, NoFile) \in Place /\ Entry(e.parent, NoFile).folder = e.parent
        /\ Entry(e.parent, NoFile).file = NoFile
    BY <1>1, EntryType
  <2> QED BY <1>5, <2>1, <2>2, <2>3
<1>8. CASE e.type \notin {"Test", "Download", "MovieFileDelete", "MovieDelete", "Rename"}
  <2>1. Means(e) = {}
    BY <1>8 DEF Means
  <2>2. batch = <<Entry(Rewritten(rules, Nowhere), NoFile)>>
    BY <1>3, <1>8 DEF Radarr, RadarrScan
  <2>3. Nowhere \in Path
    BY DEF Nowhere, Path
  <2>4. Entry(Nowhere, NoFile) \in Place /\ Entry(Nowhere, NoFile).folder = Nowhere
        /\ Entry(Nowhere, NoFile).file = NoFile
    BY <2>3, EntryType
  <2> QED BY <1>5, <2>1, <2>2, <2>4
<1> QED BY <1>4, <1>6, <1>7, <1>8

\* The folder of the rewritten path of a file is the rewritten folder, if no rule is for
\* the file alone.
LEMMA FolderRewritten ==
  ASSUME NEW rules \in Rules, NEW p \in Path, \A i \in DOMAIN rules : rules[i].from # p
  PROVE  Dir(Rewritten(rules, p)) = Rewritten(rules, Dir(p))
<1> DEFINE q == Dir(p)
<1>1. /\ q \in Path /\ (p = <<>> => q = p)
      /\ p # <<>> => Len(q) = Len(p) - 1 /\ \A i \in 1..(Len(p) - 1) : q[i] = p[i]
  BY FileAtType
<1>2. \A i \in DOMAIN rules : rules[i].from \in Path /\ rules[i].to \in Path
  <2>1. rules \in Seq([from : Path, to : Path])
    BY DEF Rules
  <2>2. \A i \in 1..Len(rules) : rules[i] \in [from : Path, to : Path]
    BY <2>1, ElementOfSeq
  <2>3. DOMAIN rules = 1..Len(rules)
    BY <2>1
  <2> QED BY <2>2, <2>3
<1> HIDE DEF q
<1>3. ASSUME NEW x \in Path, x # p
      PROVE  /\ IsPrefix(x, p) <=> IsPrefix(x, q)
             /\ IsPrefix(x, p) => p # <<>>
  <2>1. /\ IsPrefix(x, p) <=> Len(x) =< Len(p) /\ \A i \in 1..Len(x) : x[i] = p[i]
        /\ IsPrefix(x, q) <=> Len(x) =< Len(q) /\ \A i \in 1..Len(x) : x[i] = q[i]
    BY <1>1, PrefixElements DEF Path
  <2>2. Len(x) = Len(p) => ~IsPrefix(x, p)
    BY <1>3, <2>1, SeqEqual DEF Path
  <2>3. Len(x) \in Nat /\ Len(p) \in Nat /\ (p = <<>> => Len(p) = 0)
    BY DEF Path
  <2>4. CASE p = <<>>
    BY <1>1, <2>1, <2>2, <2>3, <2>4
  <2>5. CASE p # <<>>
    <3>1. Len(q) = Len(p) - 1 /\ \A i \in 1..(Len(p) - 1) : q[i] = p[i]
      BY <1>1, <2>5
    <3>2. IsPrefix(x, p) => IsPrefix(x, q)
      BY <2>1, <2>2, <2>3, <3>1
    <3>3. IsPrefix(x, q) => IsPrefix(x, p)
      BY <2>1, <2>3, <3>1
    <3> QED BY <2>5, <3>2, <3>3
  <2> QED BY <2>4, <2>5
<1>4. Matching(rules, p) = Matching(rules, q)
  BY <1>2, <1>3 DEF Matching
<1>5. CASE Matching(rules, p) = {}
  BY <1>4, <1>5 DEF Rewritten, q
<1>6. CASE Matching(rules, p) # {}
  <2>1. PICK i \in Matching(rules, p) :
          /\ \A j \in Matching(rules, p) : i =< j
          /\ Rewritten(rules, p) = rules[i].to \o SubSeq(p, Len(rules[i].from) + 1, Len(p))
    BY <1>6, Rewriting
  <2>2. PICK h \in Matching(rules, q) :
          /\ \A j \in Matching(rules, q) : h =< j
          /\ Rewritten(rules, q) = rules[h].to \o SubSeq(q, Len(rules[h].from) + 1, Len(q))
    BY <1>1, <1>4, <1>6, Rewriting
  <2>3. h = i
    <3>1. h \in Nat /\ i \in Nat
      BY <1>4 DEF Matching, Rules
    <3> QED BY <1>4, <2>1, <2>2, <3>1
  <2> DEFINE x == rules[i].from
             t == rules[i].to
             S == NameOrVoid
             n == Len(q)
             k == Len(x)
             a == t \o SubSeq(p, k + 1, n + 1)
             b == t \o SubSeq(q, k + 1, n)
  <2>4. x \in Path /\ t \in Path /\ x # p /\ IsPrefix(x, p)
    BY <1>2, <2>1 DEF Matching
  <2>5. p # <<>> /\ IsPrefix(x, q)
    BY <1>3, <2>4
  <2>6. Len(p) = n + 1 /\ \A j \in 1..n : q[j] = p[j]
    <3>1. Len(p) \in Nat
      BY DEF Path
    <3> QED BY <1>1, <2>5, <3>1
  <2>7. k \in Nat /\ n \in Nat /\ k =< n /\ t \in Seq(S) /\ p \in Seq(S) /\ q \in Seq(S)
    <3>1. k =< n
      BY <1>1, <2>4, <2>5, PrefixElements DEF Path
    <3> QED BY <1>1, <2>4, <3>1 DEF Path, NameOrVoid
  <2>8. Rewritten(rules, p) = a /\ Rewritten(rules, q) = b
    BY <2>1, <2>2, <2>3, <2>6
  <2> DEFINE ta == SubSeq(p, k + 1, n + 1)
             tb == SubSeq(q, k + 1, n)
  <2> HIDE DEF S, n, k
  <2>9. /\ ta \in Seq(S) /\ Len(ta) = n + 1 - k
        /\ \A j \in 1..(n + 1 - k) : ta[j] = p[k + j]
    <3>1. k + 1 \in Int /\ n + 1 \in Int /\ k + 1 =< n + 1 /\ \A j \in (k + 1)..(n + 1) : p[j] \in S
      BY <2>6, <2>7
    <3>2. /\ ta \in Seq(S)
          /\ Len(ta) = IF k + 1 =< n + 1 THEN (n + 1) - (k + 1) + 1 ELSE 0
          /\ \A j \in 1..((n + 1) - (k + 1) + 1) : ta[j] = p[(k + 1) + j - 1]
      BY <3>1, SubSeqProperties
    <3> HIDE DEF ta
    <3>3. (n + 1) - (k + 1) + 1 = n + 1 - k /\ \A j \in 1..(n + 1 - k) : (k + 1) + j - 1 = k + j
      BY <2>7
    <3> QED BY <3>1, <3>2, <3>3
  <2>10. /\ tb \in Seq(S) /\ Len(tb) = n - k
         /\ \A j \in 1..(n - k) : tb[j] = q[k + j]
    <3>1. k + 1 \in Int /\ n \in Int /\ \A j \in (k + 1)..n : q[j] \in S
      BY <2>7 DEF n
    <3>2. /\ tb \in Seq(S)
          /\ Len(tb) = IF k + 1 =< n THEN n - (k + 1) + 1 ELSE 0
          /\ \A j \in 1..(n - (k + 1) + 1) : tb[j] = q[(k + 1) + j - 1]
      BY <3>1, SubSeqProperties
    <3> HIDE DEF tb
    <3>3. /\ n - (k + 1) + 1 = n - k /\ (~(k + 1 =< n) => n - k = 0)
          /\ \A j \in 1..(n - k) : (k + 1) + j - 1 = k + j
      BY <2>7
    <3> QED BY <3>2, <3>3
  <2> HIDE DEF ta, tb
  <2>11. a = t \o ta /\ b = t \o tb
    BY DEF ta, tb
  <2> HIDE DEF a, b, t
  <2>12. /\ a \in Seq(S) /\ Len(a) = Len(t) + (n + 1 - k)
         /\ \A j \in 1..(Len(t) + (n + 1 - k)) : a[j] = IF j =< Len(t) THEN t[j] ELSE ta[j - Len(t)]
    <3>1. /\ a \in Seq(S) /\ Len(a) = Len(t) + Len(ta)
          /\ \A j \in 1..(Len(t) + Len(ta)) :
               a[j] = IF j =< Len(t) THEN t[j] ELSE ta[j - Len(t)]
      BY <2>7, <2>9, <2>11, ConcatProperties
    <3> QED BY <2>9, <3>1
  <2>13. /\ b \in Seq(S) /\ Len(b) = Len(t) + (n - k)
         /\ \A j \in 1..(Len(t) + (n - k)) : b[j] = IF j =< Len(t) THEN t[j] ELSE tb[j - Len(t)]
    <3>1. /\ b \in Seq(S) /\ Len(b) = Len(t) + Len(tb)
          /\ \A j \in 1..(Len(t) + Len(tb)) :
               b[j] = IF j =< Len(t) THEN t[j] ELSE tb[j - Len(t)]
      BY <2>7, <2>10, <2>11, ConcatProperties
    <3> QED BY <2>10, <3>1
  <2>14. Len(t) \in Nat
    BY <2>7
  <2>15. a # <<>> /\ a \in Path
    BY <2>7, <2>12, <2>14 DEF S, Path, NameOrVoid
  <2>16. /\ Dir(a) \in Path /\ Len(Dir(a)) = Len(a) - 1
         /\ \A j \in 1..(Len(a) - 1) : Dir(a)[j] = a[j]
    BY <2>15, FileAtType
  <2>17. Len(Dir(a)) = Len(b)
    BY <2>7, <2>12, <2>13, <2>14, <2>16
  <2>18. ASSUME NEW j \in 1..Len(b)
         PROVE  Dir(a)[j] = b[j]
    <3>1. j \in 1..(Len(a) - 1) /\ j \in 1..(Len(t) + (n + 1 - k)) /\ j \in 1..(Len(t) + (n - k))
      BY <2>7, <2>12, <2>13, <2>14
    <3>2. Dir(a)[j] = a[j]
      BY <2>16, <3>1
    <3>3. CASE j =< Len(t)
      BY <2>12, <2>13, <3>1, <3>2, <3>3
    <3>4. CASE ~(j =< Len(t))
      <4> DEFINE l == j - Len(t)
      <4>1. l \in 1..(n - k) /\ l \in 1..(n + 1 - k) /\ k + l \in 1..n
        BY <2>7, <2>14, <3>1, <3>4
      <4>2. a[j] = ta[l] /\ b[j] = tb[l]
        BY <2>12, <2>13, <3>1, <3>4
      <4> HIDE DEF l
      <4>3. ta[l] = p[k + l] /\ tb[l] = q[k + l]
        BY <2>9, <2>10, <4>1
      <4>4. q[k + l] = p[k + l]
        BY <2>6, <4>1
      <4> QED BY <3>2, <4>2, <4>3, <4>4
    <3> QED BY <3>3, <3>4
  <2>19. Dir(a) = b
    <3>1. Dir(a) \in Seq(S)
      BY <2>16 DEF S, Path, NameOrVoid
    <3> QED BY <2>13, <2>17, <2>18, <3>1, SeqEqual
  <2> QED BY <2>8, <2>19 DEF q
<1> QED BY <1>5, <1>6

TrackEvent == [hook : {"lidarr", "readarr"}, type : STRING, files : Seq(Path)]

LEMMA TracksHand ==
  ASSUME NEW rules \in Rules, NEW e \in TrackEvent,
         \A p \in ToSet(e.files) : \A i \in DOMAIN rules : rules[i].from # p,
         NEW batch \in Lidarr(rules, e) \cup Readarr(rules, e)
  PROVE  Handed(batch, Local(rules, Means(e)))
<1>1. e.files \in Seq(Path) /\ e.hook \in {"lidarr", "readarr"}
  BY DEF TrackEvent
<1>2. CASE e.type = "Test"
  <2>1. batch = <<>> /\ Means(e) = {}
    BY <1>1, <1>2 DEF Lidarr, Readarr, Means
  <2> QED BY <2>1, EmptyBatch
<1>3. CASE e.type # "Test"
  <2> DEFINE n == Len(e.files)
             s == [i \in DOMAIN e.files |-> Entry(Dir(Rewritten(rules, e.files[i])), NoFile)]
             W == {p \in Place : p.file = NoFile}
  <2>1. batch = Distinct(s) /\ e.type = "Download"
    BY <1>3 DEF Lidarr, Readarr, FoldersOf
  <2>2. Means(e) = {FileAt(p) : p \in ToSet(e.files)}
    BY <1>1, <2>1 DEF Means
  <2>3. n \in Nat /\ DOMAIN e.files = 1..n /\ \A i \in 1..n : e.files[i] \in Path
    BY <1>1
  <2>4. ToSet(e.files) = {e.files[i] : i \in 1..n}
    BY <2>3 DEF ToSet
  <2>5. ASSUME NEW i \in 1..n
        PROVE  /\ Dir(Rewritten(rules, e.files[i])) = Rewritten(rules, Dir(e.files[i]))
               /\ Rewritten(rules, Dir(e.files[i])) \in Path
    <3>1. e.files[i] \in Path /\ Dir(e.files[i]) \in Path /\ e.files[i] \in ToSet(e.files)
      BY <2>3, <2>4, FileAtType
    <3> QED BY <3>1, FolderRewritten, Rewriting
  <2> HIDE DEF n
  <2>6. \A i \in 1..n : /\ s[i] = Entry(Rewritten(rules, Dir(e.files[i])), NoFile)
                        /\ s[i] \in W /\ s[i].folder = Rewritten(rules, Dir(e.files[i]))
    BY <2>3, <2>5, EntryType
  <2>7. DOMAIN s = 1..n
    BY <2>3
  <2>8. s = [i \in 1..n |-> s[i]]
    BY <2>3
  <2> HIDE DEF s
  <2>9. s \in Seq(W) /\ Len(s) = n
    BY <2>3, <2>6, <2>7, <2>8
  <2>10. batch \in Seq(W) /\ \A i \in 1..n : Contains(batch, s[i])
    BY <2>1, <2>9, DistinctElements
  <2>11. DOMAIN batch = 1..Len(batch) /\ \A i \in 1..Len(batch) : batch[i] \in W
    BY <2>10
  <2>12. batch \in Seq(Place) /\ Announces(batch, Local(rules, Means(e)))
    BY <2>10, <2>11 DEF Announces
  <2>13. ASSUME NEW p \in ToSet(e.files)
         PROVE  /\ Entry(Rewritten(rules, FileAt(p).folder), FileAt(p).file) \in Place
                /\ \E j \in DOMAIN batch :
                     batch[j].folder = Entry(Rewritten(rules, FileAt(p).folder), FileAt(p).file).folder
    <3>1. PICK i \in 1..n : p = e.files[i]
      BY <2>4
    <3>2. FileAt(p) \in Place /\ FileAt(p).folder = Dir(p)
      BY <2>3, <3>1, FileAtPlace
    <3>3. PICK j \in 1..Len(batch) : batch[j] = s[i]
      BY <2>10 DEF Contains
    <3>4. batch[j].folder = Rewritten(rules, Dir(p))
      BY <2>6, <3>1, <3>3
    <3> QED BY <2>11, <3>2, <3>4, LocalPlace
  <2>14. Local(rules, Means(e)) \subseteq Place /\ Covers(batch, Local(rules, Means(e)))
    <3>1. Local(rules, Means(e)) =
            {Entry(Rewritten(rules, FileAt(p).folder), FileAt(p).file) : p \in ToSet(e.files)}
      BY <2>2 DEF Local
    <3> QED BY <2>13, <3>1 DEF Covers
  <2> QED BY <2>12, <2>14 DEF Handed
<1> QED BY <1>2, <1>3

ManualEvent == [hook : {"manual"}, type : STRING, dirs : Seq(Path), paths : Seq(Path)]

\* The two lists of a request, one after the other.
LEMMA ManualHands ==
  ASSUME NEW rules \in Rules, NEW e \in ManualEvent, NEW batch \in Manual(rules, e)
  PROVE  Handed(batch, Local(rules, Means(e)))
<1>1. e.dirs \in Seq(Path) /\ e.paths \in Seq(Path) /\ e.hook = "manual"
  BY DEF ManualEvent
<1>2. CASE e.type \in {"GET", "HEAD"}
  <2>1. batch = <<>> /\ Means(e) = {}
    BY <1>1, <1>2 DEF Manual, Means
  <2> QED BY <2>1, EmptyBatch
<1>3. CASE e.type \notin {"GET", "HEAD"}
  <2> DEFINE a == Len(e.dirs)
             b == Len(e.paths)
             s1 == [i \in 1..a |-> Entry(e.dirs[i], NoFile)]
             s2 == [i \in 1..b |-> FileAt(e.paths[i])]
             said == s1 \o s2
             local(p) == Entry(Rewritten(rules, p.folder), p.file)
             b1 == [i \in DOMAIN e.dirs |-> Entry(Rewritten(rules, e.dirs[i]), NoFile)]
             b2 == [i \in DOMAIN e.paths |-> Entry(Rewritten(rules, Dir(e.paths[i])), Base(e.paths[i]))]
  <2>1. batch = b1 \o b2
    BY <1>3 DEF Manual
  <2>2. Means(e) = {Entry(d, NoFile) : d \in ToSet(e.dirs)} \cup {FileAt(p) : p \in ToSet(e.paths)}
    BY <1>1, <1>3 DEF Means
  <2>3. /\ a \in Nat /\ b \in Nat /\ DOMAIN e.dirs = 1..a /\ DOMAIN e.paths = 1..b
        /\ \A i \in 1..a : e.dirs[i] \in Path
        /\ \A i \in 1..b : e.paths[i] \in Path
    BY <1>1
  <2>4. ToSet(e.dirs) = {e.dirs[i] : i \in 1..a} /\ ToSet(e.paths) = {e.paths[i] : i \in 1..b}
    BY <2>3 DEF ToSet
  <2> HIDE DEF a, b
  <2>5. \A i \in 1..a : s1[i] \in Place /\ s1[i] \in Means(e) /\ b1[i] = local(s1[i])
    BY <2>2, <2>3, <2>4, EntryType
  <2>6. \A i \in 1..b : s2[i] \in Place /\ s2[i] \in Means(e) /\ b2[i] = local(s2[i])
    BY <2>2, <2>3, <2>4, FileAtPlace
  <2>7. \A p \in Means(e) : (\E i \in 1..a : s1[i] = p) \/ (\E i \in 1..b : s2[i] = p)
    BY <2>2, <2>4
  <2>8. \A p \in Place : local(p) \in Place
    BY LocalPlace
  <2>9. DOMAIN s1 = 1..a /\ DOMAIN s2 = 1..b /\ DOMAIN b1 = 1..a /\ DOMAIN b2 = 1..b
        /\ s1 = [i \in 1..a |-> s1[i]] /\ s2 = [i \in 1..b |-> s2[i]]
        /\ b1 = [i \in 1..a |-> b1[i]] /\ b2 = [i \in 1..b |-> b2[i]]
    BY <2>3
  <2> HIDE DEF s1, s2, b1, b2, local
  <2>10. s1 \in Seq(Place) /\ Len(s1) = a /\ s2 \in Seq(Place) /\ Len(s2) = b
    <3>1. s1 \in [1..a -> Place] /\ s2 \in [1..b -> Place]
      BY <2>5, <2>6, <2>9
    <3> QED BY <2>3, <3>1
  <2>11. b1 \in Seq(Place) /\ Len(b1) = a /\ b2 \in Seq(Place) /\ Len(b2) = b
    <3>1. b1 \in [1..a -> Place] /\ b2 \in [1..b -> Place]
      BY <2>5, <2>6, <2>8, <2>9
    <3> QED BY <2>3, <3>1
  <2>12. /\ said \in Seq(Place) /\ Len(said) = a + b
         /\ \A i \in 1..(a + b) : said[i] = IF i =< a THEN s1[i] ELSE s2[i - a]
    <3>1. /\ said \in Seq(Place) /\ Len(said) = Len(s1) + Len(s2)
          /\ \A i \in 1..(Len(s1) + Len(s2)) : said[i] = IF i =< Len(s1) THEN s1[i] ELSE s2[i - Len(s1)]
      BY <2>10, ConcatProperties
    <3> HIDE DEF said
    <3> QED BY <2>10, <3>1
  <2>13. /\ batch \in Seq(Place) /\ Len(batch) = a + b
         /\ \A i \in 1..(a + b) : batch[i] = IF i =< a THEN b1[i] ELSE b2[i - a]
    <3>1. /\ b1 \o b2 \in Seq(Place) /\ Len(b1 \o b2) = Len(b1) + Len(b2)
          /\ \A i \in 1..(Len(b1) + Len(b2)) :
               (b1 \o b2)[i] = IF i =< Len(b1) THEN b1[i] ELSE b2[i - Len(b1)]
      BY <2>11, ConcatProperties
    <3> QED BY <2>1, <2>11, <3>1
  <2> HIDE DEF said
  <2>14. ASSUME NEW i \in 1..(a + b)
         PROVE  said[i] \in Means(e) /\ batch[i] = local(said[i])
    <3>1. CASE i =< a
      <4>1. i \in 1..a
        BY <2>3, <3>1
      <4> QED BY <2>5, <2>12, <2>13, <3>1, <4>1
    <3>2. CASE ~(i =< a)
      <4>1. i - a \in 1..b
        BY <2>3, <3>2
      <4>2. said[i] = s2[i - a] /\ batch[i] = b2[i - a]
        BY <2>12, <2>13, <3>2
      <4> QED BY <2>6, <4>1, <4>2
    <3> QED BY <3>1, <3>2
  <2>15. ASSUME NEW p \in Means(e)
         PROVE  \E i \in 1..(a + b) : said[i] = p
    <3>1. CASE \E i \in 1..a : s1[i] = p
      <4>1. PICK i \in 1..a : s1[i] = p
        BY <3>1
      <4>2. i \in 1..(a + b) /\ i =< a
        BY <2>3
      <4> QED BY <2>12, <4>1, <4>2
    <3>2. CASE \E i \in 1..b : s2[i] = p
      <4>1. PICK i \in 1..b : s2[i] = p
        BY <3>2
      <4>2. a + i \in 1..(a + b) /\ ~(a + i =< a) /\ (a + i) - a = i
        BY <2>3
      <4>3. said[a + i] = s2[(a + i) - a]
        BY <2>12, <4>2
      <4> QED BY <4>1, <4>2, <4>3
    <3> QED BY <2>7, <3>1, <3>2
  <2>16. Means(e) \in SUBSET Place
    BY <2>5, <2>6, <2>7
  <2>17. batch = [i \in 1..Len(said) |-> Entry(Rewritten(rules, said[i].folder), said[i].file)]
    <3>1. \A i \in 1..(a + b) : batch[i] = Entry(Rewritten(rules, said[i].folder), said[i].file)
      BY <2>14 DEF local
    <3>2. batch = [i \in 1..(a + b) |-> batch[i]]
      BY <2>13
    <3> QED BY <2>12, <3>1, <3>2
  <2>18. /\ \A p \in Means(e) : \E i \in 1..Len(said) : said[i].folder = p.folder
         /\ \A i \in 1..Len(said) : said[i].file = NoFile \/ said[i] \in Means(e)
    BY <2>12, <2>14, <2>15
  <2> QED BY <2>12, <2>16, <2>17, <2>18, ExactBatch
<1> QED BY <1>2, <1>3

TrainEvent ==
  [hook : {"a-train"}, type : {"Changes", "Garbage"}, drive : STRING,
   created : Seq(Path), deleted : Seq(Path)]

LEMMA TrainHands ==
  ASSUME NEW rules \in Rules, NEW e \in TrainEvent, NEW batch \in ATrain(rules, e)
  PROVE  Handed(batch, Local(rules, Means(e)))
<1> DEFINE all == e.created \o e.deleted
           a == Len(e.created)
           b == Len(e.deleted)
           n == a + b
           said == [i \in 1..n |-> Entry(all[i], NoFile)]
<1>1. /\ e.created \in Seq(Path) /\ e.deleted \in Seq(Path) /\ e.hook = "a-train"
      /\ e.type = "Changes"
  BY DEF TrainEvent, ATrain
<1>2. batch = [i \in DOMAIN all |-> Entry(Rewritten(rules, all[i]), NoFile)]
  BY <1>1 DEF ATrain
<1>3. Means(e) = {Entry(p, NoFile) : p \in ToSet(e.created) \cup ToSet(e.deleted)}
  BY <1>1 DEF Means
<1>4. /\ all \in Seq(Path) /\ Len(all) = n
      /\ \A i \in 1..n : all[i] = IF i =< a THEN e.created[i] ELSE e.deleted[i - a]
  BY <1>1, ConcatProperties
<1>5. a \in Nat /\ b \in Nat /\ DOMAIN e.created = 1..a /\ DOMAIN e.deleted = 1..b
  BY <1>1
<1> HIDE DEF all, a, b
<1>6. n \in Nat /\ DOMAIN all = 1..n /\ \A i \in 1..n : all[i] \in Path
  BY <1>4, <1>5
<1>7. ASSUME NEW i \in 1..n
      PROVE  all[i] \in ToSet(e.created) \cup ToSet(e.deleted)
  <2>1. CASE i =< a
    <3>1. i \in DOMAIN e.created /\ all[i] = e.created[i]
      BY <1>4, <1>5, <2>1
    <3> QED BY <3>1 DEF ToSet
  <2>2. CASE ~(i =< a)
    <3>1. i - a \in DOMAIN e.deleted /\ all[i] = e.deleted[i - a]
      BY <1>4, <1>5, <2>2
    <3> QED BY <3>1 DEF ToSet
  <2> QED BY <2>1, <2>2
<1>8. \A p \in ToSet(e.created) \cup ToSet(e.deleted) : \E i \in 1..n : all[i] = p
  <2>1. ASSUME NEW j \in 1..a
        PROVE  \E i \in 1..n : all[i] = e.created[j]
    <3>1. j \in 1..n /\ j =< a
      BY <1>5
    <3> QED BY <1>4, <3>1
  <2>2. ASSUME NEW j \in 1..b
        PROVE  \E i \in 1..n : all[i] = e.deleted[j]
    <3>1. a + j \in 1..n /\ ~(a + j =< a) /\ (a + j) - a = j
      BY <1>5
    <3>2. all[a + j] = e.deleted[(a + j) - a]
      BY <1>4, <3>1
    <3> QED BY <3>1, <3>2
  <2> QED BY <1>5, <2>1, <2>2 DEF ToSet
<1> HIDE DEF n
<1>9. \A i \in 1..n : /\ said[i] \in Place /\ said[i].folder = all[i] /\ said[i].file = NoFile
                      /\ said[i] = Entry(all[i], NoFile)
  BY <1>6, EntryType
<1>10. said = [i \in 1..n |-> said[i]]
  OBVIOUS
<1> HIDE DEF said
<1>11. said \in [1..n -> Place]
  BY <1>9, <1>10
<1>12. said \in Seq(Place) /\ Len(said) = n
  BY <1>6, <1>11
<1>13. batch = [i \in 1..Len(said) |-> Entry(Rewritten(rules, said[i].folder), said[i].file)]
  BY <1>2, <1>6, <1>9, <1>12
<1>14. /\ Means(e) \in SUBSET Place
       /\ \A p \in Means(e) : \E i \in 1..Len(said) : said[i].folder = p.folder
  <2>1. \A p \in Means(e) : \E i \in 1..n : p = said[i]
    BY <1>3, <1>8, <1>9
  <2> QED BY <1>9, <1>12, <2>1
<1>15. \A i \in 1..Len(said) : said[i].file = NoFile \/ said[i] \in Means(e)
  BY <1>9, <1>12
<1> QED BY <1>12, <1>13, <1>14, <1>15, ExactBatch

\* Every batch that a trigger hands over stands for what was meant.
LEMMA BatchesStand ==
  ASSUME NEW e \in Events, NEW batch \in Batches[e]
  PROVE  Handed(batch, Meant[e])
<1>1. e \in Event /\ RulesOf(e) \in Rules /\ RulesNameFolders(e)
  BY DeliveryAssumption
<1>2. Meant[e] = Local(RulesOf(e), Means(e))
  BY DEF Meant
<1>3. CASE e.hook = "sonarr"
  <2>1. e \in ArrEvent /\ Batches[e] = Sonarr(RulesOf(e), e)
    BY <1>1, <1>3 DEF Event, ArrEvent, Batches
  <2> QED BY <1>1, <1>2, <1>3, <2>1, SonarrHands
<1>4. CASE e.hook = "radarr"
  <2>1. e \in ArrEvent /\ Batches[e] = Radarr(RulesOf(e), e)
    BY <1>1, <1>4 DEF Event, ArrEvent, Batches
  <2> QED BY <1>1, <1>2, <1>4, <2>1, RadarrHands
<1>5. CASE e.hook \in {"lidarr", "readarr"}
  <2>1. e \in TrackEvent /\ Batches[e] \subseteq Lidarr(RulesOf(e), e) \cup Readarr(RulesOf(e), e)
    BY <1>1, <1>5 DEF Event, TrackEvent, Batches
  <2>2. \A p \in ToSet(e.files) : \A i \in DOMAIN RulesOf(e) : RulesOf(e)[i].from # p
    BY <1>1, <1>5 DEF RulesNameFolders
  <2> QED BY <1>1, <1>2, <2>1, <2>2, TracksHand
<1>6. CASE e.hook = "manual"
  <2>1. e \in ManualEvent /\ Batches[e] = Manual(RulesOf(e), e)
    BY <1>1, <1>6 DEF Event, ManualEvent, Batches
  <2> QED BY <1>1, <1>2, <2>1, ManualHands
<1>7. CASE e.hook = "a-train"
  <2>1. e \in TrainEvent /\ Batches[e] = ATrain(RulesOf(e), e)
    BY <1>1, <1>7 DEF Event, TrainEvent, Batches
  <2> QED BY <1>1, <1>2, <2>1, TrainHands
<1> QED BY <1>1, <1>3, <1>4, <1>5, <1>6, <1>7 DEF Event

-----------------------------------------------------------------------------
(* A partial sync.                                                          *)

\* The folders that the hooks of a sync hand over are possible ones of the drive.
LEMMA FoundPaths ==
  ASSUME IsTree(store), IsTree(drive), ~NotFound, ~Endless, NEW p \in NewFolders \cup OldFolders
  PROVE  p \in Path /\ p \in DrivePaths /\ Rewritten(DriveRules, p) \in Folder
<1> DEFINE S == UNION {NamesOf[j] : j \in DriveFolder}
<1>1. PICK d \in 0..Depth : p \in [1..d -> S]
  BY FoundFolders
<1>2. S \subseteq Name
  BY BernardDiffAssumption DEF Item
<1>3. Depth \in Nat
  BY DepthType
<1>4. d \in Nat
  BY <1>3
<1>5. p \in [1..d -> Name \cup {Void}]
  BY <1>1, <1>2
<1>6. p \in Path
  BY <1>4, <1>5 DEF Path
<1>7. p \in DrivePaths
  BY <1>1 DEF DrivePaths
<1> QED BY <1>6, <1>7, FoldersAssumption

LEMMA ChangedPathsType ==
  ASSUME IsTree(store), IsTree(drive)
  PROVE  ChangedPaths \subseteq Path
<1> SUFFICES ASSUME NEW t, IsTree(t), NEW f \in Visible(t)
             PROVE  PathOf(t, t[f].parent) \in Path
  BY DEF ChangedPaths, Sights
<1>1. f \in Item /\ t[f] # NoItem
  BY DEF Visible, Item
<1>2. PathOf(t, t[f].parent) \in Seq(Name)
  BY <1>1, ParentPath
<1>3. Seq(Name) \subseteq Seq(Name \cup {Void})
  OBVIOUS
<1> QED BY <1>2, <1>3 DEF Path

\* The scans of a sync stand for what is wanted.
LEMMA SyncHands ==
  ASSUME IsTree(store), IsTree(drive), ~NotFound, ~Endless
  PROVE  /\ Handed(SetToSeq(ScanTask), Wanted)
         /\ \A i \in DOMAIN SetToSeq(ScanTask) :
              SetToSeq(ScanTask)[i].folder \in Folder /\ SetToSeq(ScanTask)[i].file = NoFile
<1> DEFINE F == NewFolders \cup OldFolders
           to == [p \in F |-> Rewritten(DriveRules, p)]
           found == {to[p] : p \in F}
           passed == {q \in found : Allowed(Includes, Excludes, q)}
           scan == [q \in passed |-> Entry(q, NoFile)]
           batch == SetToSeq(ScanTask)
<1>1. /\ DriveRules \in Rules
      /\ \A p \in F : p \in Path /\ to[p] = Rewritten(DriveRules, p) /\ to[p] \in Folder
  BY FoundPaths, DeliveryAssumption
<1>2. \A p \in F : to[p] \in Path
  BY <1>1, Rewriting
<1>3. ScanTask = {scan[q] : q \in passed}
  BY DEF ScanTask
<1>4. IsFiniteSet(F)
  BY FoundFolders
<1>5. IsFiniteSet(found)
  <2> HIDE DEF F
  <2>1. to = [p \in F |-> to[p]]
    OBVIOUS
  <2> HIDE DEF to
  <2> QED BY <1>4, <2>1, FiniteImage
<1>6. IsFiniteSet(passed)
  BY <1>5, FS_Subset, passed \subseteq found
<1>7. \A q \in passed : scan[q] \in Place /\ scan[q].folder = q /\ scan[q].file = NoFile
                        /\ q \in Folder
  <2>1. \A q \in passed : q \in Path /\ q \in Folder
    BY <1>1, <1>2
  <2> QED BY <2>1, EntryType
<1>8. IsFiniteSet(ScanTask)
  <2> HIDE DEF passed
  <2>1. scan = [q \in passed |-> scan[q]]
    OBVIOUS
  <2> HIDE DEF scan
  <2> QED BY <1>3, <1>6, <2>1, FiniteImage
<1>9. batch \in Seq(ScanTask) /\ ToSet(batch) = ScanTask
  BY <1>8, ChosenOrder
<1> HIDE DEF batch, scan
<1>10. \A i \in DOMAIN batch : \E q \in passed : batch[i] = scan[q]
  BY <1>3, <1>9 DEF ToSet
<1>11. \A q \in passed : \E i \in DOMAIN batch : batch[i] = scan[q]
  BY <1>3, <1>9 DEF ToSet
<1>12. ScanTask \subseteq Place
  BY <1>3, <1>7
<1>13. batch \in Seq(Place)
  BY <1>9, <1>12
<1>14. \A i \in DOMAIN batch : batch[i].folder \in Folder /\ batch[i].file = NoFile
  BY <1>7, <1>10
<1>15. ASSUME NEW c \in ChangedPaths, Allowed(Includes, Excludes, Rewritten(DriveRules, c)),
              \A p \in F : IsPrefix(p, c) => StandsFor(p, c)
       PROVE  /\ Entry(Rewritten(DriveRules, c), NoFile) \in Place
              /\ Entry(Rewritten(DriveRules, c), NoFile).folder = Rewritten(DriveRules, c)
              /\ \E i \in DOMAIN batch : IsPrefix(batch[i].folder, Rewritten(DriveRules, c))
  <2>1. c \in Path
    BY ChangedPathsType
  <2>2. Rewritten(DriveRules, c) \in Path
    BY <1>1, <2>1, Rewriting
  <2>3. PICK p \in F : IsPrefix(p, c)
    BY DiffCovers
  <2>4. StandsFor(p, c)
    BY <1>15, <2>3
  <2>5. to[p] \in passed /\ IsPrefix(to[p], Rewritten(DriveRules, c))
    BY <1>1, <2>4 DEF StandsFor
  <2>6. PICK i \in DOMAIN batch : batch[i] = scan[to[p]]
    BY <1>11, <2>5
  <2>7. batch[i].folder = to[p]
    BY <1>7, <2>5, <2>6
  <2> QED BY <2>2, <2>5, <2>7, EntryType
<1>16. Wanted \subseteq Place /\ Covers(batch, Wanted)
  BY <1>14, <1>15 DEF Wanted, Covers
<1>17. Announces(batch, Wanted)
  BY <1>14 DEF Announces
<1> QED BY <1>13, <1>14, <1>16, <1>17 DEF Handed, batch

-----------------------------------------------------------------------------
(* The inductive invariant.                                                 *)

OwedRecord == [library : Path, folder : Path, file : Name \cup {Void, NoFile}]

\* What a server is owed belongs to the library that it is owed to.
OwedBelongs == \A t \in Target : \A o \in owed[t] : IsPrefix(o.library, At(t, o.folder))

\* The row of f is enough for the change o: it is of a whole folder or of o's own file, or
\* it says what was announced with o or after it.
Stands(f, o) ==
  /\ IsPrefix(f, o.folder)
  /\ \/ table[f].relativePath = NoFile
     \/ Entry(f, table[f].relativePath) = Entry(o.folder, o.file)
     \/ <<Entry(o.folder, o.file), Entry(f, table[f].relativePath)>> \in grouped

RowsStand == \A t \in Target : \A o \in owed[t] : \E f \in Queued(table) : Stands(f, o)

IInv == TypeOK /\ OwedBelongs /\ RowsStand

\* A pair is kept while its change waits and its row says its file.
LEMMA KeptPairs ==
  ASSUME NEW pairs, NEW t \in Target, NEW o \in owed'[t], NEW f \in Queued(table'),
         table'[f].relativePath # NoFile,
         <<Entry(o.folder, o.file), Entry(f, table'[f].relativePath)>> \in pairs
  PROVE  <<Entry(o.folder, o.file), Entry(f, table'[f].relativePath)>> \in Kept(pairs)
<1> DEFINE said == Entry(o.folder, o.file)
           row == Entry(f, table'[f].relativePath)
<1>1. said \in Waiting'
  BY DEF Waiting
<1>2. row \in Rows' /\ row.file # NoFile
  BY DEF Rows, Entry
<1>3. <<said, row>>[1] = said /\ <<said, row>>[2] = row /\ <<said, row>> \in pairs
  OBVIOUS
<1> HIDE DEF said, row
<1>4. <<said, row>> \in Kept(pairs)
  BY <1>1, <1>2, <1>3 DEF Kept
<1> QED BY <1>4 DEF said, row

LEMMA AtType ==
  ASSUME NEW t \in Target, NEW f \in Path
  PROVE  /\ Rewritten(TargetRules[t], f) \in Path
         /\ Rewritten(Downstream, Rewritten(TargetRules[t], f)) \in Path
         /\ At(t, f) \in Path
         /\ Kind[t] # "autoscan" => At(t, f) = Rewritten(TargetRules[t], f)
         /\ Kind[t] = "autoscan" => At(t, f) = Rewritten(Downstream, Rewritten(TargetRules[t], f))
<1>1. TargetRules[t] \in Rules /\ Downstream \in Rules
  BY DeliveryAssumption
<1>2. Rewritten(TargetRules[t], f) \in Path
  BY <1>1, Rewriting
<1>3. Rewritten(Downstream, Rewritten(TargetRules[t], f)) \in Path
  BY <1>1, <1>2, Rewriting
<1> QED BY <1>2, <1>3 DEF At

\* What is owed for a set of places.
LEMMA OwedFor ==
  ASSUME NEW t \in Target, libraries \in [Target -> SUBSET Path], NEW places \in SUBSET Place,
         NEW o \in Owes(t, places)
  PROVE  /\ o \in OwedRecord
         /\ IsPrefix(o.library, At(t, o.folder))
         /\ Entry(o.folder, o.file) \in places
<1>1. PICK p \in places :
        \E l \in Matched(libraries[t], At(t, p.folder)) : o = Request(l, p.folder, p.file)
  BY DEF Owes
<1>2. PICK l \in Matched(libraries[t], At(t, p.folder)) : o = Request(l, p.folder, p.file)
  BY <1>1
<1>3. l \in Path /\ IsPrefix(l, At(t, p.folder))
  BY DEF Matched
<1>4. p.folder \in Path /\ p.file \in Name \cup {Void, NoFile}
  BY DEF Place, NameOrVoid
<1>5. o.library = l /\ o.folder = p.folder /\ o.file = p.file
  BY <1>2 DEF Request
<1>6. o \in OwedRecord
  BY <1>2, <1>3, <1>4 DEF OwedRecord, Request
<1>7. Entry(p.folder, p.file) = p
  BY DEF Entry, Place
<1> QED BY <1>3, <1>5, <1>6, <1>7

\* A batch that stands for places keeps what is owed for them in the table.
LEMMA Enqueued ==
  ASSUME IInv, NEW batch, NEW places, Handed(batch, places),
         \A i \in DOMAIN batch : batch[i].folder \in Folder /\ batch[i].file \in RelPath,
         Enqueue(batch, places)
  PROVE  /\ table' \in Table /\ owed' \in [Target -> SUBSET OwedRecord]
         /\ OwedBelongs' /\ RowsStand'
<1> DEFINE scans == [i \in DOMAIN batch |-> ScanOf(batch[i])]
<1>1. /\ batch \in Seq(Place) /\ places \in SUBSET Place
      /\ Covers(batch, places) /\ Announces(batch, places)
  BY DEF Handed
<1>2. /\ table \in Table /\ libraries \in [Target -> SUBSET Path]
      /\ owed \in [Target -> SUBSET OwedRecord]
  BY DEF IInv, TypeOK, OwedRecord
<1>3. /\ table' = UpsertedAll(table, scans)
      /\ owed' = [t \in Target |-> owed[t] \cup Owes(t, places)]
      /\ grouped' = Kept(Follows(places))
  BY DEF Enqueue
<1>4. /\ scans \in Seq(Scan) /\ Len(scans) \in Nat
      /\ DOMAIN batch = 1..Len(scans)
      /\ \A i \in DOMAIN batch : /\ scans[i].folder = batch[i].folder
                                 /\ scans[i].relativePath = batch[i].file
  <2>1. \A i \in DOMAIN batch : /\ ScanOf(batch[i]) \in Scan
                                /\ ScanOf(batch[i]).folder = batch[i].folder
                                /\ ScanOf(batch[i]).relativePath = batch[i].file
    BY DeliveryAssumption DEF ScanOf, Scan
  <2>2. Len(batch) \in Nat /\ DOMAIN batch = 1..Len(batch)
    BY <1>1
  <2>3. scans \in [1..Len(batch) -> Scan]
    BY <2>1, <2>2
  <2>4. scans \in Seq(Scan) /\ Len(scans) = Len(batch)
    BY <2>2, <2>3
  <2> QED BY <2>1, <2>2, <2>4
<1> HIDE DEF scans
<1>5. /\ table' \in Table
      /\ Queued(table) \subseteq Queued(table')
      /\ \A i \in DOMAIN batch : batch[i].folder \in Queued(table')
      /\ \A f \in Queued(table') :
           \/ /\ f \in Queued(table) /\ \A i \in DOMAIN batch : batch[i].folder # f
              /\ table'[f].relativePath = table[f].relativePath
           \/ \E i \in DOMAIN batch : /\ f = batch[i].folder
                                      /\ table'[f].relativePath = batch[i].file
  <2>1. table' = UpsertedAll(table, scans) /\ DOMAIN batch = 1..Len(scans)
    BY <1>3, <1>4
  <2>2. /\ UpsertedAll(table, scans) \in Table
        /\ Queued(table) \subseteq Queued(UpsertedAll(table, scans))
        /\ \A i \in 1..Len(scans) : scans[i].folder \in Queued(UpsertedAll(table, scans))
        /\ \A f \in Queued(UpsertedAll(table, scans)) :
             \/ /\ f \in Queued(table) /\ \A i \in 1..Len(scans) : scans[i].folder # f
                /\ UpsertedAll(table, scans)[f].relativePath = table[f].relativePath
             \/ \E i \in 1..Len(scans) :
                  /\ f = scans[i].folder
                  /\ UpsertedAll(table, scans)[f].relativePath = scans[i].relativePath
    BY <1>2, <1>4, UpsertedAllRows
  <2> QED BY <1>4, <2>1, <2>2
<1>6. \A t \in Target : \A o \in owed'[t] :
        /\ o \in OwedRecord /\ IsPrefix(o.library, At(t, o.folder))
        /\ o \in owed[t] \/ Entry(o.folder, o.file) \in places
  BY <1>1, <1>2, <1>3, OwedFor DEF IInv, OwedBelongs
<1>7. owed' \in [Target -> SUBSET OwedRecord]
  <2>1. owed' = [t \in Target |-> owed'[t]]
    BY <1>3
  <2> QED BY <1>6, <2>1
<1>8. OwedBelongs'
  BY <1>6 DEF OwedBelongs
<1>9. ASSUME NEW t \in Target, NEW o \in owed'[t], NEW f \in Queued(table'),
             IsPrefix(f, o.folder), table'[f].relativePath # NoFile,
             <<Entry(o.folder, o.file), Entry(f, table'[f].relativePath)>> \in Follows(places)
      PROVE  Stands(f, o)'
  BY <1>3, <1>9, KeptPairs DEF Stands
<1>10. ASSUME NEW f \in Queued(table'), NEW i \in DOMAIN batch, f = batch[i].folder
       PROVE  \/ table'[f].relativePath = NoFile
              \/ Entry(f, table'[f].relativePath) \in places
  <2>1. PICK j \in DOMAIN batch : f = batch[j].folder /\ table'[f].relativePath = batch[j].file
    BY <1>5, <1>10
  <2>2. batch[j] \in Place
    BY <1>1
  <2>3. Entry(f, table'[f].relativePath) = batch[j]
    BY <2>1, <2>2 DEF Entry, Place
  <2> QED BY <1>1, <2>1, <2>3 DEF Announces
<1>11. ASSUME NEW t \in Target, NEW o \in owed'[t]
       PROVE  \E f \in Queued(table') : Stands(f, o)'
  <2> DEFINE said == Entry(o.folder, o.file)
  <2>1. o.folder \in Path /\ said.folder = o.folder
    BY <1>6 DEF OwedRecord, Entry
  <2>2. ASSUME said \in places, NEW i \in DOMAIN batch, batch[i].folder = o.folder
        PROVE  \E f \in Queued(table') : Stands(f, o)'
    <3> DEFINE f == batch[i].folder
               row == Entry(f, table'[f].relativePath)
    <3>1. f \in Queued(table') /\ IsPrefix(f, o.folder)
      BY <1>5, <2>1, <2>2, PrefixReflexive DEF Path
    <3>2. CASE table'[f].relativePath = NoFile
      BY <3>1, <3>2 DEF Stands
    <3>3. CASE table'[f].relativePath # NoFile
      <4>1. row \in places /\ row.folder = said.folder
        BY <1>10, <2>1, <2>2, <3>1, <3>3 DEF Entry
      <4>2. <<said, row>> \in Follows(places)
        <5>1. <<said, row>> \in places \X places
          BY <2>2, <4>1
        <5>2. <<said, row>>[1].folder = <<said, row>>[2].folder
          BY <4>1
        <5> HIDE DEF said, row
        <5> QED BY <5>1, <5>2 DEF Follows
      <4> QED BY <1>9, <3>1, <3>3, <4>2
    <3> QED BY <3>2, <3>3
  <2>3. ASSUME NEW i \in DOMAIN batch, IsPrefix(batch[i].folder, o.folder),
               \A j \in DOMAIN batch : batch[j].file = NoFile
        PROVE  \E f \in Queued(table') : Stands(f, o)'
    <3>1. batch[i].folder \in Queued(table') /\ table'[batch[i].folder].relativePath = NoFile
      BY <1>5, <2>3
    <3> QED BY <2>3, <3>1 DEF Stands
  <2>4. ASSUME said \notin places
        PROVE  \E f \in Queued(table') : Stands(f, o)'
    <3>1. o \in owed[t]
      BY <1>6, <2>4
    <3>2. PICK f \in Queued(table) : Stands(f, o)
      BY <3>1 DEF IInv, RowsStand
    <3> DEFINE row == Entry(f, table'[f].relativePath)
    <3>3. f \in Queued(table') /\ IsPrefix(f, o.folder)
      BY <1>5, <3>2 DEF Stands
    <3>4. CASE table'[f].relativePath = NoFile
      BY <3>3, <3>4 DEF Stands
    <3>5. CASE table'[f].relativePath # NoFile /\ \E i \in DOMAIN batch : f = batch[i].folder
      <4>1. row \in places
        BY <1>10, <3>3, <3>5
      <4>2. said \in Waiting \ places
        BY <2>4, <3>1 DEF Waiting
      <4>3. <<said, row>> \in Follows(places)
        <5> HIDE DEF said, row
        <5> QED BY <4>1, <4>2 DEF Follows
      <4> QED BY <1>9, <3>3, <3>5, <4>3
    <3>6. CASE /\ table'[f].relativePath # NoFile
               /\ table'[f].relativePath = table[f].relativePath
      <4>1. row = said \/ <<said, row>> \in grouped
        BY <3>2, <3>6 DEF Stands
      <4>2. CASE row = said
        BY <3>3, <4>2 DEF Stands
      <4>3. CASE <<said, row>> \in grouped
        <5>1. <<said, row>> \in Follows(places)
          <6>1. <<said, row>>[1] \notin places
            BY <2>4
          <6> HIDE DEF said, row
          <6> QED BY <4>3, <6>1 DEF Follows
        <5> QED BY <1>9, <3>3, <3>6, <5>1
      <4> QED BY <4>1, <4>2, <4>3
    <3> QED BY <1>5, <3>3, <3>4, <3>5, <3>6
  <2>5. said \in places =>
          \/ \E i \in DOMAIN batch : batch[i].folder = o.folder
          \/ /\ \E i \in DOMAIN batch : IsPrefix(batch[i].folder, o.folder)
             /\ \A i \in DOMAIN batch : batch[i].file = NoFile
    BY <1>1, <2>1 DEF Covers
  <2> QED BY <2>2, <2>3, <2>4, <2>5
<1>12. RowsStand'
  BY <1>11 DEF RowsStand
<1> QED BY <1>5, <1>7, <1>8, <1>12

-----------------------------------------------------------------------------
(* A scan reaches the servers.                                              *)

\* What an autoscan target sends arrives at the other instance as the folder or as the file.
LEMMA AutoscanSends ==
  ASSUME NEW server \in Path, NEW f \in Path, NEW file
  PROVE  /\ file = NoFile =>
              Request(AnyLibrary, Rewritten(Downstream, server), NoFile)
                \in Autoscan(Downstream, server, f, file)
         /\ file # NoFile =>
              Request(AnyLibrary, Rewritten(Downstream, f), file)
                \in Autoscan(Downstream, server, f, file)
<1> DEFINE path == IF file = NoFile THEN <<>> ELSE Append(f, file)
           call == ManualCall(server, path)
           D == [i \in DOMAIN call.dirs |-> Entry(Rewritten(Downstream, call.dirs[i]), NoFile)]
           P == [i \in DOMAIN call.paths |->
                   Entry(Rewritten(Downstream, Dir(call.paths[i])), Base(call.paths[i]))]
           batch == D \o P
<1>1. Autoscan(Downstream, server, f, file) =
        {Request(AnyLibrary, s.folder, s.file) :
           s \in UNION {ToSet(b) : b \in Manual(Downstream, call)}}
  BY DEF Autoscan
<1>2. ASSUME call.dirs # <<>> \/ call.paths # <<>>
      PROVE  batch \in Manual(Downstream, call)
  <2>1. call.type = "POST"
    BY DEF ManualCall
  <2> HIDE DEF call
  <2> QED BY <1>2, <2>1 DEF Manual
<1>3. ASSUME batch \in Manual(Downstream, call), DOMAIN batch = {1}
      PROVE  Request(AnyLibrary, batch[1].folder, batch[1].file)
               \in Autoscan(Downstream, server, f, file)
  <2> HIDE DEF batch, call
  <2>1. batch[1] \in ToSet(batch)
    BY <1>3 DEF ToSet
  <2>2. batch[1] \in UNION {ToSet(b) : b \in Manual(Downstream, call)}
    BY <1>3, <2>1
  <2> QED BY <1>1, <2>2
<1>4. CASE file = NoFile
  <2>1. path = <<>>
    BY <1>4
  <2>2. call.dirs = <<server>> /\ call.paths = <<>>
    BY <2>1 DEF ManualCall
  <2>3. <<server>> # <<>>
    OBVIOUS
  <2>4. batch \in Manual(Downstream, call)
    BY <1>2, <2>2, <2>3
  <2>5. D = <<Entry(Rewritten(Downstream, server), NoFile)>> /\ P = <<>>
    <3> HIDE DEF call
    <3> QED BY <2>2
  <2> HIDE DEF D, P, call
  <2>6. DOMAIN batch = {1} /\ batch[1] = Entry(Rewritten(Downstream, server), NoFile)
    BY <2>5
  <2> HIDE DEF batch
  <2>7. /\ batch[1].folder = Rewritten(Downstream, server)
        /\ batch[1].file = NoFile
    BY <2>6 DEF Entry
  <2> QED BY <1>3, <1>4, <2>4, <2>6, <2>7
<1>5. CASE file # NoFile
  <2>1. path = Append(f, file) /\ path # <<>> /\ Dir(path) = f /\ Base(path) = file
    BY <1>5, AppendedPath
  <2> HIDE DEF path
  <2>2. call.dirs = <<>> /\ call.paths = <<path>>
    BY <2>1 DEF ManualCall
  <2>3. <<path>> # <<>>
    OBVIOUS
  <2>4. batch \in Manual(Downstream, call)
    BY <1>2, <2>2, <2>3
  <2>5. D = <<>> /\ P = <<Entry(Rewritten(Downstream, f), file)>>
    <3> HIDE DEF call
    <3>1. D = <<>> /\ DOMAIN call.paths = {1} /\ call.paths[1] = path
      BY <2>2
    <3>2. P = [i \in {1} |-> Entry(Rewritten(Downstream, Dir(path)), Base(path))]
      BY <3>1
    <3>3. P = [i \in {1} |-> Entry(Rewritten(Downstream, f), file)]
      BY <2>1, <3>2
    <3> QED BY <3>1, <3>3
  <2> HIDE DEF D, P, call
  <2>6. DOMAIN batch = {1} /\ batch[1] = Entry(Rewritten(Downstream, f), file)
    BY <2>5
  <2> HIDE DEF batch
  <2>7. batch[1].folder = Rewritten(Downstream, f) /\ batch[1].file = file
    BY <2>6 DEF Entry
  <2> QED BY <1>3, <1>5, <2>4, <2>6, <2>7
<1> QED BY <1>4, <1>5

\* Of the changes at or below the folder of a scan, the target tells its server, but for
\* those that are forgiven.
LEMMA ServerTold ==
  ASSUME IInv, NEW f \in Queued(table), NEW t \in Target, NEW o \in owed[t],
         Stands(f, o), o \notin Forgiven(t, f)
  PROVE  o \in Told(t, Requests(t, f))
<1> DEFINE server == Rewritten(TargetRules[t], f)
           file == table[f].relativePath
<1>1. /\ known \in [Target -> SUBSET Path] /\ known[t] \subseteq Path
      /\ o.library \in Path /\ o.folder \in Path /\ f \in Path
      /\ Kind[t] \in {"plex", "emby", "jellyfin", "autoscan"}
  BY FoldersAssumption, DeliveryAssumption DEF IInv, TypeOK, Queued
<1>2. /\ ~Unmatched(t, f, o) /\ ~AboveRule(t, f, o)
      /\ ~Overwritten(t, f, o) /\ ~NotRewritten(t, f)
  BY DEF Forgiven, Stands
<1>3. server \in Path /\ At(t, f) \in Path /\ At(t, o.folder) \in Path
  BY <1>1, AtType
<1>4. o.library \in known[t] /\ ~IsStrictPrefix(server, o.library)
  BY <1>2 DEF Unmatched
<1>5. IsPrefix(At(t, f), At(t, o.folder))
  <2>1. CASE f = o.folder
    BY <1>3, <2>1, PrefixReflexive DEF Path
  <2>2. CASE f # o.folder
    BY <1>2, <2>2 DEF AboveRule, IsStrictPrefix, Stands
  <2> QED BY <2>1, <2>2
<1>6. IsPrefix(o.library, At(t, o.folder))
  BY DEF IInv, OwedBelongs
<1>7. ASSUME Kind[t] # "plex", file # NoFile
      PROVE  f = o.folder /\ file = o.file
  <2>1. \/ Entry(f, file) = Entry(o.folder, o.file)
        \/ <<Entry(o.folder, o.file), Entry(f, file)>> \in grouped
    BY <1>7 DEF Stands
  <2>2. Entry(f, file) = Entry(o.folder, o.file)
    <3>1. Entry(f, file).file # NoFile
      BY <1>7 DEF Entry
    <3> HIDE DEF file
    <3> QED BY <1>2, <1>7, <2>1, <3>1 DEF Overwritten, file
  <2> QED BY <2>2 DEF Entry
<1> HIDE DEF server, file
<1>8. SUFFICES \E q \in Requests(t, f) : Tells(t, q, o)
  BY DEF Told
<1>9. CASE Kind[t] # "autoscan"
  <2>1. At(t, f) = server
    BY <1>1, <1>9, AtType DEF server
  <2>2. o.library \in Matched(known[t], server)
    <3>1. IsPrefix(o.library, server) \/ IsStrictPrefix(server, o.library)
      BY <1>1, <1>3, <1>5, <1>6, <2>1, PrefixesCompare DEF Path
    <3> QED BY <1>4, <3>1 DEF Matched
  <2>3. CASE Kind[t] = "plex"
    <3>1. Requests(t, f) = Plex(known[t], server)
      BY <2>3 DEF Requests, server
    <3>2. Request(o.library, server, NoFile) \in Requests(t, f)
      BY <2>2, <3>1 DEF Plex, SectionRefresh
    <3>3. Tells(t, Request(o.library, server, NoFile), o)
      BY <1>5, <2>1 DEF Tells, Request
    <3> QED BY <3>2, <3>3
  <2>4. CASE Kind[t] \in {"emby", "jellyfin"}
    <3>1. Requests(t, f) = Emby(known[t], server, file)
      BY <2>4 DEF Requests, Jellyfin, server, file
    <3>2. Request(AnyLibrary, server, file) \in Requests(t, f)
      BY <2>2, <3>1 DEF Emby, MediaUpdated
    <3>3. Tells(t, Request(AnyLibrary, server, file), o)
      BY <1>5, <1>7, <2>1, <2>4 DEF Tells, Request
    <3> QED BY <3>2, <3>3
  <2> QED BY <1>1, <1>9, <2>3, <2>4
<1>10. CASE Kind[t] = "autoscan"
  <2>1. At(t, f) = Rewritten(Downstream, server)
    BY <1>1, <1>10, AtType DEF server
  <2>2. Requests(t, f) = Autoscan(Downstream, server, f, file)
    BY <1>10 DEF Requests, server, file
  <2>3. CASE file = NoFile
    <3>1. Request(AnyLibrary, Rewritten(Downstream, server), NoFile) \in Requests(t, f)
      BY <1>1, <1>3, <2>2, <2>3, AutoscanSends
    <3>2. Tells(t, Request(AnyLibrary, Rewritten(Downstream, server), NoFile), o)
      BY <1>5, <2>1 DEF Tells, Request
    <3> QED BY <3>1, <3>2
  <2>4. CASE file # NoFile
    <3>1. server = f
      BY <1>2, <1>10, <2>4 DEF NotRewritten, server, file
    <3>2. Request(AnyLibrary, Rewritten(Downstream, server), file) \in Requests(t, f)
      BY <1>1, <1>3, <2>2, <2>4, <3>1, AutoscanSends
    <3>3. f = o.folder /\ file = o.file
      BY <1>7, <1>10, <2>4
    <3>4. Tells(t, Request(AnyLibrary, Rewritten(Downstream, server), file), o)
      BY <2>1, <2>4, <3>3 DEF Tells, Request
    <3> QED BY <3>2, <3>4
  <2> QED BY <2>3, <2>4
<1> QED BY <1>9, <1>10

-----------------------------------------------------------------------------
(* The theorems.                                                            *)

\* While the rows stay, what is owed may only become less.
LEMMA RowsStay ==
  ASSUME IInv, UNCHANGED queue, \A t \in Target : owed'[t] \subseteq owed[t]
  PROVE  OwedBelongs' /\ RowsStand'
<1>1. table' = table /\ grouped' = grouped
  BY DEF queue
<1>2. OwedBelongs'
  BY DEF IInv, OwedBelongs
<1>3. RowsStand'
  BY <1>1 DEF IInv, RowsStand, Stands
<1> QED BY <1>2, <1>3

LEMMA Initially == Init => IInv
<1> SUFFICES ASSUME Init PROVE IInv
  OBVIOUS
<1>1. /\ table = EmptyTable /\ libraries = FirstLibraries /\ known = FirstLibraries
      /\ alive = TRUE /\ events = 0 /\ faults = 0 /\ owed = [t \in Target |-> {}]
      /\ grouped = {} /\ DiffInit
  BY DEF Init
<1>2. IsTree(store) /\ IsTree(drive) /\ stuck = FALSE /\ ops = 0
  BY <1>1, TreesAssumption DEF DiffInit
<1>3. EmptyTable \in Table /\ Queued(EmptyTable) = {}
  BY DEF EmptyTable, Table, Queued
<1>4. owed \in [Target -> SUBSET OwedRecord] /\ \A t \in Target : owed[t] = {}
  BY <1>1
<1>5. TypeOK
  <2>1. /\ libraries \in [Target -> SUBSET Path] /\ known \in [Target -> SUBSET Path]
        /\ alive \in BOOLEAN /\ stuck \in BOOLEAN
    BY <1>1, <1>2, DeliveryAssumption
  <2>2. 0 \in 0..MaxEvents /\ 0 \in 0..MaxFaults /\ 0 \in 0..MaxOps
    BY DeliveryAssumption, BernardDiffAssumption
  <2>3. table \in Table /\ events \in 0..MaxEvents /\ faults \in 0..MaxFaults /\ ops \in 0..MaxOps
    BY <1>1, <1>2, <1>3, <2>2
  <2> QED BY <1>2, <1>4, <2>1, <2>3 DEF TypeOK, OwedRecord
<1>6. OwedBelongs /\ RowsStand
  BY <1>4 DEF OwedBelongs, RowsStand
<1> QED BY <1>5, <1>6 DEF IInv

\* A row goes when every server has been told of all that it stands for.
LEMMA ProcessKeeps ==
  ASSUME IInv, NEW f \in Queued(table), Process(f)
  PROVE  IInv'
<1>1. /\ table' = Deleted(table, f)
      /\ owed' = [t \in Target |-> owed[t] \ (Told(t, Requests(t, f)) \cup Forgiven(t, f))]
      /\ grouped' = Kept(grouped)
      /\ UNCHANGED <<tree, libraries, known, alive, events, faults>>
  BY DEF Process, Taken
<1>2. table \in Table /\ owed \in [Target -> SUBSET OwedRecord] /\ f \in Folder
  BY DEF IInv, TypeOK, OwedRecord, Queued
<1>3. /\ table' \in Table
      /\ \A g \in Folder : g # f => table'[g] = table[g]
      /\ Queued(table') = Queued(table) \ {f}
  BY <1>1, <1>2 DEF Deleted, Queued, Table
<1>4. \A t \in Target :
        owed'[t] = owed[t] \ (Told(t, Requests(t, f)) \cup Forgiven(t, f))
  BY <1>1
<1>5. owed' \in [Target -> SUBSET OwedRecord]
  BY <1>1, <1>2
<1>6. TypeOK'
  BY <1>1, <1>3, <1>5 DEF IInv, TypeOK, OwedRecord, tree
<1>7. OwedBelongs'
  BY <1>4 DEF IInv, OwedBelongs
<1>8. ASSUME NEW t \in Target, NEW o \in owed'[t]
      PROVE  \E g \in Queued(table') : Stands(g, o)'
  <2>1. o \in owed[t] /\ o \notin Told(t, Requests(t, f)) /\ o \notin Forgiven(t, f)
    BY <1>4
  <2>2. PICK g \in Queued(table) : Stands(g, o)
    BY <2>1 DEF IInv, RowsStand
  <2>3. g # f
    BY <2>1, <2>2, ServerTold
  <2>4. g \in Queued(table') /\ table'[g] = table[g]
    BY <1>3, <2>3 DEF Queued
  <2>5. ASSUME table[g].relativePath # NoFile,
               <<Entry(o.folder, o.file), Entry(g, table[g].relativePath)>> \in grouped
        PROVE  <<Entry(o.folder, o.file), Entry(g, table'[g].relativePath)>> \in grouped'
    BY <1>1, <2>4, <2>5, KeptPairs
  <2> QED BY <2>2, <2>4, <2>5 DEF Stands
<1>9. RowsStand'
  BY <1>8 DEF RowsStand
<1> QED BY <1>6, <1>7, <1>9 DEF IInv

LEMMA FailureKeeps ==
  ASSUME IInv, NEW f \in Queued(table), ProcessFails(f)
  PROVE  IInv'
<1>1. PICK bad \in SUBSET {t \in Target : Requests(t, f) # {}} \ {{}} :
        /\ faults + Cardinality(bad) =< MaxFaults
        /\ faults' = faults + Cardinality(bad)
        /\ \E done \in [bad -> SUBSET UNION {Requests(t, f) : t \in bad}] :
             owed' = [t \in Target |->
                        owed[t] \ Told(t, IF t \in bad THEN done[t] ELSE Requests(t, f))]
  BY DEF ProcessFails
<1>2. /\ UNCHANGED <<tree, queue, libraries, known, events>>
      /\ alive' \in BOOLEAN
  BY DEF ProcessFails
<1>3. Cardinality(bad) \in Nat
  <2>1. bad \subseteq Target
    BY <1>1
  <2> QED BY <2>1, DeliveryAssumption, FS_Subset, FS_CardinalityType
<1>4. faults' \in 0..MaxFaults
  BY <1>1, <1>3, DeliveryAssumption DEF IInv, TypeOK
<1>5. owed \in [Target -> SUBSET OwedRecord]
  BY DEF IInv, TypeOK, OwedRecord
<1>6. owed' = [t \in Target |-> owed'[t]] /\ \A t \in Target : owed'[t] \subseteq owed[t]
  <2>1. PICK done : owed' = [t \in Target |->
                      owed[t] \ Told(t, IF t \in bad THEN done[t] ELSE Requests(t, f))]
    BY <1>1
  <2> QED BY <2>1
<1>7. owed' \in [Target -> SUBSET OwedRecord]
  BY <1>5, <1>6
<1>8. TypeOK'
  BY <1>2, <1>4, <1>7 DEF IInv, TypeOK, OwedRecord, tree, queue
<1> QED BY <1>2, <1>6, <1>8, RowsStay DEF IInv

LEMMA Inductive == IInv /\ [Next]_vars => IInv'
<1> SUFFICES ASSUME IInv, [Next]_vars PROVE IInv'
  OBVIOUS
<1> USE DEF IInv
<1>1. /\ TypeOK /\ events \in Nat /\ ops \in Nat /\ faults \in Nat
      /\ owed \in [Target -> SUBSET OwedRecord]
  BY DeliveryAssumption, BernardDiffAssumption DEF TypeOK, OwedRecord
<1>2. ASSUME Fault
      PROVE  faults' \in 0..MaxFaults
  BY <1>1, <1>2, DeliveryAssumption DEF Fault
<1>3. ASSUME events + ops < MaxEvents, events' = events + 1
      PROVE  events' \in 0..MaxEvents
  BY <1>1, <1>3, DeliveryAssumption
<1>4. ASSUME NEW e \in Events, Webhook(e)
      PROVE  IInv'
  <2>1. PICK batch \in Batches[e] : Enqueue(batch, Meant[e])
    BY <1>4 DEF Webhook
  <2>2. /\ UNCHANGED <<tree, libraries, known, alive, faults>>
        /\ events' \in 0..MaxEvents
    BY <1>3, <1>4 DEF Webhook
  <2>3. /\ Handed(batch, Meant[e])
        /\ \A i \in DOMAIN batch : batch[i].folder \in Folder /\ batch[i].file \in RelPath
    BY BatchesStand, FoldersAssumption
  <2>4. /\ table' \in Table /\ owed' \in [Target -> SUBSET OwedRecord]
        /\ OwedBelongs' /\ RowsStand'
    BY <2>1, <2>3, Enqueued
  <2>5. TypeOK'
    BY <1>1, <2>2, <2>4 DEF TypeOK, OwedRecord, tree
  <2> QED BY <2>4, <2>5
<1>5. ASSUME NEW e \in Events, WebhookRefused(e)
      PROVE  IInv'
  <2>1. /\ UNCHANGED <<tree, queue, libraries, known, alive, owed>>
        /\ events' \in 0..MaxEvents /\ faults' \in 0..MaxFaults
    BY <1>1, <1>2, <1>3, <1>5 DEF WebhookRefused, TypeOK
  <2>2. TypeOK'
    BY <1>1, <2>1 DEF TypeOK, tree, queue
  <2> QED BY <2>1, <2>2, RowsStay
<1>6. CASE DriveChanges
  <2>1. IsTree(drive) /\ DriveChange
    BY <1>1, <1>6 DEF DriveChanges, TypeOK
  <2>2. IsTree(drive') /\ store' = store
    BY <2>1, ChangedDrive
  <2>3. stuck' = stuck /\ ops' \in 0..MaxOps
    <3>1. Operation
      BY <2>1 DEF DriveChange, Upload, Move, Rename, Trash, Restore, Delete
    <3> QED BY <1>1, <3>1, BernardDiffAssumption DEF Operation
  <2>4. UNCHANGED <<table, libraries, known, alive, events, faults, owed, grouped>>
    BY <1>6 DEF DriveChanges
  <2>5. TypeOK'
    BY <1>1, <2>2, <2>3, <2>4 DEF TypeOK
  <2> QED BY <2>4, <2>5, RowsStay DEF queue
<1>7. CASE PartialSync
  <2>1. /\ Enqueue(SetToSeq(ScanTask), Wanted)
        /\ UNCHANGED <<libraries, known, alive, events, faults>>
        /\ ~NotFound /\ ~Endless /\ store' = drive /\ UNCHANGED <<drive, stuck, ops>>
    BY <1>7 DEF PartialSync, StoreChanges
  <2>2. IsTree(store) /\ IsTree(drive)
    BY <1>1 DEF TypeOK
  <2>3. /\ Handed(SetToSeq(ScanTask), Wanted)
        /\ \A i \in DOMAIN SetToSeq(ScanTask) :
             SetToSeq(ScanTask)[i].folder \in Folder /\ SetToSeq(ScanTask)[i].file \in RelPath
    BY <2>1, <2>2, SyncHands, DeliveryAssumption
  <2>4. /\ table' \in Table /\ owed' \in [Target -> SUBSET OwedRecord]
        /\ OwedBelongs' /\ RowsStand'
    BY <2>1, <2>3, Enqueued
  <2>5. TypeOK'
    BY <1>1, <2>1, <2>2, <2>4 DEF TypeOK, OwedRecord
  <2> QED BY <2>4, <2>5
<1>8. ASSUME NEW f \in Queued(table), Process(f) \/ ProcessFails(f)
      PROVE  IInv'
  BY <1>8, ProcessKeeps, FailureKeeps
<1>9. CASE Crash
  <2>1. /\ UNCHANGED <<tree, queue, libraries, known, events, owed>>
        /\ alive' = FALSE /\ faults' \in 0..MaxFaults
    BY <1>2, <1>9 DEF Crash
  <2>2. TypeOK'
    BY <1>1, <2>1 DEF TypeOK, tree, queue
  <2> QED BY <2>1, <2>2, RowsStay
<1>10. CASE Start
  <2>1. /\ UNCHANGED <<tree, queue, libraries, events, faults, owed>>
        /\ alive' = TRUE /\ known' = libraries
    BY <1>10 DEF Start
  <2>2. TypeOK'
    BY <1>1, <2>1 DEF TypeOK, tree, queue
  <2> QED BY <2>1, <2>2, RowsStay
<1>11. ASSUME NEW t \in Target, LibraryAdded(t)
       PROVE  IInv'
  <2>1. UNCHANGED <<tree, queue, known, alive, events, faults, owed>>
    BY <1>11 DEF LibraryAdded
  <2>2. PICK l \in LaterLibraries[t] \ libraries[t] :
          libraries' = [libraries EXCEPT ![t] = @ \cup {l}]
    BY <1>11 DEF LibraryAdded
  <2>3. l \in Path
    BY DeliveryAssumption
  <2>4. libraries' \in [Target -> SUBSET Path]
    BY <1>1, <2>2, <2>3 DEF TypeOK
  <2>5. TypeOK'
    BY <1>1, <2>1, <2>4 DEF TypeOK, tree, queue
  <2> QED BY <2>1, <2>5, RowsStay
<1>12. CASE UNCHANGED vars
  <2>1. UNCHANGED <<tree, queue, libraries, known, alive, events, faults, owed>>
    BY <1>12 DEF vars, queue
  <2>2. TypeOK'
    BY <1>1, <2>1 DEF TypeOK, tree, queue
  <2> QED BY <2>1, <2>2, RowsStay
<1> QED BY <1>4, <1>5, <1>6, <1>7, <1>8, <1>9, <1>10, <1>11, <1>12 DEF Next

LEMMA Always == Spec => []IInv
BY Initially, Inductive, PTL DEF Spec

\* Type correctness: rows, libraries, what is owed, and both copies of the drive stay well
\* formed; a drive remains a tree through every change of it.
THEOREM DeliveryTyped == Spec => []TypeOK
<1>1. IInv => TypeOK
  BY DEF IInv
<1> QED BY <1>1, Always, PTL

\* What an event or a change of a drive meant, and a server has not been told of, waits in
\* the table under its folder or one above it.
THEOREM ChangesWait == Spec => []NothingUntold
<1>1. IInv => NothingUntold
  BY DEF IInv, RowsStand, Stands, NothingUntold
<1> QED BY <1>1, Always, PTL

\* Every sync finds a folder at or above each one in which a file came, went or took
\* another name.
THEOREM SyncsCover == Spec => DiffsAreCovered
<1>1. ASSUME IInv, [Next]_vars
      PROVE  [store' # store =>
                \A q \in ChangedPaths :
                  \E p \in NewFolders \cup OldFolders : IsPrefix(p, q)]_vars
  <2>1. IsTree(store) /\ IsTree(drive)
    BY <1>1 DEF IInv, TypeOK
  <2> QED BY <2>1, DiffCovers
<1> QED BY <1>1, Always, PTL DEF Spec, DiffsAreCovered
===============================================================================
