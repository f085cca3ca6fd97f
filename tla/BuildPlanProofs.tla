---------------------------- MODULE BuildPlanProofs ----------------------------
(***************************************************************************)
(* Proofs about the build verb, for every finite matrix of tags, every     *)
(* number of overlapping runs and every set of Dockerfiles that are        *)
(* missing: the plan is a parents-first order of what was asked for, no    *)
(* build lacks its parent, and what a build that succeeds leaves in the    *)
(* store.                                                                  *)
(***************************************************************************)
EXTENDS BuildPlan, SequenceTheorems, FiniteSetTheorems, TLAPS

-----------------------------------------------------------------------------
(* Layers and their order *)

\* The first k slugs of a tag.
LEMMA PrefixIs ==
  ASSUME NEW t \in Tags, NEW k \in 1..Connector
  PROVE  /\ SubSeq(t, 1, k) \in Seq(Slugs)
         /\ Len(SubSeq(t, 1, k)) = k
         /\ \A i \in 1..k : SubSeq(t, 1, k)[i] = t[i]
<1>1. t \in [1..4 -> Slugs]
  BY BuildPlanAssumption DEF Connector
<1>2. k \in Int /\ 1 \in Int /\ 1 <= k /\ k <= 4 /\ k - 1 + 1 = k
  BY DEF Connector
<1>3. \A i \in 1..k : t[i] \in Slugs
  BY <1>1, <1>2
<1>4. \A i \in 1..k : i \in 1..(k - 1 + 1) /\ 1 + i - 1 = i
  BY <1>2
<1> QED
  BY <1>2, <1>3, <1>4, SubSeqProperties

LEMMA TagIsLayer ==
  ASSUME NEW t \in Tags
  PROVE  t \in Seq(Slugs) /\ Len(t) = 4
<1>1. t \in [1..4 -> Slugs]
  BY BuildPlanAssumption DEF Connector
<1>2. [1..4 -> Slugs] \in {[1..n -> Slugs] : n \in Nat}
  OBVIOUS
<1>3. t \in Seq(Slugs)
  <2>1. Seq(Slugs) = UNION {[1..n -> Slugs] : n \in Nat}
    BY SeqDef
  <2> QED
    BY <1>1, <1>2, <2>1, Zenon
<1>4. Len(t) = 4
  BY <1>1
<1> QED
  BY <1>3, <1>4

\* A layer is such a prefix; Len tells how many.
LEMMA LayerIs ==
  ASSUME NEW l \in Layers
  PROVE  /\ l \in Seq(Slugs) /\ Len(l) \in 1..Connector
         /\ DOMAIN l = 1..Len(l)
         /\ \A i \in 1..Len(l) : l[i] \in Slugs
         /\ \E t \in Tags : l = SubSeq(t, 1, Len(l)) /\ \A i \in 1..Len(l) : l[i] = t[i]
<1>1. PICK t \in Tags, k \in 1..Connector : l = SubSeq(t, 1, k)
  BY DEF Layers
<1>2. l \in Seq(Slugs) /\ Len(l) = k /\ \A i \in 1..k : l[i] = t[i]
  BY <1>1, PrefixIs
<1>3. DOMAIN l = 1..Len(l) /\ \A i \in 1..Len(l) : l[i] \in Slugs
  BY <1>2, LenProperties, ElementOfSeq
<1> QED
  BY <1>1, <1>2, <1>3

LEMMA PrefixIsLayer ==
  ASSUME NEW t \in Tags, NEW k \in 1..Connector
  PROVE  SubSeq(t, 1, k) \in Layers
BY DEF Layers

LEMMA LayersEqual ==
  ASSUME NEW l \in Layers, NEW m \in Layers, Len(l) = Len(m),
         \A i \in 1..Len(l) : l[i] = m[i]
  PROVE  l = m
BY LayerIs, SeqEqual

\* A prefix of a layer is the prefix of its tag.
LEMMA PrefixOfPrefix ==
  ASSUME NEW t \in Tags, NEW n \in 1..Connector, NEW k \in 1..n
  PROVE  SubSeq(SubSeq(t, 1, n), 1, k) = SubSeq(t, 1, k)
<1> DEFINE l == SubSeq(t, 1, n)
<1>1. l \in Seq(Slugs) /\ Len(l) = n /\ \A i \in 1..n : l[i] = t[i] /\ l[i] \in Slugs
  BY PrefixIs, ElementOfSeq
<1>2. k \in 1..Connector /\ k <= n /\ k \in Int /\ n \in Int /\ n <= 4
  BY DEF Connector
<1> HIDE DEF l
<1>3. /\ SubSeq(l, 1, k) \in Seq(Slugs) /\ Len(SubSeq(l, 1, k)) = k
      /\ \A i \in 1..k : SubSeq(l, 1, k)[i] = l[i]
  <2>1. \A i \in 1..k : l[i] \in Slugs
    BY <1>1, <1>2
  <2>2. \A i \in 1..k : i \in 1..(k - 1 + 1) /\ 1 + i - 1 = i
    BY <1>2
  <2> QED
    BY <1>2, <2>1, <2>2, SubSeqProperties
<1>4. /\ SubSeq(t, 1, k) \in Seq(Slugs) /\ Len(SubSeq(t, 1, k)) = k
      /\ \A i \in 1..k : SubSeq(t, 1, k)[i] = t[i]
  BY <1>2, PrefixIs
<1>5. SubSeq(l, 1, k) = SubSeq(t, 1, k)
  BY <1>1, <1>2, <1>3, <1>4, SeqEqual
<1> QED
  BY <1>5 DEF l

\* LayerRef.parent of a layer above the base: one slug less.
LEMMA ParentIs ==
  ASSUME NEW t \in Tags, NEW n \in 2..Connector
  PROVE  Parent(SubSeq(t, 1, n)) = SubSeq(t, 1, n - 1)
<1>1. n \in 1..Connector /\ n - 1 \in 1..n
  BY DEF Connector
<1>2. Len(SubSeq(t, 1, n)) = n
  BY <1>1, PrefixIs
<1> QED
  BY <1>1, <1>2, PrefixOfPrefix DEF Parent

\* LayerRef.sort_key, component by component.
Lexico(l, m) ==
  \/ Len(l) < Len(m)
  \/ Len(l) = Len(m) /\ Slug(l, 3) < Slug(m, 3)
  \/ Len(l) = Len(m) /\ Slug(l, 3) = Slug(m, 3) /\ Slug(l, 2) < Slug(m, 2)
  \/ /\ Len(l) = Len(m) /\ Slug(l, 3) = Slug(m, 3) /\ Slug(l, 2) = Slug(m, 2)
     /\ Slug(l, 4) < Slug(m, 4)
  \/ /\ Len(l) = Len(m) /\ Slug(l, 3) = Slug(m, 3) /\ Slug(l, 2) = Slug(m, 2)
     /\ Slug(l, 4) = Slug(m, 4) /\ Slug(l, 1) < Slug(m, 1)

LEMMA BeforeIs ==
  ASSUME NEW l \in Layers, NEW m \in Layers
  PROVE  Before(l, m) <=> Lexico(l, m)
<1> DEFINE p == SortKey(l)
           q == SortKey(m)
<1>1. DOMAIN p = 1..5
  BY DEF SortKey
<1>2. Before(l, m) <=> \E i \in 1..5 : p[i] < q[i] /\ \A j \in 1..(i - 1) : p[j] = q[j]
  BY <1>1 DEF Before
<1>3. (\E i \in 1..5 : p[i] < q[i] /\ \A j \in 1..(i - 1) : p[j] = q[j]) <=>
        \/ p[1] < q[1]
        \/ p[1] = q[1] /\ p[2] < q[2]
        \/ p[1] = q[1] /\ p[2] = q[2] /\ p[3] < q[3]
        \/ p[1] = q[1] /\ p[2] = q[2] /\ p[3] = q[3] /\ p[4] < q[4]
        \/ p[1] = q[1] /\ p[2] = q[2] /\ p[3] = q[3] /\ p[4] = q[4] /\ p[5] < q[5]
  <2> HIDE DEF p, q
  <2>1. /\ 1..(1-1) = {} /\ 1..(2-1) = {1} /\ 1..(3-1) = {1, 2}
        /\ 1..(4-1) = {1, 2, 3} /\ 1..(5-1) = {1, 2, 3, 4} /\ 1..5 = {1, 2, 3, 4, 5}
    OBVIOUS
  <2> QED
    BY <2>1
<1>4. /\ p[1] = Len(l) /\ p[2] = Slug(l, 3) /\ p[3] = Slug(l, 2)
      /\ p[4] = Slug(l, 4) /\ p[5] = Slug(l, 1)
      /\ q[1] = Len(m) /\ q[2] = Slug(m, 3) /\ q[3] = Slug(m, 2)
      /\ q[4] = Slug(m, 4) /\ q[5] = Slug(m, 1)
  BY DEF SortKey
<1> HIDE DEF p, q
<1> QED
  BY <1>2, <1>3, <1>4 DEF Lexico

LEMMA SlugIs ==
  ASSUME NEW l \in Layers, NEW k \in 1..4
  PROVE  Slug(l, k) \in Nat
BY LayerIs DEF Slug, Slugs

\* sort_key is a strict total order of the layers, and a parent comes first.
LEMMA BeforeOrders ==
  /\ \A l \in Layers : ~Before(l, l)
  /\ \A l, m, n \in Layers : Before(l, m) /\ Before(m, n) => Before(l, n)
  /\ \A l, m \in Layers : l # m => Before(l, m) \/ Before(m, l)
  /\ \A l, m \in Layers : Len(l) < Len(m) => Before(l, m)
<1>1. ASSUME NEW l \in Layers
      PROVE  /\ Len(l) \in 1..4 /\ Slug(l, 1) \in Nat /\ Slug(l, 2) \in Nat
             /\ Slug(l, 3) \in Nat /\ Slug(l, 4) \in Nat
  BY LayerIs, SlugIs DEF Connector
<1>2. ASSUME NEW l \in Layers PROVE ~Before(l, l)
  BY <1>1, BeforeIs DEF Lexico
<1>3. ASSUME NEW l \in Layers, NEW m \in Layers, NEW n \in Layers, Before(l, m), Before(m, n)
      PROVE  Before(l, n)
  <2> SUFFICES Lexico(l, n)
    BY BeforeIs
  <2>1. /\ Len(l) \in Nat /\ Slug(l, 3) \in Nat /\ Slug(l, 2) \in Nat /\ Slug(l, 4) \in Nat
        /\ Len(m) \in Nat /\ Slug(m, 3) \in Nat /\ Slug(m, 2) \in Nat /\ Slug(m, 4) \in Nat
        /\ Len(n) \in Nat /\ Slug(n, 3) \in Nat /\ Slug(n, 2) \in Nat /\ Slug(n, 4) \in Nat
        /\ Slug(l, 1) \in Nat /\ Slug(m, 1) \in Nat /\ Slug(n, 1) \in Nat
    BY <1>1
  <2>2. Lexico(l, m) /\ Lexico(m, n)
    BY <1>3, BeforeIs
  <2>3. Len(l) <= Len(m) /\ Len(m) <= Len(n)
    <3>1. Len(l) < Len(m) \/ Len(l) = Len(m)
      BY <2>2, Zenon DEF Lexico
    <3>2. Len(m) < Len(n) \/ Len(m) = Len(n)
      BY <2>2, Zenon DEF Lexico
    <3>3. \A i, j \in Nat : i < j \/ i = j => i <= j
      OBVIOUS
    <3> QED
      BY ONLY <2>1, <3>1, <3>2, <3>3, Zenon
  <2>4. CASE Len(l) < Len(n)
    BY <2>4 DEF Lexico
  <2>5. CASE Len(l) = Len(m) /\ Len(m) = Len(n)
    <3>1. Slug(l, 3) <= Slug(m, 3) /\ Slug(m, 3) <= Slug(n, 3)
      BY <2>1, <2>2, <2>5 DEF Lexico
    <3> QED
      BY <2>1, <2>2, <2>5, <3>1 DEF Lexico
  <2>6. Len(l) < Len(n) \/ (Len(l) = Len(m) /\ Len(m) = Len(n))
    <3>1. \A i, j, k \in Nat : i <= j /\ j <= k => i < k \/ (i = j /\ j = k)
      OBVIOUS
    <3> QED
      BY ONLY <2>1, <2>3, <3>1, Zenon
  <2> QED
    BY <2>4, <2>5, <2>6
<1>4. ASSUME NEW l \in Layers, NEW m \in Layers, ~Before(l, m), ~Before(m, l)
      PROVE  l = m
  <2>1. /\ Len(l) = Len(m) /\ Slug(l, 1) = Slug(m, 1) /\ Slug(l, 2) = Slug(m, 2)
        /\ Slug(l, 3) = Slug(m, 3) /\ Slug(l, 4) = Slug(m, 4)
    BY <1>1, <1>4, BeforeIs DEF Lexico
  <2>2. \A k \in 1..4 : Slug(l, k) = Slug(m, k)
    BY <2>1
  <2>3. \A i \in 1..Len(l) : l[i] = m[i]
    BY <1>1, <2>1, <2>2 DEF Slug
  <2> QED
    BY <2>1, <2>3, LayersEqual
<1>5. ASSUME NEW l \in Layers, NEW m \in Layers, Len(l) < Len(m) PROVE Before(l, m)
  BY <1>5, BeforeIs DEF Lexico
<1> QED
  BY <1>2, <1>3, <1>4, <1>5

-----------------------------------------------------------------------------
(* closure(): an enumeration of the layers under the roots *)

\* How many of the layers in S come before l.
Lower(S, l) == {m \in S : Before(m, l)}
Rank(S, l)  == Cardinality(Lower(S, l))

\* In a finite set of layers the ranks are 0, 1, 2, ..., in their order.
LEMMA RanksCount ==
  ASSUME NEW S \in SUBSET Layers, IsFiniteSet(S)
  PROVE  /\ Cardinality(S) \in Nat
         /\ \A l \in S : Rank(S, l) \in 0..(Cardinality(S) - 1)
         /\ \A l, m \in S : Before(l, m) => Rank(S, l) < Rank(S, m)
         /\ \A i \in 0..(Cardinality(S) - 1) : \E l \in S : Rank(S, l) = i
<1> DEFINE n == Cardinality(S)
<1>1. n \in Nat
  BY FS_CardinalityType
<1>2. ASSUME NEW l \in S
      PROVE  /\ IsFiniteSet(Lower(S, l)) /\ Cardinality(Lower(S, l)) \in Nat
             /\ Cardinality(Lower(S, l)) < n
  <2>1. Lower(S, l) \in SUBSET S /\ l \notin Lower(S, l)
    BY BeforeOrders DEF Lower
  <2>2. IsFiniteSet(Lower(S, l)) /\ Cardinality(Lower(S, l)) <= n /\ n # Cardinality(Lower(S, l))
    BY <2>1, FS_Subset
  <2> QED
    BY <1>1, <2>2, FS_CardinalityType
<1>3. ASSUME NEW l \in S, NEW m \in S, Before(l, m)
      PROVE  Cardinality(Lower(S, l)) < Cardinality(Lower(S, m))
  <2>1. Lower(S, l) \in SUBSET Lower(S, m) /\ l \in Lower(S, m) /\ l \notin Lower(S, l)
    BY <1>3, BeforeOrders DEF Lower
  <2>2. /\ Cardinality(Lower(S, l)) <= Cardinality(Lower(S, m))
        /\ Cardinality(Lower(S, m)) # Cardinality(Lower(S, l))
    BY <1>2, <2>1, FS_Subset
  <2> QED
    BY <1>2, <2>2
<1>4. \A l \in S : Rank(S, l) \in 0..(n - 1)
  BY <1>1, <1>2 DEF Rank
<1>5. \A l, m \in S : Before(l, m) => Rank(S, l) < Rank(S, m)
  BY <1>3 DEF Rank
<1>6. ASSUME NEW i \in 0..(n - 1)
      PROVE  \E l \in S : Rank(S, l) = i
  <2> DEFINE T == 0..(n - 1)
             f == [l \in S |-> Rank(S, l)]
  <2>1. IsFiniteSet(T) /\ Cardinality(T) = n
    BY <1>1, FS_Interval
  <2>2. f \in Injection(S, T)
    <3>1. f \in [S -> T]
      BY <1>4
    <3>2. ASSUME NEW l \in S, NEW m \in S, f[l] = f[m]
          PROVE  l = m
      <4>1. Rank(S, l) = Rank(S, m) /\ Rank(S, l) \in Int
        BY <1>4, <3>2
      <4>2. ~Before(l, m) /\ ~Before(m, l)
        BY <1>1, <1>4, <1>5, <4>1
      <4> QED
        BY <4>2, BeforeOrders
    <3> QED
      BY <3>1, <3>2 DEF Injection, IsInjective
  <2>3. f \in Surjection(S, T)
    BY <2>1, <2>2, FS_Injection
  <2> QED
    BY <2>3 DEF Surjection
<1> QED
  BY <1>1, <1>4, <1>5, <1>6

\* What the tags in roots stand on, themselves included.
Needed(roots) == {SubSeq(r[1], 1, r[2]) : r \in roots \X (1..Connector)}

LEMMA NeededIs ==
  ASSUME NEW roots \in SUBSET Tags
  PROVE  /\ Needed(roots) \subseteq Layers
         /\ IsFiniteSet(Needed(roots))
         /\ Needed(roots) = UNION {Chain(t) : t \in roots}
         /\ \A l : l \in Needed(roots) <=>
              \E t \in roots : \E k \in 1..Connector : l = SubSeq(t, 1, k)
<1>1. \A l : l \in Needed(roots) <=>
        \E t \in roots : \E k \in 1..Connector : l = SubSeq(t, 1, k)
  <2>1. ASSUME NEW l \in Needed(roots)
        PROVE  \E t \in roots : \E k \in 1..Connector : l = SubSeq(t, 1, k)
    <3>1. PICK r \in roots \X (1..Connector) : l = SubSeq(r[1], 1, r[2])
      BY DEF Needed
    <3>2. r[1] \in roots /\ r[2] \in 1..Connector
      OBVIOUS
    <3> QED
      BY <3>1, <3>2
  <2>2. ASSUME NEW t \in roots, NEW k \in 1..Connector
        PROVE  SubSeq(t, 1, k) \in Needed(roots)
    <3>1. <<t, k>> \in roots \X (1..Connector) /\ <<t, k>>[1] = t /\ <<t, k>>[2] = k
      OBVIOUS
    <3> QED
      BY <3>1 DEF Needed
  <2> QED
    BY <2>1, <2>2
<1>2. Needed(roots) \subseteq Layers
  <2> SUFFICES ASSUME NEW l \in Needed(roots)
               PROVE  l \in Layers
    OBVIOUS
  <2>1. PICK t \in roots, k \in 1..Connector : l = SubSeq(t, 1, k)
    BY <1>1
  <2> QED
    BY <2>1, PrefixIsLayer
<1>3. IsFiniteSet(Needed(roots))
  <2> DEFINE pairs == roots \X (1..Connector)
             f == [r \in pairs |-> SubSeq(r[1], 1, r[2])]
  <2>1. IsFiniteSet(roots) /\ IsFiniteSet(1..Connector)
    BY BuildPlanAssumption, FS_Subset, FS_Interval DEF Connector
  <2>2. IsFiniteSet(pairs)
    BY <2>1, FS_Product
  <2>3. f \in Surjection(pairs, Needed(roots))
    BY DEF Needed, Surjection
  <2> QED
    BY <2>2, <2>3, FS_Surjection
<1>4. ASSUME NEW t \in roots
      PROVE  Chain(t) = {SubSeq(t, 1, k) : k \in 1..Connector}
  BY TagIsLayer DEF Chain, Connector
<1>5. Needed(roots) = UNION {Chain(t) : t \in roots}
  BY <1>1, <1>4
<1> QED
  BY <1>1, <1>2, <1>3, <1>5

\* With a layer, its parent is needed.
LEMMA ParentNeeded ==
  ASSUME NEW roots \in SUBSET Tags, NEW l \in Needed(roots), Len(l) > 1
  PROVE  /\ Parent(l) \in Layers /\ Parent(l) \in Needed(roots)
         /\ Len(Parent(l)) = Len(l) - 1
<1>1. PICK t \in roots, k \in 1..Connector : l = SubSeq(t, 1, k)
  BY NeededIs
<1>2. Len(l) = k /\ k \in 2..Connector /\ k - 1 \in 1..Connector
  BY <1>1, PrefixIs DEF Connector
<1>3. Parent(l) = SubSeq(t, 1, k - 1) /\ Len(SubSeq(t, 1, k - 1)) = k - 1
  BY <1>1, <1>2, ParentIs, PrefixIs
<1>4. SubSeq(t, 1, k - 1) \in Needed(roots) /\ Needed(roots) \subseteq Layers
  BY <1>2, NeededIs
<1> QED
  BY <1>2, <1>3, <1>4

Increasing(s) == \A i, j \in DOMAIN s : i < j => Before(s[i], s[j])
Members(s)    == {s[i] : i \in DOMAIN s}

\* closure() lists what the requested images stand on, each once, in the order
\* of sort_key, for every set of requests.
THEOREM ClosureIsSorted ==
  ASSUME NEW roots \in SUBSET Tags
  PROVE  /\ Closure(roots) \in Seq(Layers)
         /\ Members(Closure(roots)) = Needed(roots)
         /\ Increasing(Closure(roots))
<1> DEFINE seen == UNION {Chain(l) : l \in roots}
           n == Cardinality(seen)
           c == [i \in 1..n |-> CHOOSE l \in seen : Rank(seen, l) = i - 1]
<1>0. Closure(roots) = c
  BY DEF Closure, Rank, Lower
<1>2. seen = Needed(roots)
  BY NeededIs
<1> HIDE DEF seen
<1>1. seen \in SUBSET Layers /\ IsFiniteSet(seen)
  BY <1>2, NeededIs
<1>3. /\ n \in Nat
      /\ \A l \in seen : Rank(seen, l) \in 0..(n - 1)
      /\ \A l, m \in seen : Before(l, m) => Rank(seen, l) < Rank(seen, m)
      /\ \A i \in 0..(n - 1) : \E l \in seen : Rank(seen, l) = i
  BY <1>1, RanksCount
<1> HIDE DEF n
<1>4. ASSUME NEW i \in 1..n
      PROVE  c[i] \in seen /\ Rank(seen, c[i]) = i - 1
  <2>1. i - 1 \in 0..(n - 1)
    BY <1>3
  <2> QED
    BY <1>3, <2>1
<1>5. DOMAIN c = 1..n /\ c \in [1..n -> seen]
  BY <1>4
<1> HIDE DEF c
<1>6. c \in Seq(Layers)
  BY <1>1, <1>3, <1>5
<1>7. ASSUME NEW l \in seen
      PROVE  \E i \in 1..n : c[i] = l
  <2> DEFINE i == Rank(seen, l) + 1
  <2>1. i \in 1..n /\ i - 1 = Rank(seen, l)
    BY <1>3
  <2>2. c[i] \in seen /\ Rank(seen, c[i]) = Rank(seen, l)
    BY <1>4, <2>1
  <2>3. ~Before(c[i], l) /\ ~Before(l, c[i])
    BY <1>3, <2>2
  <2> QED
    BY <1>1, <2>1, <2>2, <2>3, BeforeOrders
<1>8. Members(c) = seen
  BY <1>4, <1>5, <1>7 DEF Members
<1>9. ASSUME NEW i \in 1..n, NEW j \in 1..n, i < j
      PROVE  Before(c[i], c[j])
  <2>1. c[i] \in seen /\ c[j] \in seen /\ Rank(seen, c[i]) = i - 1 /\ Rank(seen, c[j]) = j - 1
    BY <1>4
  <2>2. c[i] # c[j] /\ ~Before(c[j], c[i])
    BY <1>3, <1>9, <2>1
  <2> QED
    BY <1>1, <2>1, <2>2, BeforeOrders
<1> QED
  BY <1>0, <1>2, <1>5, <1>6, <1>8, <1>9 DEF Increasing

-----------------------------------------------------------------------------
(* The inductive invariant, one conjunct a question *)

Labels == Ended \cup {"idle", "plan", "start", "building"}

Types ==
  /\ built \in [Layers -> 0..MaxRuns] /\ from \in [Layers -> 0..MaxRuns]
  /\ request \in [Runs -> Requests \cup {NoRequest}]
  /\ pc \in [Runs -> Labels]
  /\ todo \in [Runs -> Seq(Layers)] /\ plan \in [Runs -> Seq(Layers)]
  /\ next \in [Runs -> Nat \ {0}]
  /\ using \in [Runs -> 0..MaxRuns]
  /\ met \in [Runs -> SUBSET (Runs \cup {Absent})]
  /\ removed \in Nat

Need(r)     == Needed(request[r].targets)
Listed(r)   == Members(plan[r]) \cup Members(todo[r])
Building(r) == pc[r] \in {"start", "building"}

\* Planning: plan and todo together are the closure, less what the probe may
\* leave out.
Planning(r) ==
  pc[r] # "idle" =>
    /\ request[r] \in Requests
    /\ Increasing(plan[r]) /\ Increasing(todo[r])
    /\ \A l \in Members(plan[r]), m \in Members(todo[r]) : Before(l, m)
    /\ Listed(r) \subseteq Need(r)
    /\ \A l \in Need(r) \ Listed(r) :
         Len(l) # Connector /\ ~request[r].no_cache /\ ~request[r].dry

\* Before a run begins it has nothing; while it builds it is inside its plan.
Position(r) ==
  /\ pc[r] = "idle" => request[r] = NoRequest /\ plan[r] = <<>>
  /\ pc[r] \in {"idle", "plan"} => next[r] = 1
  /\ Building(r) => todo[r] = <<>> /\ ~request[r].dry /\ next[r] \in DOMAIN plan[r]

\* Unless the user removes an image meanwhile, what the probe left out and what
\* the run has built stay in the store while the run is at work.
InStore(r) ==
  Absent \notin met[r] =>
    /\ Active(r) => \A l \in Need(r) \ Listed(r) : built[l] # Absent
    /\ Building(r) => \A i \in 1..(next[r] - 1) : built[plan[r][i]] # Absent
    /\ pc[r] # "no parent"

\* Two runs at work at once know of each other.
Meeting == \A r, s \in Runs : r # s /\ Active(r) /\ Active(s) => s \in met[r]

\* What a run without cache has built so far is in the store still, or what it
\* met has put something else there; and it was built FROM nothing older.
Fresh(r) == {r} \cup met[r]

Own(r) ==
  Building(r) /\ request[r].no_cache =>
    /\ \A i \in 1..(next[r] - 1) :
         /\ built[plan[r][i]] \in Fresh(r)
         /\ Len(plan[r][i]) > 1 /\ built[plan[r][i]] = r => from[plan[r][i]] \in Fresh(r)
    /\ pc[r] = "building" /\ Len(Cur(r)) > 1 => using[r] \in Fresh(r)

\* An image the run has built stands on its parent in the store, or an
\* overlapping run has replaced one of the two, or the user removed it.
OnCurrent(r, l, base) ==
  base = built[Parent(l)] \/ built[Parent(l)] \in met[r]

Current(r) ==
  Building(r) =>
    /\ \A i \in 1..(next[r] - 1) :
         Len(plan[r][i]) > 1 =>
           OnCurrent(r, plan[r][i], from[plan[r][i]]) \/ built[plan[r][i]] \in met[r]
    /\ pc[r] = "building" /\ Len(Cur(r)) > 1 => OnCurrent(r, Cur(r), using[r])

PlanInv == Types /\ \A r \in Runs : Planning(r) /\ Position(r)

BuildInv == PlanInv /\ Meeting /\ \A r \in Runs : InStore(r) /\ Own(r) /\ Current(r)

-----------------------------------------------------------------------------
(* The lists of a run *)

LEMMA HeadAndTail ==
  ASSUME NEW s \in Seq(Layers), s # <<>>
  PROVE  /\ Head(s) \in Layers /\ Tail(s) \in Seq(Layers)
         /\ Members(s) = {Head(s)} \cup Members(Tail(s))
         /\ Increasing(s) => /\ Increasing(Tail(s))
                             /\ \A m \in Members(Tail(s)) : Before(Head(s), m)
<1>1. /\ Head(s) \in Layers /\ Tail(s) \in Seq(Layers) /\ Len(Tail(s)) = Len(s) - 1
      /\ \A i \in 1..Len(Tail(s)) : Tail(s)[i] = s[i + 1]
  BY HeadTailProperties
<1>2. Head(s) = s[1] /\ Len(s) \in Nat /\ Len(s) > 0
  BY EmptySeq
<1>3. DOMAIN s = 1..Len(s) /\ DOMAIN Tail(s) = 1..(Len(s) - 1)
  BY <1>1, LenProperties
<1>4. Members(s) = {Head(s)} \cup Members(Tail(s))
  <2>1. ASSUME NEW i \in 1..Len(s)
        PROVE  s[i] \in {Head(s)} \cup Members(Tail(s))
    <3>1. CASE i = 1
      BY <1>2, <3>1
    <3>2. CASE i # 1
      <4>1. i - 1 \in 1..(Len(s) - 1) /\ i - 1 + 1 = i
        BY <1>2, <3>2
      <4>2. Tail(s)[i - 1] = s[i]
        BY <1>1, <4>1
      <4> QED
        BY <1>3, <4>1, <4>2 DEF Members
    <3> QED
      BY <3>1, <3>2
  <2>2. ASSUME NEW i \in 1..(Len(s) - 1)
        PROVE  Tail(s)[i] \in Members(s)
    <3>1. i + 1 \in 1..Len(s) /\ Tail(s)[i] = s[i + 1]
      BY <1>1, <1>2
    <3> QED
      BY <1>3, <3>1 DEF Members
  <2>3. Head(s) \in Members(s)
    BY <1>2, <1>3 DEF Members
  <2> QED
    BY <1>3, <2>1, <2>2, <2>3 DEF Members
<1>5. ASSUME Increasing(s)
      PROVE  /\ Increasing(Tail(s))
             /\ \A m \in Members(Tail(s)) : Before(Head(s), m)
  <2>1. ASSUME NEW i \in 1..(Len(s) - 1), NEW j \in 1..(Len(s) - 1), i < j
        PROVE  Before(Tail(s)[i], Tail(s)[j])
    <3>1. i + 1 \in 1..Len(s) /\ j + 1 \in 1..Len(s) /\ i + 1 < j + 1
      BY <1>2, <2>1
    <3> QED
      BY <1>1, <1>3, <1>5, <3>1 DEF Increasing
  <2>2. ASSUME NEW i \in 1..(Len(s) - 1)
        PROVE  Before(Head(s), Tail(s)[i])
    <3>1. i + 1 \in 1..Len(s) /\ 1 \in 1..Len(s) /\ 1 < i + 1
      BY <1>2
    <3> QED
      BY <1>1, <1>2, <1>3, <1>5, <3>1 DEF Increasing
  <2> QED
    BY <1>3, <2>1, <2>2 DEF Increasing, Members
<1> QED
  BY <1>1, <1>4, <1>5

LEMMA Appended ==
  ASSUME NEW s \in Seq(Layers), NEW l \in Layers
  PROVE  /\ Append(s, l) \in Seq(Layers)
         /\ Members(Append(s, l)) = Members(s) \cup {l}
         /\ Increasing(s) /\ (\A m \in Members(s) : Before(m, l)) => Increasing(Append(s, l))
<1>1. Len(s) \in Nat /\ DOMAIN s = 1..Len(s)
  BY LenProperties
<1>2. /\ Append(s, l) \in Seq(Layers) /\ DOMAIN Append(s, l) = 1..(Len(s) + 1)
      /\ \A i \in 1..(Len(s) + 1) : Append(s, l)[i] = IF i = Len(s) + 1 THEN l ELSE s[i]
  BY <1>1, AppendProperties, LenProperties
<1>3. \A i \in 1..(Len(s) + 1) : i # Len(s) + 1 => i \in 1..Len(s)
  BY <1>1
<1>4. \A i \in 1..Len(s) : i \in 1..(Len(s) + 1) /\ i # Len(s) + 1
  BY <1>1
<1>5. Len(s) + 1 \in 1..(Len(s) + 1)
  BY <1>1
<1>6. Members(Append(s, l)) = Members(s) \cup {l}
  BY <1>1, <1>2, <1>3, <1>4, <1>5 DEF Members
<1>7. ASSUME Increasing(s), \A m \in Members(s) : Before(m, l),
             NEW i \in 1..(Len(s) + 1), NEW j \in 1..(Len(s) + 1), i < j
      PROVE  Before(Append(s, l)[i], Append(s, l)[j])
  <2>1. i \in 1..Len(s) /\ Append(s, l)[i] = s[i]
    BY <1>1, <1>2, <1>7
  <2>2. CASE j = Len(s) + 1
    BY <1>1, <1>2, <1>7, <2>1, <2>2 DEF Members
  <2>3. CASE j # Len(s) + 1
    BY <1>1, <1>2, <1>3, <1>7, <2>1, <2>3 DEF Increasing
  <2> QED
    BY <2>2, <2>3
<1> QED
  BY <1>2, <1>6, <1>7 DEF Increasing

LEMMA NothingListed == Members(<<>>) = {} /\ Increasing(<<>>) /\ <<>> \in Seq(Layers)
BY DEF Members, Increasing
-----------------------------------------------------------------------------
(* The plan *)

\* What no other run touches.
Same(r) ==
  /\ request'[r] = request[r] /\ pc'[r] = pc[r] /\ todo'[r] = todo[r]
  /\ plan'[r] = plan[r] /\ next'[r] = next[r]

LEMMA SameStays ==
  ASSUME NEW r, Planning(r), Position(r), Same(r)
  PROVE  Planning(r)' /\ Position(r)'
BY DEF Planning, Position, Same, Need, Listed, Building

LEMMA RequestTargets ==
  ASSUME NEW q \in Requests
  PROVE  q.targets \in SUBSET Tags /\ q.dry \in BOOLEAN /\ q.no_cache \in BOOLEAN
         /\ q # NoRequest
BY DEF Requests, NoRequest

\* Where the run is in its plan.
LEMMA CurIs ==
  ASSUME Types, NEW r \in Runs, Planning(r), Position(r), Building(r)
  PROVE  /\ next[r] \in 1..Len(plan[r]) /\ DOMAIN plan[r] = 1..Len(plan[r])
         /\ Len(plan[r]) \in Nat
         /\ Cur(r) \in Layers /\ Cur(r) \in Need(r)
         /\ Len(Cur(r)) \in 1..4
         /\ Len(Cur(r)) > 1 => /\ Parent(Cur(r)) \in Layers /\ Parent(Cur(r)) \in Need(r)
                               /\ Len(Parent(Cur(r))) = Len(Cur(r)) - 1
<1>1. plan[r] \in Seq(Layers)
  BY DEF Types
<1>2. next[r] \in 1..Len(plan[r]) /\ DOMAIN plan[r] = 1..Len(plan[r]) /\ Len(plan[r]) \in Nat
  BY <1>1, LenProperties DEF Position
<1>3. Cur(r) \in Layers
  BY <1>1, <1>2, ElementOfSeq DEF Cur
<1>4. request[r] \in Requests /\ Cur(r) \in Need(r)
  BY <1>2 DEF Planning, Cur, Listed, Members, Building
<1>5. Len(Cur(r)) \in 1..4
  BY <1>3, LayerIs DEF Connector
<1>6. ASSUME Len(Cur(r)) > 1
      PROVE  /\ Parent(Cur(r)) \in Layers /\ Parent(Cur(r)) \in Need(r)
             /\ Len(Parent(Cur(r))) = Len(Cur(r)) - 1
  BY <1>3, <1>4, <1>6, ParentNeeded, RequestTargets DEF Need
<1> QED
  BY <1>2, <1>3, <1>4, <1>5, <1>6

LEMMA PlanInvInit == Init => PlanInv
<1> SUFFICES ASSUME Init PROVE PlanInv
  OBVIOUS
<1>1. Types
  <2>1. 0 \in 0..MaxRuns
    BY BuildPlanAssumption
  <2> QED
    BY <2>1, NothingListed DEF Init, Types, Labels, Absent
<1>2. ASSUME NEW r \in Runs PROVE Planning(r) /\ Position(r)
  BY DEF Init, Planning, Position, Building
<1> QED
  BY <1>1, <1>2 DEF PlanInv

LEMMA RequestKeeps ==
  ASSUME PlanInv, NEW r \in Runs, NEW q \in Requests, Request(r, q)
  PROVE  PlanInv'
<1>1. q.targets \in SUBSET Tags
  BY RequestTargets
<1>2. /\ Closure(q.targets) \in Seq(Layers)
      /\ Members(Closure(q.targets)) = Needed(q.targets)
      /\ Increasing(Closure(q.targets))
  BY <1>1, ClosureIsSorted
<1>3. Types'
  BY <1>2 DEF PlanInv, Types, Request, Goto, store, Labels
<1>4. Planning(r)' /\ Position(r)'
  <2>1. /\ request'[r] = q /\ todo'[r] = Closure(q.targets) /\ pc'[r] = "plan"
        /\ plan'[r] = <<>> /\ next'[r] = 1
    BY DEF PlanInv, Types, Request, Goto, Position
  <2> QED
    BY <1>2, <2>1, NothingListed DEF Planning, Position, Need, Listed, Building
<1>5. ASSUME NEW s \in Runs, s # r PROVE Planning(s)' /\ Position(s)'
  <2>1. Same(s)
    BY <1>5 DEF PlanInv, Types, Request, Goto, Same
  <2> QED
    BY <2>1, SameStays DEF PlanInv
<1> QED
  BY <1>3, <1>4, <1>5 DEF PlanInv, Runs

LEMMA ProbeKeeps ==
  ASSUME PlanInv, NEW r \in Runs, Probe(r)
  PROVE  PlanInv'
<1> DEFINE l == Head(todo[r])
<1>1. todo[r] \in Seq(Layers) /\ plan[r] \in Seq(Layers) /\ todo[r] # <<>> /\ pc[r] = "plan"
  BY DEF PlanInv, Types, Probe
<1>2. Planning(r) /\ Position(r) /\ request[r] \in Requests
  BY <1>1 DEF PlanInv, Planning
<1>3. /\ l \in Layers /\ Tail(todo[r]) \in Seq(Layers)
      /\ Members(todo[r]) = {l} \cup Members(Tail(todo[r]))
      /\ Increasing(Tail(todo[r]))
      /\ \A m \in Members(Tail(todo[r])) : Before(l, m)
  BY <1>1, <1>2, HeadAndTail DEF Planning
<1>4. /\ Append(plan[r], l) \in Seq(Layers)
      /\ Members(Append(plan[r], l)) = Members(plan[r]) \cup {l}
      /\ Increasing(Append(plan[r], l))
  BY <1>1, <1>2, <1>3, Appended DEF Planning
<1>5. /\ request' = request /\ pc' = pc /\ next' = next
      /\ todo' = [todo EXCEPT ![r] = Tail(todo[r])]
      /\ plan' = [plan EXCEPT ![r] = IF CacheHit(r, l) THEN plan[r] ELSE Append(plan[r], l)]
      /\ built' = built /\ from' = from /\ using' = using /\ met' = met /\ removed' = removed
  BY DEF Probe, store
<1> HIDE DEF l
<1>6. Types'
  BY <1>1, <1>3, <1>4, <1>5 DEF PlanInv, Types
<1>7. /\ todo'[r] = Tail(todo[r])
      /\ plan'[r] = IF CacheHit(r, l) THEN plan[r] ELSE Append(plan[r], l)
  BY <1>5 DEF PlanInv, Types
<1>8. Planning(r)'
  <2>1. CASE CacheHit(r, l)
    <3>1. Listed(r)' \cup {l} = Listed(r)
      BY <1>3, <1>7, <2>1 DEF Listed
    <3>2. Len(l) # Connector /\ ~request[r].no_cache /\ ~request[r].dry
      BY <2>1 DEF CacheHit
    <3> QED
      BY <1>1, <1>2, <1>3, <1>5, <1>7, <2>1, <3>1, <3>2 DEF Planning, Need
  <2>2. CASE ~CacheHit(r, l)
    <3>1. Listed(r)' = Listed(r)
      BY <1>3, <1>4, <1>7, <2>2 DEF Listed
    <3>2. \A m \in Members(plan'[r]), n \in Members(todo'[r]) : Before(m, n)
      BY <1>1, <1>2, <1>3, <1>4, <1>7, <2>2 DEF Planning
    <3> QED
      BY <1>1, <1>2, <1>3, <1>4, <1>5, <1>7, <2>2, <3>1, <3>2 DEF Planning, Need
  <2> QED
    BY <2>1, <2>2
<1>9. Position(r)'
  BY <1>1, <1>2, <1>5 DEF Position, Building
<1>10. ASSUME NEW s \in Runs, s # r PROVE Planning(s)' /\ Position(s)'
  <2>1. Same(s)
    BY <1>5, <1>10 DEF PlanInv, Types, Same
  <2> QED
    BY <2>1, SameStays DEF PlanInv
<1> QED
  BY <1>6, <1>8, <1>9, <1>10 DEF PlanInv, Runs

\* A step that only moves a run on: its lists and what it was asked for stay.
LEMMA MoveKeeps ==
  ASSUME PlanInv, NEW r \in Runs, NEW label \in Labels \ {"idle", "plan"}, NEW n \in Nat \ {0},
         pc[r] # "idle", pc' = [pc EXCEPT ![r] = label], next' = [next EXCEPT ![r] = n],
         UNCHANGED <<request, todo, plan, met, removed>>,
         built' \in [Layers -> 0..MaxRuns], from' \in [Layers -> 0..MaxRuns],
         using' \in [Runs -> 0..MaxRuns],
         label \in {"start", "building"} =>
           todo[r] = <<>> /\ ~request[r].dry /\ n \in DOMAIN plan[r]
  PROVE  PlanInv'
<1>1. Types'
  BY DEF PlanInv, Types
<1>2. pc'[r] = label /\ next'[r] = n
  BY DEF PlanInv, Types
<1>3. Planning(r)'
  BY <1>2 DEF PlanInv, Planning, Need, Listed
<1>4. Position(r)'
  BY <1>2 DEF Position, Building
<1>5. ASSUME NEW s \in Runs, s # r PROVE Planning(s)' /\ Position(s)'
  <2>1. Same(s)
    BY <1>5 DEF PlanInv, Types, Same
  <2> QED
    BY <2>1, SameStays DEF PlanInv
<1> QED
  BY <1>1, <1>3, <1>4, <1>5 DEF PlanInv, Runs

\* The plan a run has made survives every step.
LEMMA PlanInvStep == PlanInv /\ [Next]_vars => PlanInv'
<1> SUFFICES ASSUME PlanInv, [Next]_vars PROVE PlanInv'
  OBVIOUS
<1>1. ASSUME NEW r \in Runs, NEW q \in Requests, Request(r, q) PROVE PlanInv'
  BY <1>1, RequestKeeps
<1>2. ASSUME NEW r \in Runs, Probe(r) PROVE PlanInv'
  BY <1>2, ProbeKeeps
<1>3. ASSUME NEW r \in Runs, Enqueue(r) PROVE PlanInv'
  <2> DEFINE label == IF \E i \in DOMAIN plan[r] : plan[r][i] \in NoDockerfile
                      THEN "no dockerfile"
                      ELSE IF request[r].dry \/ plan[r] = <<>> THEN "ok" ELSE "start"
  <2>1. /\ label \in Labels \ {"idle", "plan"} /\ pc[r] = "plan"
        /\ pc' = [pc EXCEPT ![r] = label] /\ next' = next
        /\ UNCHANGED <<request, todo, plan, met, removed, built, from, using>>
    BY <1>3 DEF Enqueue, Goto, store, Labels, Ended
  <2>2. next[r] = 1 /\ next' = [next EXCEPT ![r] = 1] /\ plan[r] \in Seq(Layers)
    BY <2>1 DEF PlanInv, Position, Types
  <2>3. label = "start" => todo[r] = <<>> /\ ~request[r].dry /\ 1 \in DOMAIN plan[r]
    <3>1. label = "start" => ~request[r].dry /\ plan[r] # <<>>
      OBVIOUS
    <3>2. plan[r] # <<>> => 1 \in DOMAIN plan[r]
      BY <2>2, EmptySeq, LenProperties
    <3> QED
      BY <1>3, <3>1, <3>2 DEF Enqueue
  <2>4. label # "building"
    OBVIOUS
  <2> HIDE DEF label
  <2> QED
    BY <2>1, <2>2, <2>3, <2>4, MoveKeeps DEF PlanInv, Types
<1>4. ASSUME NEW r \in Runs, StartBuild(r) PROVE PlanInv'
  <2>1. /\ pc[r] = "start" /\ pc' = [pc EXCEPT ![r] = "building"] /\ next' = next
        /\ UNCHANGED <<request, todo, plan, met, removed, built, from>>
        /\ using' = [using EXCEPT ![r] = IF Len(Cur(r)) = 1 THEN Absent
                                         ELSE built[Parent(Cur(r))]]
    BY <1>4 DEF StartBuild, Goto, store
  <2>2. Planning(r) /\ Position(r) /\ Building(r) /\ Types
    BY <2>1 DEF PlanInv, Building
  <2>3. (IF Len(Cur(r)) = 1 THEN Absent ELSE built[Parent(Cur(r))]) \in 0..MaxRuns
    <3>1. Absent \in 0..MaxRuns
      BY BuildPlanAssumption DEF Absent
    <3>2. Len(Cur(r)) \in 1..4 /\ (Len(Cur(r)) > 1 => Parent(Cur(r)) \in Layers)
      BY <2>2, CurIs
    <3>3. Len(Cur(r)) # 1 => Parent(Cur(r)) \in Layers
      BY <3>2
    <3>4. \A l \in Layers : built[l] \in 0..MaxRuns
      BY <2>2 DEF Types
    <3> QED
      BY <3>1, <3>3, <3>4
  <2>4. using' \in [Runs -> 0..MaxRuns]
    BY <2>1, <2>2, <2>3 DEF Types
  <2>5. /\ next' = [next EXCEPT ![r] = next[r]] /\ next[r] \in Nat \ {0}
        /\ "building" \in Labels \ {"idle", "plan"}
    BY <2>1, <2>2 DEF Types, Labels
  <2>6. todo[r] = <<>> /\ ~request[r].dry /\ next[r] \in DOMAIN plan[r]
    BY <2>2 DEF Position
  <2> QED
    BY <2>1, <2>2, <2>4, <2>5, <2>6, MoveKeeps DEF Types
<1>5. ASSUME NEW r \in Runs, NoParent(r) PROVE PlanInv'
  <2>1. /\ pc[r] = "start" /\ pc' = [pc EXCEPT ![r] = "no parent"] /\ next' = next
        /\ UNCHANGED <<request, todo, plan, met, removed, built, from, using>>
        /\ "no parent" \in Labels \ {"idle", "plan"}
    BY <1>5 DEF NoParent, Goto, store, Labels, Ended
  <2>2. next' = [next EXCEPT ![r] = next[r]] /\ next[r] \in Nat \ {0}
    BY <2>1 DEF PlanInv, Types
  <2> QED
    BY <2>1, <2>2, MoveKeeps DEF PlanInv, Types
<1>6. ASSUME NEW r \in Runs, FinishBuild(r) PROVE PlanInv'
  <2> DEFINE label == IF next[r] = Len(plan[r]) THEN "ok" ELSE "start"
  <2>1. /\ pc[r] = "building" /\ pc' = [pc EXCEPT ![r] = label]
        /\ next' = [next EXCEPT ![r] = next[r] + 1]
        /\ UNCHANGED <<request, todo, plan, met, removed, using>>
        /\ built' = [built EXCEPT ![Cur(r)] = r] /\ from' = [from EXCEPT ![Cur(r)] = using[r]]
        /\ label \in Labels \ {"idle", "plan"}
    BY <1>6 DEF FinishBuild, Goto, Labels, Ended
  <2>2. Planning(r) /\ Position(r) /\ Building(r) /\ Types
    BY <2>1 DEF PlanInv, Building
  <2>3. built' \in [Layers -> 0..MaxRuns] /\ from' \in [Layers -> 0..MaxRuns]
    <3>1. r \in 0..MaxRuns /\ using[r] \in 0..MaxRuns
      BY <2>2, BuildPlanAssumption DEF Types, Runs
    <3> QED
      BY <2>1, <2>2, <3>1 DEF Types
  <2>4. next[r] + 1 \in Nat \ {0}
    BY <2>2 DEF Types
  <2>5. label = "start" =>
          todo[r] = <<>> /\ ~request[r].dry /\ next[r] + 1 \in DOMAIN plan[r]
    BY <2>2, CurIs DEF Position
  <2>6. label # "building" /\ using' \in [Runs -> 0..MaxRuns]
    BY <2>1, <2>2 DEF Types
  <2> HIDE DEF label
  <2> QED
    BY <2>1, <2>3, <2>4, <2>5, <2>6, MoveKeeps
<1>7. ASSUME NEW r \in Runs, Stops(r) PROVE PlanInv'
  <2>1. /\ pc[r] # "idle" /\ pc' = [pc EXCEPT ![r] = "failed"] /\ next' = next
        /\ UNCHANGED <<request, todo, plan, met, removed, built, from, using>>
        /\ "failed" \in Labels \ {"idle", "plan"}
    BY <1>7 DEF Stops, Goto, store, Active, Labels, Ended
  <2>2. next' = [next EXCEPT ![r] = next[r]] /\ next[r] \in Nat \ {0}
    BY <2>1 DEF PlanInv, Types
  <2> QED
    BY <2>1, <2>2, MoveKeeps DEF PlanInv, Types
<1>8. ASSUME NEW l \in Layers, Remove(l) PROVE PlanInv'
  <2>1. Types'
    BY <1>8, BuildPlanAssumption DEF PlanInv, Types, Remove, Absent
  <2>2. ASSUME NEW s \in Runs PROVE Planning(s)' /\ Position(s)'
    <3>1. Same(s)
      BY <1>8 DEF Remove, Same
    <3> QED
      BY <3>1, SameStays DEF PlanInv
  <2> QED
    BY <2>1, <2>2 DEF PlanInv, Runs
<1>9. CASE UNCHANGED vars
  <2>1. Types'
    BY <1>9 DEF PlanInv, Types, vars, store
  <2>2. ASSUME NEW s \in Runs PROVE Planning(s)' /\ Position(s)'
    <3>1. Same(s)
      BY <1>9 DEF vars, Same
    <3> QED
      BY <3>1, SameStays DEF PlanInv
  <2> QED
    BY <2>1, <2>2 DEF PlanInv, Runs
<1> QED
  BY <1>1, <1>2, <1>3, <1>4, <1>5, <1>6, <1>7, <1>8, <1>9 DEF Next

LEMMA PlanAlways == Spec => []PlanInv
BY PlanInvInit, PlanInvStep, PTL DEF Spec

\* The set the property speaks of is what closure() lists.
LEMMA NeededBySlugs ==
  ASSUME NEW asked \in SUBSET Tags
  PROVE  {l \in Layers : \E t \in asked : \E k \in 1..Connector :
            \A i \in 1..k : Len(l) = k /\ l[i] = t[i]} = Needed(asked)
<1>1. ASSUME NEW l \in Layers, NEW t \in asked, NEW k \in 1..Connector,
             \A i \in 1..k : Len(l) = k /\ l[i] = t[i]
      PROVE  l \in Needed(asked)
  <2>1. 1 \in 1..k
    OBVIOUS
  <2>2. Len(l) = k /\ \A i \in 1..k : l[i] = t[i]
    BY <1>1, <2>1
  <2>3. /\ SubSeq(t, 1, k) \in Seq(Slugs) /\ Len(SubSeq(t, 1, k)) = k
        /\ \A i \in 1..k : SubSeq(t, 1, k)[i] = t[i]
    BY PrefixIs
  <2>4. l \in Seq(Slugs)
    BY LayerIs
  <2>5. l = SubSeq(t, 1, k)
    BY <2>2, <2>3, <2>4, SeqEqual
  <2> QED
    BY <2>5, NeededIs
<1>2. ASSUME NEW l \in Needed(asked)
      PROVE  /\ l \in Layers
             /\ \E t \in asked : \E k \in 1..Connector :
                  \A i \in 1..k : Len(l) = k /\ l[i] = t[i]
  <2>1. PICK t \in asked, k \in 1..Connector : l = SubSeq(t, 1, k)
    BY NeededIs
  <2>2. \A i \in 1..k : Len(l) = k /\ l[i] = t[i]
    BY <2>1, PrefixIs
  <2> QED
    BY <2>2, NeededIs
<1> QED
  BY <1>1, <1>2

\* A list in order has no layer twice, and a parent before its children.
LEMMA InOrder ==
  ASSUME NEW p \in Seq(Layers), Increasing(p),
         NEW i \in DOMAIN p, NEW j \in DOMAIN p
  PROVE  /\ i # j => p[i] # p[j]
         /\ Len(p[i]) < Len(p[j]) => i < j
         /\ Before(p[i], p[j]) => i < j
<1>1. DOMAIN p = 1..Len(p) /\ p[i] \in Layers /\ p[j] \in Layers /\ i \in Int /\ j \in Int
  BY LenProperties, ElementOfSeq
<1>2. i < j => Before(p[i], p[j])
  BY DEF Increasing
<1>3. j < i => Before(p[j], p[i])
  BY DEF Increasing
<1>4. i < j \/ j < i \/ i = j
  BY <1>1
<1>5. ~(Before(p[i], p[j]) /\ Before(p[j], p[i])) /\ ~Before(p[i], p[i])
  BY <1>1, BeforeOrders
<1>6. Len(p[i]) < Len(p[j]) => Before(p[i], p[j])
  BY <1>1, BeforeOrders
<1> QED
  BY <1>2, <1>3, <1>4, <1>5, <1>6

\* domain/plan.py: the plan of every run, for every finite matrix of tags and
\* whatever the other runs and the user do to the store while it is made, has
\* no layer twice, all that was asked for, nothing else, and parents first.
THEOREM PlansAreParentsFirst == Spec => []PlanIsParentsFirst
<1>1. ASSUME PlanInv, NEW r \in Runs, todo[r] = <<>>, request[r] # NoRequest
      PROVE  LET asked == request[r].targets
                 p == plan[r]
             IN /\ \A i, j \in DOMAIN p : i # j => p[i] # p[j]
                /\ asked \subseteq Planned(r) /\ Planned(r) \subseteq Needed(asked)
                /\ request[r].no_cache => Planned(r) = Needed(asked)
                /\ \A i, j \in DOMAIN p : Len(p[j]) > 1 /\ p[i] = Parent(p[j]) => i < j
  <2> DEFINE asked == request[r].targets
             p == plan[r]
  <2>1. /\ request[r] \in Requests /\ p \in Seq(Layers) /\ Increasing(p)
        /\ Listed(r) \subseteq Needed(asked)
        /\ \A l \in Needed(asked) \ Listed(r) : Len(l) # Connector /\ ~request[r].no_cache
    BY <1>1 DEF PlanInv, Planning, Position, Types, Need
  <2>2. Planned(r) = Listed(r)
    BY <1>1, NothingListed DEF Listed, Planned, Members
  <2>3. asked \in SUBSET Tags
    BY <2>1, RequestTargets
  <2>4. asked \subseteq Planned(r)
    <3> SUFFICES ASSUME NEW t \in asked PROVE t \in Planned(r)
      OBVIOUS
    <3>1. t \in Seq(Slugs) /\ Len(t) = 4
      BY <2>3, TagIsLayer
    <3>2. SubSeq(t, 1, 4) = t
      BY <3>1, SubSeqFull
    <3>3. t \in Needed(asked) /\ Len(t) = Connector
      BY <2>3, <3>1, <3>2, NeededIs DEF Connector
    <3> QED
      BY <2>1, <2>2, <3>3
  <2>5. \A i, j \in DOMAIN p : i # j => p[i] # p[j]
    BY <2>1, InOrder
  <2>6. ASSUME NEW i \in DOMAIN p, NEW j \in DOMAIN p, Len(p[j]) > 1, p[i] = Parent(p[j])
        PROVE  i < j
    <3>1. p[j] \in Needed(asked)
      BY <2>1 DEF Listed, Members
    <3>2. Len(p[i]) = Len(p[j]) - 1 /\ Len(p[j]) \in Nat
      BY <2>3, <2>6, <3>1, ParentNeeded, NeededIs, LayerIs DEF Connector
    <3> QED
      BY <2>1, <3>2, InOrder
  <2> QED
    BY <2>1, <2>2, <2>4, <2>5, <2>6
<1>2. PlanInv => PlanIsParentsFirst
  <2> SUFFICES ASSUME PlanInv PROVE PlanIsParentsFirst
    OBVIOUS
  <2>1. ASSUME NEW r \in Runs, request[r] # NoRequest
        PROVE  request[r].targets \in SUBSET Tags
    BY <2>1, RequestTargets DEF PlanInv, Types
  <2> QED
    BY <1>1, <2>1, NeededBySlugs DEF PlanIsParentsFirst
<1> QED
  BY <1>2, PlanAlways, PTL

-----------------------------------------------------------------------------
(* The store *)

\* A needed layer below the one that is built now has been built by the run, or
\* left out by the probe.
LEMMA BelowCur ==
  ASSUME PlanInv, NEW r \in Runs, Building(r), NEW l \in Need(r), Len(l) < Len(Cur(r))
  PROVE  l \notin Listed(r) \/ \E i \in 1..(next[r] - 1) : plan[r][i] = l
<1>1. Planning(r) /\ Position(r) /\ Types /\ plan[r] \in Seq(Layers) /\ Increasing(plan[r])
  BY DEF PlanInv, Types, Planning, Building
<1>2. /\ next[r] \in 1..Len(plan[r]) /\ DOMAIN plan[r] = 1..Len(plan[r])
      /\ Len(plan[r]) \in Nat /\ Cur(r) = plan[r][next[r]]
  BY <1>1, CurIs DEF Cur
<1>3. ASSUME l \in Listed(r)
      PROVE  \E i \in 1..(next[r] - 1) : plan[r][i] = l
  <2>1. PICK i \in DOMAIN plan[r] : plan[r][i] = l
    BY <1>1, <1>3, NothingListed DEF Position, Listed, Members
  <2>2. i < next[r]
    BY <1>1, <1>2, <2>1, InOrder
  <2>3. i \in 1..(next[r] - 1)
    BY <1>2, <2>1, <2>2
  <2> QED
    BY <2>1, <2>3
<1> QED
  BY <1>3

\* What the run has built lies before the layer it builds now, and its parent
\* is not built again.
LEMMA Behind ==
  ASSUME PlanInv, NEW r \in Runs, Building(r), NEW i \in 1..(next[r] - 1)
  PROVE  /\ plan[r][i] # Cur(r) /\ plan[r][i] \in Layers
         /\ Len(plan[r][i]) > 1 => Parent(plan[r][i]) # Cur(r) /\ Parent(plan[r][i]) \in Layers
<1>1. Planning(r) /\ Position(r) /\ Types /\ plan[r] \in Seq(Layers) /\ Increasing(plan[r])
  BY DEF PlanInv, Types, Planning, Building
<1>2. /\ next[r] \in 1..Len(plan[r]) /\ DOMAIN plan[r] = 1..Len(plan[r])
      /\ Len(plan[r]) \in Nat /\ Cur(r) = plan[r][next[r]]
  BY <1>1, CurIs DEF Cur
<1>3. i \in DOMAIN plan[r] /\ i # next[r] /\ i < next[r]
  BY <1>2
<1>4. plan[r][i] # Cur(r)
  BY <1>1, <1>2, <1>3, InOrder
<1>5. request[r].targets \in SUBSET Tags /\ plan[r][i] \in Needed(request[r].targets)
  BY <1>1, <1>3, RequestTargets DEF Planning, Building, Listed, Members, Need
<1>6. plan[r][i] \in Layers
  BY <1>5, NeededIs
<1>7. ASSUME Len(plan[r][i]) > 1
      PROVE  Parent(plan[r][i]) # Cur(r) /\ Parent(plan[r][i]) \in Layers
  <2>1. Parent(plan[r][i]) \in Layers /\ Len(Parent(plan[r][i])) = Len(plan[r][i]) - 1
    BY <1>5, <1>7, ParentNeeded
  <2>2. Len(plan[r][i]) \in Nat
    BY <1>6, LayerIs DEF Connector
  <2>3. ASSUME Parent(plan[r][i]) = Cur(r) PROVE FALSE
    <3>1. Len(plan[r][next[r]]) < Len(plan[r][i])
      BY <1>2, <2>1, <2>2, <2>3
    <3>2. next[r] < i
      BY <1>1, <1>2, <1>3, <3>1, InOrder
    <3> QED
      BY <1>2, <1>3, <3>2
  <2> QED
    BY <2>1, <2>3
<1> QED
  BY <1>4, <1>6, <1>7

LEMMA MeetingStep ==
  ASSUME PlanInv, Meeting, [Next]_vars
  PROVE  Meeting'
<1> USE DEF PlanInv, Types
<1>1. ASSUME NEW r \in Runs, NEW q \in Requests, Request(r, q) PROVE Meeting'
  <2>1. /\ pc[r] = "idle" /\ pc' = [pc EXCEPT ![r] = "plan"]
        /\ met' = [s \in Runs |-> IF s = r THEN {o \in Runs : Active(o)}
                                  ELSE IF Active(s) THEN met[s] \cup {r} ELSE met[s]]
    BY <1>1 DEF Request, Goto
  <2>2. ASSUME NEW s \in Runs, s # r PROVE Active(s)' <=> Active(s)
    BY <2>1, <2>2 DEF Active
  <2>3. ASSUME NEW s \in Runs, NEW o \in Runs, s # o, Active(s)', Active(o)'
        PROVE  o \in met'[s]
    <3>1. CASE s = r
      BY <2>1, <2>2, <2>3, <3>1
    <3>2. CASE s # r /\ o = r
      BY <2>1, <2>2, <2>3, <3>2
    <3>3. CASE s # r /\ o # r
      BY <2>1, <2>2, <2>3, <3>3 DEF Meeting
    <3> QED
      BY <3>1, <3>2, <3>3
  <2> QED
    BY <2>3 DEF Meeting
<1>2. ASSUME met' = met, \A s \in Runs : Active(s)' => Active(s) PROVE Meeting'
  BY <1>2 DEF Meeting
<1>3. ASSUME NEW r \in Runs,
             \/ Probe(r) \/ Enqueue(r) \/ StartBuild(r) \/ NoParent(r) \/ FinishBuild(r)
             \/ Stops(r)
      PROVE  met' = met /\ \A s \in Runs : Active(s)' => Active(s)
  <2>1. CASE Probe(r)
    BY <2>1 DEF Probe, Active
  <2>2. CASE Enqueue(r)
    BY <2>2 DEF Enqueue, Goto, Active, Ended
  <2>3. CASE StartBuild(r)
    BY <2>3 DEF StartBuild, Goto, Active, Ended
  <2>4. CASE NoParent(r)
    BY <2>4 DEF NoParent, Goto, Active, Ended
  <2>5. CASE FinishBuild(r)
    BY <2>5 DEF FinishBuild, Goto, Active, Ended
  <2>6. CASE Stops(r)
    BY <2>6 DEF Stops, Goto, Active, Ended
  <2> QED
    BY <1>3, <2>1, <2>2, <2>3, <2>4, <2>5, <2>6
<1>4. ASSUME NEW l \in Layers, Remove(l) PROVE Meeting'
  <2>1. /\ pc' = pc
        /\ met' = [r \in Runs |-> IF Active(r) THEN met[r] \cup {Absent} ELSE met[r]]
    BY <1>4 DEF Remove
  <2>2. ASSUME NEW s \in Runs PROVE met[s] \subseteq met'[s] /\ (Active(s)' <=> Active(s))
    BY <2>1 DEF Active
  <2> QED
    BY <2>2 DEF Meeting
<1>5. CASE UNCHANGED vars
  BY <1>2, <1>5 DEF vars, Active
<1> QED
  BY <1>1, <1>2, <1>3, <1>4, <1>5 DEF Next

Stored(r) == InStore(r) /\ Own(r) /\ Current(r)

\* A step of another run that does not touch the store.
LEMMA QuietKeeps ==
  ASSUME NEW r, Stored(r), Same(r), using'[r] = using[r], met[r] \subseteq met'[r],
         UNCHANGED <<built, from, removed>>
  PROVE  Stored(r)'
<1>1. InStore(r)'
  BY DEF Stored, InStore, Same, Need, Listed, Building, Active
<1>2. Own(r)'
  <2>1. Fresh(r) \subseteq Fresh(r)'
    BY DEF Fresh
  <2> QED
    BY <2>1 DEF Stored, Own, Same, Building, Cur
<1>3. Current(r)'
  BY DEF Stored, Current, Same, Building, Cur, OnCurrent
<1> QED
  BY <1>1, <1>2, <1>3 DEF Stored

\* Another run finishes an image: to this run that is a run it has met.
LEMMA FinishOfAnother ==
  ASSUME BuildInv, NEW r \in Runs, NEW s \in Runs, r # s, FinishBuild(r)
  PROVE  Stored(s)'
<1>1. /\ PlanInv /\ Types /\ Stored(s) /\ Planning(s) /\ Position(s) /\ r # Absent
  BY DEF BuildInv, PlanInv, Stored, Runs, Absent
<1>2. /\ built' = [built EXCEPT ![Cur(r)] = r] /\ from' = [from EXCEPT ![Cur(r)] = using[r]]
      /\ removed' = removed /\ met' = met /\ using' = using /\ Same(s)
  BY <1>1 DEF FinishBuild, Goto, Same, Types
<1>3. /\ Cur(s)' = Cur(s) /\ Need(s)' = Need(s) /\ Listed(s)' = Listed(s)
      /\ (Building(s)' <=> Building(s))
  BY <1>2 DEF Same, Cur, Need, Listed, Building
<1>4. /\ Building(s) => r \in met[s]
      /\ Active(s)' <=> Active(s)
  BY <1>2 DEF BuildInv, Meeting, Active, Building, FinishBuild, Ended, Same
<1>5. ASSUME NEW l \in Layers
      PROVE  /\ built'[l] = built[l] \/ built'[l] = r
             /\ built[l] # Absent => built'[l] # Absent
             /\ from'[l] = from[l] \/ built'[l] = r
  BY <1>1, <1>2 DEF Types
<1>6. InStore(s)'
  <2>1. ASSUME NEW l \in Need(s), Active(s) PROVE l \in Layers
    BY <1>1, <2>1, RequestTargets, NeededIs DEF Planning, Need, Active
  <2>2. ASSUME NEW i \in 1..(next[s] - 1), Building(s) PROVE plan[s][i] \in Layers
    BY <1>1, <2>2, Behind
  <2>3. ASSUME Absent \notin met[s], Active(s), NEW l \in Need(s) \ Listed(s)
        PROVE  built'[l] # Absent
    BY <1>1, <1>5, <2>1, <2>3 DEF Stored, InStore
  <2>4. ASSUME Absent \notin met[s], Building(s), NEW i \in 1..(next[s] - 1)
        PROVE  built'[plan[s][i]] # Absent
    BY <1>1, <1>5, <2>2, <2>4 DEF Stored, InStore
  <2> QED
    BY <1>1, <1>2, <1>3, <1>4, <2>3, <2>4 DEF Stored, InStore, Same
<1>7. Own(s)'
  <2>1. ASSUME Building(s), request[s].no_cache, NEW i \in 1..(next[s] - 1)
        PROVE  /\ built'[plan[s][i]] \in Fresh(s)
               /\ Len(plan[s][i]) > 1 /\ built'[plan[s][i]] = s =>
                    from'[plan[s][i]] \in Fresh(s)
    <3>1. plan[s][i] \in Layers
      BY <1>1, <2>1, Behind
    <3>2. /\ built[plan[s][i]] \in Fresh(s)
          /\ Len(plan[s][i]) > 1 /\ built[plan[s][i]] = s => from[plan[s][i]] \in Fresh(s)
      BY <1>1, <2>1 DEF Stored, Own
    <3>3. built'[plan[s][i]] = r \/ (/\ built'[plan[s][i]] = built[plan[s][i]]
                                     /\ from'[plan[s][i]] = from[plan[s][i]])
      BY <1>1, <1>2, <3>1 DEF Types
    <3>4. r \in Fresh(s)
      BY <1>4, <2>1 DEF Fresh
    <3> QED
      BY <3>2, <3>3, <3>4
  <2>2. Fresh(s)' = Fresh(s)
    BY <1>2 DEF Fresh
  <2> QED
    BY <1>1, <1>2, <1>3, <2>1, <2>2 DEF Stored, Own, Same
<1>8. Current(s)'
  <2>1. ASSUME Building(s), NEW i \in 1..(next[s] - 1), Len(plan[s][i]) > 1
        PROVE  \/ from'[plan[s][i]] = built'[Parent(plan[s][i])]
               \/ built'[Parent(plan[s][i])] \in met[s]
               \/ built'[plan[s][i]] \in met[s]
    <3>1. plan[s][i] \in Layers /\ Parent(plan[s][i]) \in Layers
      BY <1>1, <2>1, Behind
    <3>2. \/ from[plan[s][i]] = built[Parent(plan[s][i])]
          \/ built[Parent(plan[s][i])] \in met[s]
          \/ built[plan[s][i]] \in met[s]
      BY <1>1, <2>1 DEF Stored, Current, OnCurrent
    <3> QED
      BY <1>4, <1>5, <2>1, <3>1, <3>2
  <2>2. ASSUME pc[s] = "building", Len(Cur(s)) > 1
        PROVE  using[s] = built'[Parent(Cur(s))] \/ built'[Parent(Cur(s))] \in met[s]
    <3>1. Building(s)
      BY <2>2 DEF Building
    <3>2. Parent(Cur(s)) \in Layers
      BY <1>1, <2>2, <3>1, CurIs
    <3>3. using[s] = built[Parent(Cur(s))] \/ built[Parent(Cur(s))] \in met[s]
      BY <1>1, <2>2, <3>1 DEF Stored, Current, OnCurrent
    <3> QED
      BY <1>4, <1>5, <3>1, <3>2, <3>3
  <2> QED
    BY <1>2, <1>3, <2>1, <2>2 DEF Current, OnCurrent, Same
<1> QED
  BY <1>6, <1>7, <1>8 DEF Stored

\* The steps of a run, seen by the run itself.
LEMMA ProbeStores ==
  ASSUME BuildInv, NEW r \in Runs, Probe(r)
  PROVE  Stored(r)'
<1> DEFINE l == Head(todo[r])
<1>1. /\ todo[r] \in Seq(Layers) /\ plan[r] \in Seq(Layers) /\ todo[r] # <<>> /\ pc[r] = "plan"
      /\ InStore(r)
  BY DEF BuildInv, PlanInv, Types, Probe
<1>2. l \in Layers /\ Members(todo[r]) = {l} \cup Members(Tail(todo[r]))
  BY <1>1, HeadAndTail
<1>3. Members(Append(plan[r], l)) = Members(plan[r]) \cup {l}
  BY <1>1, <1>2, Appended
<1> HIDE DEF l
<1>4. /\ request' = request /\ pc' = pc /\ built' = built /\ met' = met
      /\ todo'[r] = Tail(todo[r])
      /\ plan'[r] = IF CacheHit(r, l) THEN plan[r] ELSE Append(plan[r], l)
  BY DEF Probe, store, BuildInv, PlanInv, Types, l
<1>5. Need(r)' = Need(r) /\ Listed(r) \subseteq Listed(r)' \cup {l}
  BY <1>2, <1>3, <1>4 DEF Need, Listed
<1>6. built[l] # Absent \/ l \in Listed(r)'
  BY <1>3, <1>4 DEF CacheHit, Listed
<1>7. ~Building(r)' /\ pc'[r] # "no parent" /\ Active(r)
  BY <1>1, <1>4 DEF Building, Active, Ended
<1> QED
  BY <1>1, <1>4, <1>5, <1>6, <1>7 DEF Stored, InStore, Own, Current

LEMMA StartStores ==
  ASSUME BuildInv, NEW r \in Runs, StartBuild(r)
  PROVE  Stored(r)'
<1>1. /\ PlanInv /\ Types /\ Stored(r) /\ Planning(r) /\ Position(r) /\ Building(r)
      /\ request[r] \in Requests
  BY DEF BuildInv, PlanInv, Stored, StartBuild, Building, Planning
<1>2. /\ pc[r] = "start" /\ pc'[r] = "building"
      /\ UNCHANGED <<built, from, request, todo, plan, next, met, removed>>
      /\ using'[r] = IF Len(Cur(r)) = 1 THEN Absent ELSE built[Parent(Cur(r))]
  BY <1>1 DEF StartBuild, Goto, store, Types
<1>3. Cur(r)' = Cur(r) /\ Need(r)' = Need(r) /\ Listed(r)' = Listed(r) /\ Building(r)'
  BY <1>2 DEF Cur, Need, Listed, Building
<1>4. InStore(r)'
  <2>1. Active(r)
    BY <1>2 DEF Active, Ended
  <2> QED
    BY <1>1, <1>2, <1>3, <2>1 DEF Stored, InStore
<1>5. Len(Cur(r)) > 1 => using'[r] = built[Parent(Cur(r))]
  <2>1. Len(Cur(r)) \in 1..4
    BY <1>1, CurIs
  <2>2. Len(Cur(r)) > 1 => Len(Cur(r)) # 1
    BY <2>1
  <2> QED
    BY <1>2, <2>2
<1>6. Own(r)'
  <2>1. ASSUME request[r].no_cache, Len(Cur(r)) > 1
        PROVE  using'[r] \in Fresh(r)
    <3>1. Parent(Cur(r)) \in Need(r) /\ Len(Parent(Cur(r))) < Len(Cur(r))
      BY <1>1, <2>1, CurIs
    <3>2. Parent(Cur(r)) \in Listed(r)
      BY <1>1, <1>2, <2>1, <3>1 DEF Planning
    <3>3. PICK i \in 1..(next[r] - 1) : plan[r][i] = Parent(Cur(r))
      BY <1>1, <3>1, <3>2, BelowCur
    <3>4. built[plan[r][i]] \in Fresh(r)
      BY <1>1, <2>1 DEF Stored, Own
    <3> QED
      BY <1>5, <2>1, <3>3, <3>4
  <2>2. Fresh(r)' = Fresh(r)
    BY <1>2 DEF Fresh
  <2> QED
    BY <1>1, <1>2, <1>3, <2>1, <2>2 DEF Stored, Own
<1>7. Current(r)'
  BY <1>1, <1>2, <1>3, <1>5 DEF Stored, Current, OnCurrent
<1> QED
  BY <1>4, <1>6, <1>7 DEF Stored

LEMMA NoParentStores ==
  ASSUME BuildInv, NEW r \in Runs, NoParent(r)
  PROVE  Stored(r)'
<1>1. /\ PlanInv /\ Types /\ Stored(r) /\ Planning(r) /\ Position(r) /\ Building(r)
      /\ pc[r] = "start"
  BY DEF BuildInv, PlanInv, Stored, NoParent, Building
<1>2. Absent \in met[r]
  <2> SUFFICES ASSUME Absent \notin met[r] PROVE FALSE
    OBVIOUS
  <2>0. Active(r)
    BY <1>1 DEF Active, Ended
  <2>1. /\ Len(Cur(r)) \in 1..4
        /\ Len(Cur(r)) > 1 =>
             Parent(Cur(r)) \in Need(r) /\ Len(Parent(Cur(r))) < Len(Cur(r))
    BY <1>1, CurIs
  <2>2. Len(Cur(r)) > 1 /\ built[Parent(Cur(r))] = Absent
    <3>1. Len(Cur(r)) # 1 /\ built[Parent(Cur(r))] = Absent
      BY DEF NoParent
    <3>2. Len(Cur(r)) \in 1..4
      BY <2>1
    <3>3. \A n \in 1..4 : n # 1 => n > 1
      OBVIOUS
    <3> QED
      BY <3>1, <3>2, <3>3, Zenon
  <2>3. CASE Parent(Cur(r)) \notin Listed(r)
    BY <1>1, <2>0, <2>1, <2>2, <2>3 DEF Stored, InStore
  <2>4. CASE Parent(Cur(r)) \in Listed(r)
    <3>1. PICK i \in 1..(next[r] - 1) : plan[r][i] = Parent(Cur(r))
      BY <1>1, <2>1, <2>2, <2>4, BelowCur
    <3> QED
      BY <1>1, <2>2, <3>1 DEF Stored, InStore
  <2> QED
    BY <2>3, <2>4
<1>3. met' = met /\ ~Building(r)'
  BY <1>1 DEF NoParent, Goto, Building, Types
<1> QED
  BY <1>2, <1>3 DEF Stored, InStore, Own, Current

\* What a run has built when it has finished one more.
LEMMA Finished ==
  ASSUME BuildInv, NEW r \in Runs, FinishBuild(r)
  PROVE  /\ Absent \notin met[r] =>
              /\ \A l \in Need(r) \ Listed(r) : built'[l] # Absent
              /\ \A i \in 1..(next'[r] - 1) : built'[plan[r][i]] # Absent
         /\ request[r].no_cache =>
              \A i \in 1..(next'[r] - 1) :
                /\ built'[plan[r][i]] \in Fresh(r)
                /\ Len(plan[r][i]) > 1 /\ built'[plan[r][i]] = r =>
                     from'[plan[r][i]] \in Fresh(r)
         /\ \A i \in 1..(next'[r] - 1) :
              Len(plan[r][i]) > 1 =>
                \/ from'[plan[r][i]] = built'[Parent(plan[r][i])]
                \/ built'[Parent(plan[r][i])] \in met[r]
                \/ built'[plan[r][i]] \in met[r]
<1>1. /\ PlanInv /\ Types /\ Stored(r) /\ Planning(r) /\ Position(r) /\ Building(r)
      /\ pc[r] = "building" /\ r # Absent /\ request[r] \in Requests /\ Active(r)
      /\ r \in Fresh(r)
  BY DEF BuildInv, PlanInv, Stored, FinishBuild, Building, Runs, Absent, Planning, Active,
     Ended, Fresh
<1>2. /\ built' = [built EXCEPT ![Cur(r)] = r] /\ from' = [from EXCEPT ![Cur(r)] = using[r]]
      /\ UNCHANGED <<request, todo, plan, using, met, removed>>
      /\ next'[r] = next[r] + 1 /\ pc'[r] \in {"ok", "start"}
  <2>1. /\ built' = [built EXCEPT ![Cur(r)] = r]
        /\ from' = [from EXCEPT ![Cur(r)] = using[r]]
        /\ UNCHANGED <<request, todo, plan, using, met, removed>>
    BY DEF FinishBuild
  <2>2. next'[r] = next[r] + 1
    BY <1>1 DEF FinishBuild, Types
  <2>3. pc'[r] \in {"ok", "start"}
    BY <1>1 DEF FinishBuild, Goto, Types
  <2> QED
    BY <2>1, <2>2, <2>3
<1>3. /\ next[r] \in Nat /\ next[r] > 0 /\ Cur(r) = plan[r][next[r]] /\ Cur(r) \in Layers
      /\ Len(Cur(r)) > 1 => Parent(Cur(r)) \in Layers /\ Parent(Cur(r)) # Cur(r)
  BY <1>1, CurIs, SMTT(20) DEF Types, Cur
<1>4. ASSUME NEW l \in Layers
      PROVE  /\ l = Cur(r) => built'[l] = r /\ from'[l] = using[r]
             /\ l # Cur(r) => built'[l] = built[l] /\ from'[l] = from[l]
  BY <1>1, <1>2 DEF Types
<1>5. ASSUME NEW i \in 1..(next'[r] - 1)
      PROVE  i = next[r] \/ i \in 1..(next[r] - 1)
  BY <1>2, <1>3
<1>6. ASSUME NEW i \in 1..(next[r] - 1)
      PROVE  /\ built'[plan[r][i]] = built[plan[r][i]] /\ from'[plan[r][i]] = from[plan[r][i]]
             /\ Len(plan[r][i]) > 1 =>
                  built'[Parent(plan[r][i])] = built[Parent(plan[r][i])]
  BY <1>1, <1>4, Behind
<1>7. ASSUME Absent \notin met[r], NEW l \in Need(r) \ Listed(r) PROVE built'[l] # Absent
  <2>1. l \in Layers
    BY <1>1, RequestTargets, NeededIs DEF Need
  <2> QED
    BY <1>1, <1>4, <1>7, <2>1 DEF Stored, InStore
<1>8. ASSUME Absent \notin met[r], NEW i \in 1..(next'[r] - 1) PROVE built'[plan[r][i]] # Absent
  BY <1>1, <1>3, <1>4, <1>5, <1>6, <1>8 DEF Stored, InStore
<1>9. ASSUME request[r].no_cache, NEW i \in 1..(next'[r] - 1)
      PROVE  /\ built'[plan[r][i]] \in Fresh(r)
             /\ Len(plan[r][i]) > 1 /\ built'[plan[r][i]] = r => from'[plan[r][i]] \in Fresh(r)
  BY <1>1, <1>3, <1>4, <1>5, <1>6, <1>9 DEF Stored, Own
<1>10. ASSUME NEW i \in 1..(next'[r] - 1), Len(plan[r][i]) > 1
       PROVE  \/ from'[plan[r][i]] = built'[Parent(plan[r][i])]
              \/ built'[Parent(plan[r][i])] \in met[r]
              \/ built'[plan[r][i]] \in met[r]
  <2>1. CASE i = next[r]
    BY <1>1, <1>3, <1>4, <1>10, <2>1 DEF Stored, Current, OnCurrent
  <2>2. CASE i # next[r]
    BY <1>1, <1>5, <1>6, <1>10, <2>2 DEF Stored, Current, OnCurrent
  <2> QED
    BY <2>1, <2>2
<1> QED
  BY <1>7, <1>8, <1>9, <1>10

LEMMA FinishStores ==
  ASSUME BuildInv, NEW r \in Runs, FinishBuild(r)
  PROVE  Stored(r)'
<1>1. /\ UNCHANGED <<request, todo, plan, met, removed>> /\ pc'[r] \in {"ok", "start"}
  BY DEF BuildInv, PlanInv, Types, FinishBuild, Goto
<1>2. Need(r)' = Need(r) /\ Listed(r)' = Listed(r) /\ Fresh(r)' = Fresh(r)
  BY <1>1 DEF Need, Listed, Fresh
<1> QED
  BY <1>1, <1>2, Finished DEF Stored, InStore, Own, Current, OnCurrent

\* The user removes an image: each run at work knows it.
LEMMA RemovedMeanwhile ==
  ASSUME BuildInv, NEW x \in Layers, Remove(x), NEW s \in Runs
  PROVE  Stored(s)'
<1>1. PlanInv /\ Types /\ Stored(s) /\ Planning(s) /\ Position(s)
  BY DEF BuildInv, PlanInv, Stored
<1>2. /\ built' = [built EXCEPT ![x] = Absent] /\ UNCHANGED <<from, using>> /\ Same(s)
      /\ met'[s] = IF Active(s) THEN met[s] \cup {Absent} ELSE met[s]
  BY DEF Remove, Same
<1>3. /\ Cur(s)' = Cur(s) /\ Need(s)' = Need(s) /\ Listed(s)' = Listed(s)
      /\ (Building(s)' <=> Building(s)) /\ (Active(s)' <=> Active(s))
      /\ Building(s) => Active(s)
  BY <1>2 DEF Same, Cur, Need, Listed, Building, Active, Ended
<1>4. CASE ~Active(s)
  BY <1>1, <1>2, <1>3, <1>4 DEF Stored, InStore, Own, Current, Same
<1>5. CASE Active(s)
  <2>1. Absent \in met'[s] /\ met[s] \subseteq met'[s] /\ Fresh(s) \subseteq Fresh(s)'
    BY <1>2, <1>5 DEF Fresh
  <2>2. ASSUME NEW l \in Layers PROVE built'[l] = built[l] \/ built'[l] = Absent
    BY <1>1, <1>2 DEF Types
  <2>3. InStore(s)'
    BY <2>1 DEF InStore
  <2>4. Own(s)'
    <3>1. ASSUME Building(s), request[s].no_cache, NEW i \in 1..(next[s] - 1)
          PROVE  /\ built'[plan[s][i]] \in Fresh(s)'
                 /\ Len(plan[s][i]) > 1 /\ built'[plan[s][i]] = s =>
                      from'[plan[s][i]] \in Fresh(s)'
      <4>1. plan[s][i] \in Layers /\ s # Absent
        BY <1>1, <3>1, Behind DEF Runs, Absent
      <4>2. Absent \in Fresh(s)'
        BY <2>1 DEF Fresh
      <4> QED
        BY <1>1, <1>2, <2>1, <2>2, <3>1, <4>1, <4>2 DEF Stored, Own
    <3> QED
      BY <1>1, <1>2, <1>3, <2>1, <3>1 DEF Stored, Own, Same
  <2>5. Current(s)'
    <3>1. ASSUME Building(s), NEW i \in 1..(next[s] - 1), Len(plan[s][i]) > 1
          PROVE  \/ from'[plan[s][i]] = built'[Parent(plan[s][i])]
                 \/ built'[Parent(plan[s][i])] \in met'[s]
                 \/ built'[plan[s][i]] \in met'[s]
      <4>1. plan[s][i] \in Layers /\ Parent(plan[s][i]) \in Layers
        BY <1>1, <3>1, Behind
      <4>2. \/ from[plan[s][i]] = built[Parent(plan[s][i])]
            \/ built[Parent(plan[s][i])] \in met[s]
            \/ built[plan[s][i]] \in met[s]
        BY <1>1, <3>1 DEF Stored, Current, OnCurrent
      <4> QED
        BY <1>2, <2>1, <2>2, <4>1, <4>2
    <3>2. ASSUME pc[s] = "building", Len(Cur(s)) > 1
          PROVE  using[s] = built'[Parent(Cur(s))] \/ built'[Parent(Cur(s))] \in met'[s]
      <4>1. Building(s)
        BY <3>2 DEF Building
      <4>2. Parent(Cur(s)) \in Layers
        BY <1>1, <3>2, <4>1, CurIs
      <4>3. using[s] = built[Parent(Cur(s))] \/ built[Parent(Cur(s))] \in met[s]
        BY <1>1, <3>2, <4>1 DEF Stored, Current, OnCurrent
      <4> QED
        BY <2>1, <2>2, <4>2, <4>3
    <3> QED
      BY <1>2, <1>3, <3>1, <3>2 DEF Current, OnCurrent, Same
  <2> QED
    BY <2>3, <2>4, <2>5 DEF Stored
<1> QED
  BY <1>4, <1>5

LEMMA BuildInvStep == BuildInv /\ [Next]_vars => BuildInv'
<1> SUFFICES ASSUME BuildInv, [Next]_vars PROVE BuildInv'
  OBVIOUS
<1>0. PlanInv /\ PlanInv' /\ Meeting' /\ Types /\ \A s \in Runs : Stored(s)
  BY PlanInvStep, MeetingStep DEF BuildInv, PlanInv, Stored
<1> SUFFICES \A s \in Runs : Stored(s)'
  BY <1>0 DEF BuildInv, Stored, Runs
<1>1. ASSUME NEW r \in Runs, NEW q \in Requests, Request(r, q), NEW s \in Runs
      PROVE  Stored(s)'
  <2>1. CASE s = r
    <3>1. /\ q.targets \in SUBSET Tags /\ pc'[r] = "plan" /\ request'[r] = q
          /\ todo'[r] = Closure(q.targets)
      BY <1>0, <1>1, RequestTargets DEF Request, Goto, Types
    <3>2. Need(r)' \ Listed(r)' = {}
      BY <3>1, ClosureIsSorted DEF Need, Listed
    <3> QED
      BY <2>1, <3>1, <3>2 DEF Stored, InStore, Own, Current, Building
  <2>2. CASE s # r
    <3>1. /\ Same(s) /\ using'[s] = using[s] /\ met[s] \subseteq met'[s]
          /\ UNCHANGED <<built, from, removed>>
      BY <1>0, <1>1, <2>2 DEF Request, Goto, Types, Same, store
    <3> QED
      BY <1>0, <3>1, QuietKeeps
  <2> QED
    BY <2>1, <2>2
<1>2. ASSUME NEW r \in Runs, Probe(r) \/ Enqueue(r) \/ StartBuild(r) \/ NoParent(r) \/ Stops(r),
             NEW s \in Runs, s # r
      PROVE  Stored(s)'
  <2>1. /\ Same(s) /\ using'[s] = using[s] /\ met[s] \subseteq met'[s]
        /\ UNCHANGED <<built, from, removed>>
    <3>1. CASE Probe(r)
      BY <1>0, <1>2, <3>1 DEF Probe, Types, Same, store
    <3>2. CASE Enqueue(r)
      BY <1>0, <1>2, <3>2 DEF Enqueue, Goto, Types, Same, store
    <3>3. CASE StartBuild(r)
      BY <1>0, <1>2, <3>3 DEF StartBuild, Goto, Types, Same, store
    <3>4. CASE NoParent(r)
      BY <1>0, <1>2, <3>4 DEF NoParent, Goto, Types, Same, store
    <3>5. CASE Stops(r)
      BY <1>0, <1>2, <3>5 DEF Stops, Goto, Types, Same, store
    <3> QED
      BY <1>2, <3>1, <3>2, <3>3, <3>4, <3>5
  <2> QED
    BY <1>0, <2>1, QuietKeeps
<1>3. ASSUME NEW r \in Runs, Enqueue(r) PROVE Stored(r)'
  <2>1. /\ pc[r] = "plan" /\ pc'[r] \in {"no dockerfile", "ok", "start"}
        /\ UNCHANGED <<built, from, request, todo, plan, next, using, met, removed>>
    BY <1>0, <1>3 DEF Enqueue, Goto, store, Types
  <2>2. next'[r] = 1
    BY <1>3, <2>1 DEF BuildInv, PlanInv, Position
  <2>3. InStore(r) /\ Need(r)' = Need(r) /\ Listed(r)' = Listed(r) /\ Active(r)
    BY <1>0, <2>1 DEF Stored, Need, Listed, Active, Ended
  <2>4. 1..(next'[r] - 1) = {}
    BY <2>2
  <2> QED
    BY <2>1, <2>3, <2>4 DEF Stored, InStore, Own, Current
<1>4. ASSUME NEW r \in Runs, Stops(r) PROVE Stored(r)'
  <2>1. /\ pc[r] # "idle" /\ pc'[r] = "failed"
        /\ UNCHANGED <<built, from, request, todo, plan, next, using, met, removed>>
    BY <1>0, <1>4 DEF Stops, Goto, store, Types, Active
  <2>2. ~Building(r)' /\ ~Active(r)'
    BY <2>1 DEF Building, Active, Ended
  <2> QED
    BY <2>1, <2>2 DEF Stored, InStore, Own, Current
<1>5. ASSUME NEW l \in Layers, Remove(l), NEW s \in Runs PROVE Stored(s)'
  BY <1>0, <1>5, RemovedMeanwhile
<1>6. ASSUME UNCHANGED vars, NEW s \in Runs PROVE Stored(s)'
  <2>1. /\ Same(s) /\ using'[s] = using[s] /\ met[s] \subseteq met'[s]
        /\ UNCHANGED <<built, from, removed>>
    BY <1>6 DEF vars, store, Same
  <2> QED
    BY <1>0, <2>1, QuietKeeps
<1>7. ASSUME NEW r \in Runs, NEW s \in Runs,
             \/ Probe(r) \/ Enqueue(r) \/ StartBuild(r) \/ NoParent(r) \/ FinishBuild(r)
             \/ Stops(r)
      PROVE  Stored(s)'
  BY <1>2, <1>3, <1>4, <1>7, ProbeStores, StartStores, NoParentStores, FinishStores,
     FinishOfAnother
<1> QED
  BY <1>1, <1>5, <1>6, <1>7 DEF Next

LEMMA BuildInvInit == Init => BuildInv
<1> SUFFICES ASSUME Init PROVE BuildInv
  OBVIOUS
<1>1. Meeting
  BY DEF Init, Meeting, Active
<1>2. ASSUME NEW r \in Runs PROVE InStore(r) /\ Own(r) /\ Current(r)
  BY DEF Init, InStore, Own, Current, Building, Active
<1> QED
  BY <1>1, <1>2, PlanInvInit DEF BuildInv

LEMMA BuildAlways == Spec => []BuildInv
BY BuildInvInit, BuildInvStep, PTL DEF Spec

\* No build lacks the image it is FROM unless the user removed an image while
\* it was at work: neither the order of the plan, nor what the probe left out,
\* nor other builds of any number take it away.
THEOREM ParentIsThere == Spec => []NeverWithoutParent
<1>1. BuildInv => NeverWithoutParent
  BY DEF BuildInv, InStore, NeverWithoutParent
<1> QED
  BY <1>1, BuildAlways, PTL

\* A run that succeeds has finished its last build, and its plan holds every
\* prefix of a requested tag or the probe left it out.
LEMMA Success ==
  ASSUME BuildInv, [Next]_vars, NEW r \in Runs, Succeeds(r)
  PROVE  /\ FinishBuild(r) /\ next[r] = Len(plan[r]) /\ request[r] \in Requests
         /\ removed' = removed /\ met' = met
         /\ \A i \in DOMAIN plan[r] : i \in 1..(next'[r] - 1)
<1>1. FinishBuild(r)
  <2>1. /\ pc \in [Runs -> Labels] /\ pc[r] = "building" /\ pc'[r] = "ok"
    BY DEF BuildInv, PlanInv, Types, Succeeds
  <2>2. ASSUME NEW s \in Runs, NEW q \in Requests, Request(s, q) PROVE FALSE
    BY <2>1, <2>2 DEF Request, Goto
  <2>3. ASSUME NEW s \in Runs, Probe(s) \/ Enqueue(s) \/ StartBuild(s) \/ NoParent(s) \/ Stops(s)
        PROVE  FALSE
    BY <2>1, <2>3 DEF Probe, Enqueue, StartBuild, NoParent, Stops, Goto
  <2>4. ASSUME NEW s \in Runs, FinishBuild(s) PROVE FinishBuild(r)
    BY <2>1, <2>4 DEF FinishBuild, Goto
  <2>5. ASSUME NEW l \in Layers, Remove(l) PROVE FALSE
    BY <2>1, <2>5 DEF Remove
  <2>6. ~UNCHANGED vars
    BY <2>1 DEF vars
  <2> QED
    BY <2>2, <2>3, <2>4, <2>5, <2>6 DEF Next
<1>2. Planning(r) /\ Position(r) /\ Types /\ Building(r) /\ request[r] \in Requests
  BY <1>1 DEF BuildInv, PlanInv, FinishBuild, Building, Planning
<1>3. next[r] = Len(plan[r]) /\ next'[r] = next[r] + 1
  BY <1>1, <1>2 DEF FinishBuild, Goto, Succeeds, Types
<1>4. \A i \in DOMAIN plan[r] : i \in 1..(next'[r] - 1)
  BY <1>2, <1>3, CurIs
<1> QED
  BY <1>1, <1>2, <1>3, <1>4 DEF FinishBuild

\* Where a needed layer that is not cached is in the plan.
LEMMA InPlan ==
  ASSUME BuildInv, [Next]_vars, NEW r \in Runs, Succeeds(r),
         NEW t \in request[r].targets, NEW k \in 1..Connector,
         k = Connector \/ request[r].no_cache
  PROVE  \E i \in 1..(next'[r] - 1) : plan[r][i] = SubSeq(t, 1, k)
<1> DEFINE l == SubSeq(t, 1, k)
<1>1. FinishBuild(r) /\ request[r] \in Requests
  BY Success
<1>2. Planning(r) /\ Position(r) /\ Building(r)
  BY <1>1 DEF BuildInv, PlanInv, FinishBuild, Building
<1>3. l \in Need(r) /\ Len(l) = k
  <2>1. request[r].targets \in SUBSET Tags
    BY <1>1, RequestTargets
  <2> QED
    BY <2>1, NeededIs, PrefixIs DEF Need
<1>4. l \in Listed(r)
  BY <1>2, <1>3 DEF Planning, Building
<1>5. PICK i \in DOMAIN plan[r] : plan[r][i] = l
  BY <1>2, <1>4, NothingListed DEF Position, Listed, Members
<1> QED
  BY <1>5, Success

\* build --no-cache: when it succeeds no layer under a requested image is older
\* than the run, nor built by it FROM one that is, for every matrix of tags, every
\* number of runs before it and beside it and whatever the user removes.
THEOREM FreshChains == Spec => NoCacheMeansFresh
<1> DEFINE NothingOld == \A r \in Runs :
             Succeeds(r) /\ request[r].no_cache =>
               \A t \in request[r].targets : \A k \in 1..Connector :
                 LET l == SubSeq(t, 1, k)
                     fresh == {r} \cup met[r]
                 IN built'[l] \in fresh /\ (k > 1 /\ built'[l] = r => from'[l] \in fresh)
<1>1. BuildInv /\ [Next]_vars => NothingOld
  <2> SUFFICES ASSUME BuildInv, [Next]_vars, NEW r \in Runs, Succeeds(r),
                      request[r].no_cache,
                      NEW t \in request[r].targets, NEW k \in 1..Connector
               PROVE  /\ built'[SubSeq(t, 1, k)] \in Fresh(r)
                      /\ k > 1 /\ built'[SubSeq(t, 1, k)] = r =>
                           from'[SubSeq(t, 1, k)] \in Fresh(r)
    BY DEF Fresh
  <2>1. PICK i \in 1..(next'[r] - 1) : plan[r][i] = SubSeq(t, 1, k)
    BY InPlan
  <2>2. t \in Tags
    BY Success, RequestTargets
  <2>3. Len(SubSeq(t, 1, k)) = k
    BY <2>2, PrefixIs
  <2>4. FinishBuild(r)
    BY Success
  <2>5. \A j \in 1..(next'[r] - 1) :
          /\ built'[plan[r][j]] \in Fresh(r)
          /\ Len(plan[r][j]) > 1 /\ built'[plan[r][j]] = r => from'[plan[r][j]] \in Fresh(r)
    BY <2>4, Finished
  <2> QED
    BY <2>1, <2>3, <2>5
<1>2. BuildInv /\ [Next]_vars => [NothingOld]_vars
  BY <1>1
<1> QED
  BY <1>2, BuildAlways, PTL DEF Spec, NoCacheMeansFresh

\* _ALWAYS_BUILD: when build succeeds every requested image stands on the agent
\* layer in the store, unless a run it overlapped with has built one of the two
\* since or the user has removed one; the probe of the plan, made before the first
\* build, does no harm.
THEOREM FinalsAreCurrent == Spec => FinalOnCurrentAgent
<1> DEFINE OnAgent == \A r \in Runs :
             Succeeds(r) =>
               \A t \in request[r].targets :
                 LET agent == SubSeq(t, 1, Connector - 1) IN
                 from'[t] = built'[agent] \/ {built'[agent], built'[t]} \cap met[r] # {}
<1>1. BuildInv /\ [Next]_vars => OnAgent
  <2> SUFFICES ASSUME BuildInv, [Next]_vars, NEW r \in Runs, Succeeds(r),
                      NEW t \in request[r].targets
               PROVE  \/ from'[t] = built'[SubSeq(t, 1, Connector - 1)]
                      \/ {built'[SubSeq(t, 1, Connector - 1)], built'[t]} \cap met[r] # {}
    OBVIOUS
  <2>1. t \in Tags
    BY Success, RequestTargets
  <2>2. t \in Seq(Slugs) /\ Len(t) = 4
    BY <2>1, TagIsLayer
  <2>3. SubSeq(t, 1, Connector) = t
    BY <2>2, SubSeqFull DEF Connector
  <2>4. PICK i \in 1..(next'[r] - 1) : plan[r][i] = t
    <3>1. Connector \in 1..Connector
      BY DEF Connector
    <3>2. \E i \in 1..(next'[r] - 1) : plan[r][i] = SubSeq(t, 1, Connector)
      BY <3>1, InPlan
    <3> QED
      BY <2>3, <3>2
  <2>5. Parent(t) = SubSeq(t, 1, Connector - 1) /\ Len(t) > 1
    BY <2>2 DEF Parent, Connector
  <2>6. FinishBuild(r)
    BY Success
  <2>7. \A j \in 1..(next'[r] - 1) :
          Len(plan[r][j]) > 1 =>
            \/ from'[plan[r][j]] = built'[Parent(plan[r][j])]
            \/ built'[Parent(plan[r][j])] \in met[r]
            \/ built'[plan[r][j]] \in met[r]
    BY <2>6, Finished
  <2>8. \/ from'[t] = built'[Parent(t)]
        \/ built'[Parent(t)] \in met[r]
        \/ built'[t] \in met[r]
    BY <2>4, <2>5, <2>7
  <2> QED
    BY <2>5, <2>8
<1>2. BuildInv /\ [Next]_vars => [OnAgent]_vars
  BY <1>1
<1> QED
  BY <1>2, BuildAlways, PTL DEF Spec, FinalOnCurrentAgent
================================================================================
