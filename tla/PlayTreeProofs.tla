--------------------------- MODULE PlayTreeProofs ---------------------------
(***************************************************************************)
(* Proofs about the playlist iterator, for every set of playlists.         *)
(***************************************************************************)
EXTENDS PlayTree, TLAPS, FiniteSetTheorems, SequenceTheorems,
        NaturalsInduction, WellFoundedInduction

\* Lists of children in which every node has one place and comes after its
\* parent, as in the trees that are read.
Forest(k) ==
    /\ k \in [Nodes -> Seq(Nodes)]
    /\ \A n \in Nodes : \A i \in DOMAIN k[n] : k[n][i] > n /\ k[n][i] # Root
    /\ \A n, m \in Nodes : \A i \in DOMAIN k[n], j \in DOMAIN k[m] :
           k[n][i] = k[m][j] => n = m /\ i = j

\* Parent and Depth in the lists k.
ParentIn(k, n) ==
    LET P == {m \in Nodes : n \in ToSet(k[m])}
    IN IF P = {} THEN None ELSE CHOOSE m \in P : TRUE

DepthIn(k) ==
    LET depth[n \in Nodes \cup {None}] ==
            IF n \in {None, Root} THEN 0 ELSE 1 + depth[ParentIn(k, n)]
    IN depth

(* Nodes are numbers, and the lists of a forest hold nodes.                *)
LEMMA NodesAre == Nodes \in SUBSET Nat /\ None \notin Nodes /\ Root \in Nodes
  BY TreesAssumption

-----------------------------------------------------------------------------
(* Parents.                                                                *)

(* The parent of a child is whom it is a child of.                         *)
LEMMA ParentIs ==
    ASSUME NEW k, Forest(k), NEW m \in Nodes, NEW i \in DOMAIN k[m]
    PROVE  k[m][i] \in Nodes /\ ParentIn(k, k[m][i]) = m
<1> DEFINE n == k[m][i]
           P == {p \in Nodes : n \in ToSet(k[p])}
<1>1. k[m] \in Seq(Nodes)
  BY DEF Forest
<1>2. n \in Nodes
  BY <1>1, ElementOfSeq
<1>3. m \in P
  BY DEF ToSet
<1>4. \A p \in P : p = m
  BY DEF ToSet, Forest
<1>5. ParentIn(k, n) = m
  BY <1>3, <1>4 DEF ParentIn
<1> QED  BY <1>2, <1>5

(* A node has one place.                                                   *)
LEMMA OnePlace ==
    ASSUME NEW k, Forest(k), NEW n \in Nodes, NEW m \in Nodes,
           NEW x \in DOMAIN k[n], NEW y \in DOMAIN k[m], k[n][x] = k[m][y]
    PROVE  n = m /\ x = y
  BY DEF Forest

(* A node without a parent is in no list.                                  *)
LEMMA ParentOf ==
    ASSUME NEW k, Forest(k), NEW n \in Nodes
    PROVE  \/ /\ ParentIn(k, n) = None
              /\ \A m \in Nodes : \A i \in DOMAIN k[m] : k[m][i] # n
           \/ /\ ParentIn(k, n) \in Nodes /\ ParentIn(k, n) < n
              /\ n # Root
              /\ \E i \in DOMAIN k[ParentIn(k, n)] : k[ParentIn(k, n)][i] = n
<1>1. CASE \A m \in Nodes : \A i \in DOMAIN k[m] : k[m][i] # n
  <2>1. {m \in Nodes : n \in ToSet(k[m])} = {}
    BY <1>1 DEF ToSet
  <2> QED  BY <1>1, <2>1 DEF ParentIn
<1>2. CASE \E m \in Nodes : \E i \in DOMAIN k[m] : k[m][i] = n
  <2>1. PICK m \in Nodes : \E i \in DOMAIN k[m] : k[m][i] = n
    BY <1>2
  <2>2. ParentIn(k, n) = m
    BY <2>1, ParentIs
  <2>3. n > m /\ n # Root
    BY <2>1 DEF Forest
  <2> QED  BY <2>1, <2>2, <2>3, NodesAre
<1> QED  BY <1>1, <1>2

(* A node in no list has no parent.                                        *)
LEMMA NoParent ==
    ASSUME NEW k, Forest(k), NEW n \in Nodes,
           \A m \in Nodes : \A i \in DOMAIN k[m] : k[m][i] # n
    PROVE  ParentIn(k, n) = None
  BY ParentOf

(* The root has no parent.                                                 *)
LEMMA RootParent ==
    ASSUME NEW k, Forest(k)
    PROVE  ParentIn(k, Root) = None
  BY ParentOf, NodesAre

-----------------------------------------------------------------------------
(* Depths, by induction: what holds of no node holds of no smallest one.   *)

(* A set of numbers has a least element.                                   *)
LEMMA LeastNumber ==
    ASSUME NEW T \in SUBSET Nat, T # {}
    PROVE  \E m \in T : \A k \in T : m <= k
<1> DEFINE R == OpToRel(<, Nat)
<1>1. IsWellFoundedOn(R, Nat)
  BY NatLessThanWellFounded
<1>2. \E m \in T : \A k \in T : <<k, m>> \notin R
  <2> HIDE DEF R
  <2> QED  BY <1>1, WFMin
<1>3. \A k, m \in Nat : <<k, m>> \notin R => m <= k
  BY DEF OpToRel
<1> QED  BY <1>2, <1>3

(* There is a greatest node.                                               *)
LEMMA NodesBounded == \E b \in Nat : \A n \in Nodes : n <= b
<1> DEFINE Unbounded(T) == \A b \in Nat : \E n \in T : n > b
           C == {c \in Nat : \E T \in SUBSET Nodes :
                     Cardinality(T) = c /\ Unbounded(T)}
<1>1. C = {}
  <2> SUFFICES ASSUME C # {} PROVE FALSE
    OBVIOUS
  <2>1. PICK c \in C : \A x \in C : c <= x
    BY LeastNumber
  <2>2. PICK T \in SUBSET Nodes : Cardinality(T) = c /\ Unbounded(T)
    OBVIOUS
  <2>3. PICK x \in T : x > 0
    BY <2>2
  <2>4. IsFiniteSet(T)
    BY TreesAssumption, FS_Subset
  <2>5. Cardinality(T \ {x}) = Cardinality(T) - 1 /\ IsFiniteSet(T \ {x})
    BY <2>4, FS_RemoveElement
  <2>6. Cardinality(T \ {x}) \in Nat
    BY <2>5, FS_CardinalityType
  <2>7. Unbounded(T \ {x})
    <3> SUFFICES ASSUME NEW b \in Nat
                 PROVE  \E n \in T \ {x} : n > b
      OBVIOUS
    <3>1. x \in Nat /\ T \in SUBSET Nat
      BY NodesAre
    <3>2. CASE b >= x
      BY <2>2, <3>1, <3>2
    <3>3. CASE x >= b
      <4>1. PICK n \in T : n > x
        BY <2>2, <3>1
      <4> QED  BY <3>1, <3>3, <4>1
    <3> QED  BY <3>1, <3>2, <3>3
  <2>8. c - 1 \in C
    BY <2>2, <2>5, <2>6, <2>7
  <2> QED  BY <2>1, <2>8
<1>2. Cardinality(Nodes) \in Nat
  BY TreesAssumption, FS_CardinalityType
<1>3. ~Unbounded(Nodes)
  BY <1>1, <1>2
<1> QED  BY <1>3, NodesAre

\* One step of the recursion of DepthIn.
DepthStep(k, f) ==
    [n \in Nodes \cup {None} |->
        IF n \in {None, Root} THEN 0 ELSE 1 + f[ParentIn(k, n)]]

DepthsUpto(k, b) ==
    {f \in [Nodes \cup {None} -> Nat] :
        \A n \in Nodes \cup {None} : n <= b => f[n] = DepthStep(k, f)[n]}

(* A function that follows it up to a node can be made to do so for one    *)
(* node more.                                                              *)
LEMMA DepthFurther ==
    ASSUME NEW k, Forest(k), NEW b \in Nat, NEW g \in DepthsUpto(k, b)
    PROVE  DepthStep(k, g) \in DepthsUpto(k, b + 1)
<1> DEFINE f == DepthStep(k, g)
           X == Nodes \cup {None}
<1>1. g \in [X -> Nat]
  BY DEF DepthsUpto
<1>2. X \in SUBSET Nat
  BY NodesAre DEF None
<1>3. ASSUME NEW n \in X, n \notin {None, Root}
      PROVE  ParentIn(k, n) \in X /\ ParentIn(k, n) < n
  BY <1>3, ParentOf, NodesAre DEF None
<1>4. f \in [X -> Nat]
  <2>1. ASSUME NEW n \in X, n \notin {None, Root}
        PROVE  1 + g[ParentIn(k, n)] \in Nat
    <3>1. g[ParentIn(k, n)] \in Nat
      BY <1>1, <1>3, <2>1
    <3> QED  BY <3>1
  <2> QED  BY <2>1 DEF DepthStep
<1>5. ASSUME NEW n \in X, n <= b + 1
      PROVE  f[n] = DepthStep(k, f)[n]
  <2>1. CASE n \in {None, Root}
    BY <2>1 DEF DepthStep
  <2>2. CASE n \notin {None, Root}
    <3> DEFINE p == ParentIn(k, n)
    <3>1. p \in X /\ p <= b
      BY <1>2, <1>3, <1>5, <2>2
    <3>2. f[p] = g[p]
      BY <3>1 DEF DepthsUpto
    <3>3. f[n] = 1 + g[p] /\ DepthStep(k, f)[n] = 1 + f[p]
      BY <2>2 DEF DepthStep
    <3> QED  BY <3>2, <3>3
  <2> QED  BY <2>1, <2>2
<1> QED  BY <1>4, <1>5 DEF DepthsUpto

(* There are such functions for all nodes.                                 *)
LEMMA DepthsExist ==
    ASSUME NEW k, Forest(k)
    PROVE  \E f \in [Nodes \cup {None} -> Nat] : f = DepthStep(k, f)
<1> DEFINE Bad == {b \in Nat : DepthsUpto(k, b) = {}}
           X == Nodes \cup {None}
<1>1. Bad = {}
  <2> SUFFICES ASSUME Bad # {} PROVE FALSE
    OBVIOUS
  <2>1. PICK b \in Bad : \A c \in Bad : b <= c
    BY LeastNumber
  <2>2. b # 0
    <3> DEFINE z == [n \in X |-> 0]
    <3>1. \A n \in X : n <= 0 => n = None
      BY NodesAre DEF None
    <3>2. z \in DepthsUpto(k, 0)
      BY <3>1 DEF DepthsUpto, DepthStep
    <3> QED  BY <3>2
  <2>3. b - 1 \in Nat /\ b - 1 \notin Bad /\ (b - 1) + 1 = b
    BY <2>1, <2>2
  <2>4. PICK g \in DepthsUpto(k, b - 1) : TRUE
    BY <2>3
  <2>5. DepthStep(k, g) \in DepthsUpto(k, (b - 1) + 1)
    BY <2>3, <2>4, DepthFurther
  <2> QED  BY <2>3, <2>5
<1>2. PICK b \in Nat : \A n \in Nodes : n <= b
  BY NodesBounded
<1>3. PICK f \in DepthsUpto(k, b) : TRUE
  BY <1>1
<1>4. f \in [X -> Nat] /\ \A n \in X : f[n] = DepthStep(k, f)[n]
  BY <1>2, <1>3 DEF DepthsUpto, None
<1>5. DepthStep(k, f) = [n \in X |-> DepthStep(k, f)[n]]
  BY DEF DepthStep
<1> QED  BY <1>4, <1>5

(* What DepthIn computes.                                                  *)
LEMMA DepthIs ==
    ASSUME NEW k, Forest(k)
    PROVE  /\ DepthIn(k)[None] = 0 /\ DepthIn(k)[Root] = 0
           /\ \A n \in Nodes \ {Root} :
                  DepthIn(k)[n] = 1 + DepthIn(k)[ParentIn(k, n)]
<1>1. DepthIn(k) = CHOOSE f : f = DepthStep(k, f)
  BY Zenon DEF DepthIn, DepthStep
<1>2. DepthIn(k) = DepthStep(k, DepthIn(k))
  BY <1>1, DepthsExist, Zenon
<1> DEFINE f == DepthIn(k)
<1>3. \A n \in Nodes \cup {None} :
          f[n] = IF n \in {None, Root} THEN 0 ELSE 1 + f[ParentIn(k, n)]
  <2> HIDE DEF f
  <2>1. f = DepthStep(k, f)
    BY <1>2 DEF f
  <2> QED  BY <2>1 DEF DepthStep
<1> HIDE DEF f
<1>4. /\ f[None] = 0 /\ f[Root] = 0
      /\ \A n \in Nodes \ {Root} : f[n] = 1 + f[ParentIn(k, n)]
  BY <1>3, NodesAre
<1> QED  BY <1>4 DEF f

(* The depth is a number.                                                  *)
LEMMA DepthType ==
    ASSUME NEW k, Forest(k)
    PROVE  \A n \in Nodes \cup {None} : DepthIn(k)[n] \in Nat
<1> DEFINE f == DepthIn(k)
           Bad == {n \in Nodes \cup {None} : f[n] \notin Nat}
<1> HIDE DEF f
<1>1. /\ f[None] = 0 /\ f[Root] = 0
      /\ \A n \in Nodes \ {Root} : f[n] = 1 + f[ParentIn(k, n)]
  BY DepthIs DEF f
<1>2. Bad = {}
  <2> SUFFICES ASSUME Bad # {} PROVE FALSE
    OBVIOUS
  <2>0. Nodes \cup {None} \in SUBSET Nat
    BY NodesAre DEF None
  <2>1. Bad \in SUBSET Nat
    BY <2>0, Zenon
  <2>2. PICK n \in Bad : \A m \in Bad : n <= m
    BY <2>1, LeastNumber
  <2>3. n \in Nodes \ {Root}
    BY <1>1
  <2>4. ParentIn(k, n) \in Nodes \cup {None} /\ ParentIn(k, n) < n
    BY <2>3, ParentOf, NodesAre DEF None
  <2>5. ParentIn(k, n) \notin Bad
    BY <2>1, <2>2, <2>4
  <2>6. f[ParentIn(k, n)] \in Nat
    BY <2>4, <2>5
  <2> QED  BY <1>1, <2>3, <2>6
<1> QED  BY <1>2 DEF f

\* From a placed node the parents lead to the root.
UpClosed(k, S) == \A n \in S : n = Root \/ ParentIn(k, n) \in S
Placed(k, n) == \E S \in SUBSET Nodes : n \in S /\ UpClosed(k, S)

(* The depth of a node depends on its parents only.                        *)
LEMMA SameDepth ==
    ASSUME NEW k, NEW l, Forest(k), Forest(l),
           NEW S \in SUBSET Nodes, UpClosed(k, S),
           \A n \in S \ {Root} : ParentIn(l, n) = ParentIn(k, n)
    PROVE  UpClosed(l, S) /\ \A n \in S : DepthIn(l)[n] = DepthIn(k)[n]
<1> DEFINE f == DepthIn(k)
           g == DepthIn(l)
           Bad == {n \in S : g[n] # f[n]}
<1> HIDE DEF f, g
<1>1. /\ f[Root] = 0 /\ g[Root] = 0
      /\ \A n \in Nodes \ {Root} : /\ f[n] = 1 + f[ParentIn(k, n)]
                                   /\ g[n] = 1 + g[ParentIn(l, n)]
  BY DepthIs DEF f, g
<1>2. UpClosed(l, S)
  BY DEF UpClosed
<1>3. Bad = {}
  <2> SUFFICES ASSUME Bad # {} PROVE FALSE
    OBVIOUS
  <2>1. Bad \in SUBSET Nat
    BY NodesAre
  <2>2. PICK n \in Bad : \A m \in Bad : n <= m
    BY <2>1, LeastNumber
  <2>3. n \in Nodes \ {Root}
    BY <1>1
  <2>4. ParentIn(k, n) \in S /\ ParentIn(l, n) = ParentIn(k, n)
    BY <2>3 DEF UpClosed
  <2>5. ParentIn(k, n) < n
    BY <2>3, <2>4, ParentOf, NodesAre
  <2>6. ParentIn(k, n) \notin Bad
    <3>1. n \in Nat /\ ParentIn(k, n) \in Nat
      BY <2>1, <2>4, NodesAre
    <3> HIDE DEF Bad
    <3> QED  BY <2>2, <2>5, <3>1
  <2> QED  BY <1>1, <2>3, <2>4, <2>6
<1> QED  BY <1>2, <1>3 DEF f, g

-----------------------------------------------------------------------------
(* Inserting and removing.                                                 *)

\* r is the list s with t behind it.
Row(r, s, t) ==
    /\ r \in Seq(Nodes) /\ Len(r) = Len(s) + Len(t)
    /\ \A j \in 1 .. Len(s) : r[j] = s[j]
    /\ \A j \in 1 .. Len(t) : r[Len(s) + j] = t[j]

\* r is s with v inserted behind place i.
Inserted(r, s, i, v) ==
    /\ r \in Seq(Nodes) /\ Len(r) = Len(s) + 1 /\ r[i + 1] = v
    /\ \A j \in 1 .. i : r[j] = s[j]
    /\ \A j \in i + 1 .. Len(s) : r[j + 1] = s[j]

\* r is s without place i.
Removed(r, s, i) ==
    /\ r \in Seq(Nodes) /\ Len(r) = Len(s) - 1
    /\ \A j \in 1 .. i - 1 : r[j] = s[j]
    /\ \A j \in i .. Len(s) - 1 : r[j] = s[j + 1]

\* l is k with v behind the child at place i of p, and without that child.
Grown(k, l, p, i, v) ==
    Inserted(l[p], k[p], i, v) /\ l = [k EXCEPT ![p] = l[p]]
Shrunk(k, l, p, i) == Removed(l[p], k[p], i) /\ l = [k EXCEPT ![p] = l[p]]

(* Where an element of two lists in a row comes from.                      *)
LEMMA InRow ==
    ASSUME NEW s \in Seq(Nodes), NEW t \in Seq(Nodes)
    PROVE  Row(s \o t, s, t)
<1>1. Len(s) \in Nat /\ Len(t) \in Nat
  OBVIOUS
<1>2. \A j \in 1 .. Len(s) + Len(t) :
          (s \o t)[j] = IF j <= Len(s) THEN s[j] ELSE t[j - Len(s)]
  BY ConcatProperties
<1> DEFINE r == s \o t
<1>3. r \in Seq(Nodes) /\ Len(r) = Len(s) + Len(t)
  BY ConcatProperties
<1> HIDE DEF r
<1>4. ASSUME NEW j \in 1 .. Len(s) PROVE r[j] = s[j]
  <2>1. j \in 1 .. Len(s) + Len(t) /\ j <= Len(s)
    BY <1>1
  <2> QED  BY <1>2, <2>1 DEF r
<1>5. ASSUME NEW j \in 1 .. Len(t) PROVE r[Len(s) + j] = t[j]
  <2>1. /\ Len(s) + j \in 1 .. Len(s) + Len(t) /\ ~(Len(s) + j <= Len(s))
        /\ (Len(s) + j) - Len(s) = j
    BY <1>1
  <2> QED  BY <1>2, <2>1 DEF r
<1>6. Row(r, s, t)
  BY <1>3, <1>4, <1>5 DEF Row
<1> QED  BY <1>6 DEF r

(* What SubSeq makes of a list.                                            *)
LEMMA PartIs ==
    ASSUME NEW s \in Seq(Nodes), NEW a \in 1 .. Len(s) + 1,
           NEW b \in 0 .. Len(s), a <= b + 1
    PROVE  /\ SubSeq(s, a, b) \in Seq(Nodes)
           /\ Len(SubSeq(s, a, b)) = b - a + 1
           /\ \A j \in 1 .. b - a + 1 : SubSeq(s, a, b)[j] = s[a + j - 1]
<1>1. Len(s) \in Nat /\ a \in Int /\ b \in Int
  OBVIOUS
<1>2. \A j \in a .. b : s[j] \in Nodes
  BY <1>1, ElementOfSeq
<1> QED  BY <1>1, <1>2, SubSeqProperties

(* The part before a place, and the one behind it.                         *)
LEMMA PartBefore ==
    ASSUME NEW s \in Seq(Nodes), NEW i \in 0 .. Len(s)
    PROVE  /\ SubSeq(s, 1, i) \in Seq(Nodes) /\ Len(SubSeq(s, 1, i)) = i
           /\ \A j \in 1 .. i : SubSeq(s, 1, i)[j] = s[j]
<1>1. Len(s) \in Nat
  OBVIOUS
<1>2. 1 \in 1 .. Len(s) + 1 /\ 1 <= i + 1 /\ i - 1 + 1 = i
  BY <1>1
<1>3. \A j \in 1 .. i : 1 + j - 1 = j
  BY <1>1
<1>4. /\ SubSeq(s, 1, i) \in Seq(Nodes) /\ Len(SubSeq(s, 1, i)) = i - 1 + 1
      /\ \A j \in 1 .. i - 1 + 1 : SubSeq(s, 1, i)[j] = s[1 + j - 1]
  BY <1>2, PartIs
<1> QED  BY <1>2, <1>3, <1>4

(* The part behind a place.                                                *)
LEMMA PartBehind ==
    ASSUME NEW s \in Seq(Nodes), NEW i \in 0 .. Len(s)
    PROVE  /\ SubSeq(s, i + 1, Len(s)) \in Seq(Nodes)
           /\ Len(SubSeq(s, i + 1, Len(s))) = Len(s) - i
           /\ \A j \in 1 .. Len(s) - i :
                  SubSeq(s, i + 1, Len(s))[j] = s[i + j]
<1>1. Len(s) \in Nat
  OBVIOUS
<1>2. /\ i + 1 \in 1 .. Len(s) + 1 /\ Len(s) \in 0 .. Len(s)
      /\ i + 1 <= Len(s) + 1
  BY <1>1
<1>3. Len(s) - (i + 1) + 1 = Len(s) - i
  BY <1>1
<1>4. \A j \in 1 .. Len(s) - i : i + 1 + j - 1 = i + j
  BY <1>1
<1> DEFINE b == SubSeq(s, i + 1, Len(s))
<1>5. /\ b \in Seq(Nodes) /\ Len(b) = Len(s) - (i + 1) + 1
      /\ \A j \in 1 .. Len(s) - (i + 1) + 1 : b[j] = s[i + 1 + j - 1]
  BY <1>2, PartIs
<1> QED  BY <1>3, <1>4, <1>5

(* Places counted from i.                                                  *)
LEMMA Back ==
    ASSUME NEW i \in Nat, NEW m \in Nat
    PROVE  /\ \A j \in i + 1 .. m :
                  /\ j - i \in 1 .. m - i /\ (i + 1) + (j - i) = j + 1
                  /\ i + (j - i) = j
           /\ \A j \in i .. m - 1 :
                  /\ j - i + 1 \in 1 .. m - i /\ (i - 1) + (j - i + 1) = j
                  /\ i + (j - i + 1) = j + 1
  OBVIOUS

(* What InsertAt makes of a list.                                          *)
LEMMA InsertIs ==
    ASSUME NEW s \in Seq(Nodes), NEW i \in DOMAIN s, NEW v \in Nodes
    PROVE  Inserted(InsertAt(s, i + 1, v), s, i, v)
<1> DEFINE a == SubSeq(s, 1, i)
           b == SubSeq(s, i + 1, Len(s))
           t == <<v>>
           c == a \o t
           r == c \o b
<1>1. /\ i \in 1 .. Len(s) /\ i \in 0 .. Len(s) /\ Len(s) \in Nat
      /\ i \in Nat
      /\ (i + 1) - 1 = i
  OBVIOUS
<1>2. InsertAt(s, i + 1, v) = r
  BY <1>1 DEF InsertAt
<1>3. a \in Seq(Nodes) /\ Len(a) = i /\ \A j \in 1 .. i : a[j] = s[j]
  BY <1>1, PartBefore
<1>4. /\ b \in Seq(Nodes) /\ Len(b) = Len(s) - i
      /\ \A j \in 1 .. Len(s) - i : b[j] = s[i + j]
  BY <1>1, PartBehind
<1>5. t \in Seq(Nodes) /\ Len(t) = 1 /\ t[1] = v
  OBVIOUS
<1> HIDE DEF a, b, t
<1>6. Row(c, a, t)
  BY <1>3, <1>5, InRow
<1>7. c \in Seq(Nodes)
  BY <1>6 DEF Row
<1> HIDE DEF c
<1>8. Row(r, c, b)
  BY <1>4, <1>7, InRow
<1> HIDE DEF r
<1>9. /\ Len(c) = i + 1 /\ c[i + 1] = v
      /\ \A j \in 1 .. i : c[j] = s[j]
  BY <1>1, <1>3, <1>5, <1>6 DEF Row
<1>10. /\ r \in Seq(Nodes) /\ Len(r) = Len(c) + Len(b)
       /\ \A j \in 1 .. Len(c) : r[j] = c[j]
       /\ \A j \in 1 .. Len(b) : r[Len(c) + j] = b[j]
  BY <1>8 DEF Row
<1>11. ASSUME NEW j \in i + 1 .. Len(s)
       PROVE  r[j + 1] = s[j]
  <2>1. /\ j - i \in 1 .. Len(s) - i /\ (i + 1) + (j - i) = j + 1
        /\ i + (j - i) = j
    BY <1>1, Back, Zenon
  <2>2. b[j - i] = s[j]
    BY <1>4, <2>1
  <2>3. r[Len(c) + (j - i)] = b[j - i]
    BY <1>4, <1>10, <2>1
  <2> QED  BY <1>9, <2>1, <2>2, <2>3
<1>12. Len(r) = Len(s) + 1
  BY <1>1, <1>4, <1>9, <1>10
<1>13. r[i + 1] = v /\ \A j \in 1 .. i : r[j] = s[j]
  <2>1. i + 1 \in 1 .. Len(c) /\ \A j \in 1 .. i : j \in 1 .. Len(c)
    BY <1>1, <1>9
  <2> QED  BY <1>9, <1>10, <2>1
<1> QED  BY <1>2, <1>10, <1>11, <1>12, <1>13 DEF Inserted

(* What RemoveAt makes of a list.                                          *)
LEMMA RemoveIs ==
    ASSUME NEW s \in Seq(Nodes), NEW i \in DOMAIN s
    PROVE  Removed(RemoveAt(s, i), s, i)
<1> DEFINE a == SubSeq(s, 1, i - 1)
           b == SubSeq(s, i + 1, Len(s))
           r == a \o b
<1>1. /\ i \in 1 .. Len(s) /\ i \in 0 .. Len(s) /\ Len(s) \in Nat
      /\ i \in Nat
      /\ i - 1 \in 0 .. Len(s)
  OBVIOUS
<1>2. RemoveAt(s, i) = r
  BY DEF RemoveAt
<1>3. /\ a \in Seq(Nodes) /\ Len(a) = i - 1
      /\ \A j \in 1 .. i - 1 : a[j] = s[j]
  BY <1>1, PartBefore
<1>4. /\ b \in Seq(Nodes) /\ Len(b) = Len(s) - i
      /\ \A j \in 1 .. Len(s) - i : b[j] = s[i + j]
  BY <1>1, PartBehind
<1> HIDE DEF a, b
<1>5. Row(r, a, b)
  BY <1>3, <1>4, InRow
<1> HIDE DEF r
<1>6. /\ r \in Seq(Nodes) /\ Len(r) = Len(a) + Len(b)
      /\ \A j \in 1 .. Len(a) : r[j] = a[j]
      /\ \A j \in 1 .. Len(b) : r[Len(a) + j] = b[j]
  BY <1>5 DEF Row
<1>7. ASSUME NEW j \in i .. Len(s) - 1
      PROVE  r[j] = s[j + 1]
  <2>1. /\ j - i + 1 \in 1 .. Len(s) - i /\ (i - 1) + (j - i + 1) = j
        /\ i + (j - i + 1) = j + 1
    BY <1>1, Back, Zenon
  <2>2. b[j - i + 1] = s[j + 1]
    BY <1>4, <2>1
  <2>3. r[Len(a) + (j - i + 1)] = b[j - i + 1]
    BY <1>4, <1>6, <2>1
  <2> QED  BY <1>3, <2>1, <2>2, <2>3
<1>8. Len(r) = Len(s) - 1
  BY <1>1, <1>3, <1>4, <1>6
<1>9. \A j \in 1 .. i - 1 : r[j] = s[j]
  BY <1>3, <1>6
<1> QED  BY <1>2, <1>6, <1>7, <1>8, <1>9 DEF Removed

(* A node without a parent gets a place behind another.                    *)
LEMMA ForestInsert ==
    ASSUME NEW k, Forest(k), NEW p \in Nodes, NEW i \in DOMAIN k[p],
           NEW v \in Nodes, v > p, v # Root, ParentIn(k, v) = None,
           NEW l, Grown(k, l, p, i, v)
    PROVE  /\ Forest(l) /\ ParentIn(l, v) = p
           /\ \A n \in Nodes : n # v => ParentIn(l, n) = ParentIn(k, n)
           /\ i \in DOMAIN l[p] /\ l[p][i] = k[p][i] /\ i < Len(l[p])
<1> DEFINE r == l[p]
<1>1. k \in [Nodes -> Seq(Nodes)]
  BY DEF Forest
<1>2. k[p] \in Seq(Nodes) /\ i \in 1 .. Len(k[p]) /\ Len(k[p]) \in Nat
  BY <1>1
<1>3. /\ r \in Seq(Nodes) /\ Len(r) = Len(k[p]) + 1 /\ r[i + 1] = v
      /\ \A j \in 1 .. i : r[j] = k[p][j]
      /\ \A j \in i + 1 .. Len(k[p]) : r[j + 1] = k[p][j]
  BY DEF Grown, Inserted
<1> HIDE DEF r
<1>4. l \in [Nodes -> Seq(Nodes)] /\ l[p] = r
      /\ \A n \in Nodes : n # p => l[n] = k[n]
  BY <1>1, <1>3 DEF Grown, r
<1>5. DOMAIN r = 1 .. Len(k[p]) + 1
  BY <1>3
<1>6. \A n \in Nodes : \A j \in DOMAIN k[n] : k[n][j] # v
  BY <1>2, ParentOf, NodesAre DEF None
<1>7. ASSUME NEW n \in Nodes, NEW j \in DOMAIN l[n]
      PROVE  \/ n = p /\ j = i + 1 /\ l[n][j] = v
             \/ n = p /\ j <= i /\ j \in DOMAIN k[n] /\ l[n][j] = k[n][j]
             \/ /\ n = p /\ j > i + 1
                /\ j - 1 \in DOMAIN k[n] /\ l[n][j] = k[n][j - 1]
             \/ n # p /\ j \in DOMAIN k[n] /\ l[n][j] = k[n][j]
  <2>1. CASE n # p
    BY <1>4, <2>1
  <2>2. CASE n = p
    <3>1. j \in 1 .. Len(k[p]) + 1 /\ l[n][j] = r[j]
      BY <1>4, <1>5, <2>2
    <3>2. CASE j <= i
      <4>1. j \in 1 .. i /\ j \in 1 .. Len(k[p])
        BY <1>2, <3>1, <3>2
      <4> QED  BY <1>2, <1>3, <2>2, <3>1, <4>1
    <3>3. CASE j = i + 1
      BY <1>3, <2>2, <3>1, <3>3
    <3>4. CASE j > i + 1
      <4>1. /\ j - 1 \in i + 1 .. Len(k[p]) /\ (j - 1) + 1 = j
            /\ j - 1 \in 1 .. Len(k[p])
        BY <1>2, <3>1, <3>4
      <4>2. r[(j - 1) + 1] = k[p][j - 1]
        BY <1>3, <4>1
      <4> QED  BY <1>2, <2>2, <3>1, <3>4, <4>1, <4>2
    <3> QED  BY <1>2, <3>1, <3>2, <3>3, <3>4
  <2> QED  BY <2>1, <2>2
<1>8. \A n, m \in Nodes : \A j \in DOMAIN l[n], h \in DOMAIN l[m] :
          l[n][j] = l[m][h] => n = m /\ j = h
  <2> SUFFICES ASSUME NEW n \in Nodes, NEW m \in Nodes,
                      NEW j \in DOMAIN l[n], NEW h \in DOMAIN l[m],
                      l[n][j] = l[m][h]
               PROVE  n = m /\ j = h
    OBVIOUS
  <2>1. j \in Nat /\ h \in Nat
    BY <1>4
  <2>2. CASE l[n][j] = v
    <3>1. n = p /\ j = i + 1
      BY <1>6, <1>7, <2>2
    <3>2. m = p /\ h = i + 1
      <4>1. l[m][h] = v
        BY <2>2
      <4> QED  BY <1>6, <1>7, <4>1
    <3> QED  BY <3>1, <3>2
  <2>3. CASE l[n][j] # v
    <3>1. PICK x \in DOMAIN k[n] :
             /\ l[n][j] = k[n][x]
             /\ x = IF n = p /\ j > i THEN j - 1 ELSE j
             /\ ~(n = p /\ j = i + 1)
      <4>1. j - 1 \in Int /\ (j > i + 1 => j > i) /\ (j <= i => ~(j > i))
            /\ (j > i + 1 => j # i + 1) /\ (j <= i => j # i + 1)
        BY <1>2, <2>1
      <4> QED  BY <1>7, <2>3, <4>1
    <3>2. PICK y \in DOMAIN k[m] :
             /\ l[m][h] = k[m][y]
             /\ y = IF m = p /\ h > i THEN h - 1 ELSE h
             /\ ~(m = p /\ h = i + 1)
      <4>1. h - 1 \in Int /\ (h > i + 1 => h > i) /\ (h <= i => ~(h > i))
            /\ (h > i + 1 => h # i + 1) /\ (h <= i => h # i + 1)
        BY <1>2, <2>1
      <4> QED  BY <1>7, <2>3, <4>1
    <3>3. k[n][x] = k[m][y]
      BY <3>1, <3>2
    <3>4. n = m /\ x = y
      BY <3>3, OnePlace
    <3> QED  BY <1>2, <2>1, <3>1, <3>2, <3>4
  <2> QED  BY <2>2, <2>3
<1>9. \A n \in Nodes : \A j \in DOMAIN l[n] : l[n][j] > n /\ l[n][j] # Root
  <2> SUFFICES ASSUME NEW n \in Nodes, NEW j \in DOMAIN l[n]
               PROVE  l[n][j] > n /\ l[n][j] # Root
    OBVIOUS
  <2>1. \A h \in DOMAIN k[n] : k[n][h] > n /\ k[n][h] # Root
    BY DEF Forest
  <2> QED  BY <1>7, <2>1
<1>10. Forest(l)
  BY <1>4, <1>8, <1>9 DEF Forest
<1>11. i + 1 \in DOMAIN l[p] /\ l[p][i + 1] = v
  BY <1>2, <1>3, <1>4, <1>5
<1>12. i \in DOMAIN l[p] /\ l[p][i] = k[p][i] /\ i < Len(l[p])
  <2>1. i \in 1 .. Len(k[p]) + 1 /\ i \in 1 .. i /\ i < Len(k[p]) + 1
    BY <1>2
  <2> QED  BY <1>3, <1>4, <1>5, <2>1
<1>13. ParentIn(l, v) = p
  BY <1>10, <1>11, ParentIs, Zenon
<1>14. ASSUME NEW n \in Nodes, n # v
       PROVE  ParentIn(l, n) = ParentIn(k, n)
  <2>1. CASE ParentIn(k, n) = None
    <3>1. \A m \in Nodes : \A j \in DOMAIN k[m] : k[m][j] # n
      BY <2>1, ParentOf, NodesAre
    <3>2. \A m \in Nodes : \A j \in DOMAIN l[m] : l[m][j] # n
      BY <1>7, <1>14, <3>1
    <3>3. ParentIn(l, n) = None
      BY <1>10, <3>2, NoParent, Zenon
    <3> QED  BY <2>1, <3>3
  <2>2. CASE ParentIn(k, n) # None
    <3>1. PICK m \in Nodes : ParentIn(k, n) = m /\
               \E j \in DOMAIN k[m] : k[m][j] = n
      BY <2>2, ParentOf
    <3>2. PICK j \in DOMAIN k[m] : k[m][j] = n
      BY <3>1
    <3>3. \E h \in DOMAIN l[m] : l[m][h] = n
      <4>1. CASE m # p
        BY <1>4, <3>2, <4>1
      <4>2. CASE m = p
        <5>1. j \in 1 .. Len(k[p])
          BY <1>2, <4>2
        <5>2. CASE j <= i
          <6>1. j \in 1 .. i /\ j \in 1 .. Len(k[p]) + 1
            BY <1>2, <5>1, <5>2
          <6> QED  BY <1>3, <1>4, <1>5, <3>2, <4>2, <6>1
        <5>3. CASE j > i
          <6>1. j \in i + 1 .. Len(k[p]) /\ j + 1 \in 1 .. Len(k[p]) + 1
            BY <1>2, <5>1, <5>3
          <6> QED  BY <1>3, <1>4, <1>5, <3>2, <4>2, <6>1
        <5> QED  BY <1>2, <5>1, <5>2, <5>3
      <4> QED  BY <4>1, <4>2
    <3>4. PICK h \in DOMAIN l[m] : l[m][h] = n
      BY <3>3
    <3>5. ParentIn(l, n) = m
      BY <1>10, <3>4, ParentIs, Zenon
    <3> QED  BY <3>1, <3>5
  <2> QED  BY <2>1, <2>2
<1> QED  BY <1>10, <1>12, <1>13, <1>14

(* A node is taken out of its place.                                       *)
LEMMA ForestRemove ==
    ASSUME NEW k, Forest(k), NEW p \in Nodes, NEW i \in DOMAIN k[p],
           NEW l, Shrunk(k, l, p, i)
    PROVE  /\ Forest(l) /\ ParentIn(l, k[p][i]) = None
           /\ \A n \in Nodes :
                  n # k[p][i] => ParentIn(l, n) = ParentIn(k, n)
<1> DEFINE r == l[p]
           e == k[p][i]
<1>1. k \in [Nodes -> Seq(Nodes)]
  BY DEF Forest
<1>2. k[p] \in Seq(Nodes) /\ i \in 1 .. Len(k[p]) /\ Len(k[p]) \in Nat
  BY <1>1
<1>3. /\ r \in Seq(Nodes) /\ Len(r) = Len(k[p]) - 1
      /\ \A j \in 1 .. i - 1 : r[j] = k[p][j]
      /\ \A j \in i .. Len(k[p]) - 1 : r[j] = k[p][j + 1]
  BY DEF Shrunk, Removed
<1> HIDE DEF r
<1>4. l \in [Nodes -> Seq(Nodes)] /\ l[p] = r
      /\ \A n \in Nodes : n # p => l[n] = k[n]
  BY <1>1, <1>3 DEF Shrunk, r
<1>5. DOMAIN r = 1 .. Len(k[p]) - 1
  BY <1>3
<1>6. ASSUME NEW n \in Nodes, NEW j \in DOMAIN l[n]
      PROVE  \/ n = p /\ j < i /\ j \in DOMAIN k[n] /\ l[n][j] = k[n][j]
             \/ /\ n = p /\ j >= i
                /\ j + 1 \in DOMAIN k[n] /\ l[n][j] = k[n][j + 1]
             \/ n # p /\ j \in DOMAIN k[n] /\ l[n][j] = k[n][j]
  <2>1. CASE n # p
    BY <1>4, <2>1
  <2>2. CASE n = p
    <3>1. j \in 1 .. Len(k[p]) - 1 /\ l[n][j] = r[j]
      BY <1>4, <1>5, <2>2
    <3>2. CASE j < i
      <4>1. j \in 1 .. i - 1 /\ j \in 1 .. Len(k[p])
        BY <1>2, <3>1, <3>2
      <4> QED  BY <1>2, <1>3, <2>2, <3>1, <3>2, <4>1
    <3>3. CASE j >= i
      <4>1. j \in i .. Len(k[p]) - 1 /\ j + 1 \in 1 .. Len(k[p])
        BY <1>2, <3>1, <3>3
      <4> QED  BY <1>2, <1>3, <2>2, <3>1, <3>3, <4>1
    <3> QED  BY <1>2, <3>1, <3>2, <3>3
  <2> QED  BY <2>1, <2>2
\* Where an element of the new list comes from.
<1>7. ASSUME NEW n \in Nodes, NEW j \in DOMAIN l[n]
      PROVE  \E x \in DOMAIN k[n] :
                /\ l[n][j] = k[n][x]
                /\ x = IF n = p /\ j >= i THEN j + 1 ELSE j
                /\ ~(n = p /\ x = i)
  <2>1. j \in Nat /\ i \in Nat
    BY <1>2, <1>4
  <2>2. (j < i => ~(j >= i) /\ j # i) /\ (j >= i => j + 1 # i)
    BY <2>1
  <2> QED  BY <1>6, <2>2
<1>8. \A n, m \in Nodes : \A j \in DOMAIN l[n], h \in DOMAIN l[m] :
          l[n][j] = l[m][h] => n = m /\ j = h
  <2> SUFFICES ASSUME NEW n \in Nodes, NEW m \in Nodes,
                      NEW j \in DOMAIN l[n], NEW h \in DOMAIN l[m],
                      l[n][j] = l[m][h]
               PROVE  n = m /\ j = h
    OBVIOUS
  <2>1. j \in Nat /\ h \in Nat
    BY <1>4
  <2>2. PICK x \in DOMAIN k[n] :
             /\ l[n][j] = k[n][x]
             /\ x = IF n = p /\ j >= i THEN j + 1 ELSE j
    BY <1>7
  <2>3. PICK y \in DOMAIN k[m] :
             /\ l[m][h] = k[m][y]
             /\ y = IF m = p /\ h >= i THEN h + 1 ELSE h
    BY <1>7
  <2>4. n = m /\ x = y
    <3>1. k[n][x] = k[m][y]
      BY <2>2, <2>3
    <3> QED  BY <3>1, OnePlace
  <2> QED  BY <1>2, <2>1, <2>2, <2>3, <2>4
<1>9. \A n \in Nodes : \A j \in DOMAIN l[n] : l[n][j] > n /\ l[n][j] # Root
  <2> SUFFICES ASSUME NEW n \in Nodes, NEW j \in DOMAIN l[n]
               PROVE  l[n][j] > n /\ l[n][j] # Root
    OBVIOUS
  <2>1. \A h \in DOMAIN k[n] : k[n][h] > n /\ k[n][h] # Root
    BY DEF Forest
  <2> QED  BY <1>7, <2>1
<1>10. Forest(l)
  BY <1>4, <1>8, <1>9 DEF Forest
<1>11. e \in Nodes /\ \A m \in Nodes : \A x \in DOMAIN k[m] :
          k[m][x] = e => m = p /\ x = i
  <2>1. e \in Nodes
    BY <1>2, ElementOfSeq
  <2> QED  BY <1>2, <2>1 DEF Forest
<1>12. ParentIn(l, e) = None
  <2>1. \A m \in Nodes : \A j \in DOMAIN l[m] : l[m][j] # e
    <3> SUFFICES ASSUME NEW m \in Nodes, NEW j \in DOMAIN l[m]
                 PROVE  l[m][j] # e
      OBVIOUS
    <3> QED  BY <1>7, <1>11
  <2> QED  BY <1>10, <1>11, <2>1, NoParent, Zenon
<1>13. ASSUME NEW n \in Nodes, n # e
       PROVE  ParentIn(l, n) = ParentIn(k, n)
  <2>1. CASE ParentIn(k, n) = None
    <3>1. \A m \in Nodes : \A j \in DOMAIN k[m] : k[m][j] # n
      BY <2>1, ParentOf, NodesAre
    <3>2. \A m \in Nodes : \A j \in DOMAIN l[m] : l[m][j] # n
      BY <1>7, <3>1
    <3>3. ParentIn(l, n) = None
      BY <1>10, <3>2, NoParent, Zenon
    <3> QED  BY <2>1, <3>3
  <2>2. CASE ParentIn(k, n) # None
    <3>1. PICK m \in Nodes : ParentIn(k, n) = m /\
               \E j \in DOMAIN k[m] : k[m][j] = n
      BY <2>2, ParentOf
    <3>2. PICK j \in DOMAIN k[m] : k[m][j] = n
      BY <3>1
    <3>3. \E h \in DOMAIN l[m] : l[m][h] = n
      <4>1. CASE m # p
        BY <1>4, <3>2, <4>1
      <4>2. CASE m = p
        <5>1. j \in 1 .. Len(k[p]) /\ j # i
          BY <1>2, <1>13, <3>2, <4>2
        <5>2. CASE j < i
          <6>1. j \in 1 .. i - 1 /\ j \in 1 .. Len(k[p]) - 1
            BY <1>2, <5>1, <5>2
          <6> QED  BY <1>3, <1>4, <1>5, <3>2, <4>2, <6>1
        <5>3. CASE j > i
          <6>1. /\ j - 1 \in i .. Len(k[p]) - 1 /\ (j - 1) + 1 = j
                /\ j - 1 \in 1 .. Len(k[p]) - 1
            BY <1>2, <5>1, <5>3
          <6>2. r[j - 1] = k[p][(j - 1) + 1]
            BY <1>3, <6>1
          <6> QED  BY <1>4, <1>5, <3>2, <4>2, <6>1, <6>2
        <5> QED  BY <1>2, <5>1, <5>2, <5>3
      <4> QED  BY <4>1, <4>2
    <3>4. PICK h \in DOMAIN l[m] : l[m][h] = n
      BY <3>3
    <3>5. ParentIn(l, n) = m
      BY <1>10, <3>4, ParentIs, Zenon
    <3> QED  BY <3>1, <3>5
  <2> QED  BY <2>1, <2>2
<1> QED  BY <1>10, <1>12, <1>13

-----------------------------------------------------------------------------
(* Siblings.                                                               *)

\* Siblings, Place and Next in the lists k.
SiblingsIn(k, n) ==
    IF ParentIn(k, n) = None THEN <<n>> ELSE k[ParentIn(k, n)]
PlaceIn(k, n) ==
    CHOOSE i \in DOMAIN SiblingsIn(k, n) : SiblingsIn(k, n)[i] = n
NextIn(k, n) ==
    IF PlaceIn(k, n) = Len(SiblingsIn(k, n)) THEN None
    ELSE SiblingsIn(k, n)[PlaceIn(k, n) + 1]

(* The operators of the model are these, in the lists there are now.       *)
LEMMA InKids ==
    /\ \A n : /\ Parent(n) = ParentIn(kids, n)
              /\ Siblings(n) = SiblingsIn(kids, n)
              /\ Place(n) = PlaceIn(kids, n)
              /\ Next(n) = NextIn(kids, n)
    /\ Depth = DepthIn(kids)
<1>1. \A n : Parent(n) = ParentIn(kids, n)
  BY DEF Parent, ParentIn
<1>2. \A n : Siblings(n) = SiblingsIn(kids, n)
  BY <1>1 DEF Siblings, SiblingsIn
<1>3. \A n : Place(n) = PlaceIn(kids, n)
  BY <1>2 DEF Place, PlaceIn
<1>4. \A n : Next(n) = NextIn(kids, n)
  BY <1>2, <1>3 DEF Next, NextIn
<1>5. Depth = DepthIn(kids)
  BY Zenon DEF Depth, DepthIn, Parent, ParentIn
<1> QED  BY <1>1, <1>2, <1>3, <1>4, <1>5

(* A node is one of its siblings, and they have one parent.                *)
LEMMA SiblingsAre ==
    ASSUME NEW k, Forest(k), NEW n \in Nodes
    PROVE  /\ SiblingsIn(k, n) \in Seq(Nodes)
           /\ \E i \in DOMAIN SiblingsIn(k, n) : SiblingsIn(k, n)[i] = n
           /\ \A i \in DOMAIN SiblingsIn(k, n) :
                /\ SiblingsIn(k, n)[i] \in Nodes
                /\ ParentIn(k, SiblingsIn(k, n)[i]) = ParentIn(k, n)
                /\ ParentIn(k, n) = None => SiblingsIn(k, n)[i] = n
           /\ \A i, j \in DOMAIN SiblingsIn(k, n) :
                SiblingsIn(k, n)[i] = SiblingsIn(k, n)[j] => i = j
<1>1. CASE ParentIn(k, n) = None
  <2> DEFINE s == <<n>>
  <2>1. /\ s \in Seq(Nodes) /\ DOMAIN s = 1 .. 1 /\ s[1] = n
    OBVIOUS
  <2>2. SiblingsIn(k, n) = s
    BY <1>1 DEF SiblingsIn
  <2> HIDE DEF s
  <2> QED  BY <1>1, <2>1, <2>2
<1>2. CASE ParentIn(k, n) # None
  <2> DEFINE p == ParentIn(k, n)
  <2>1. p \in Nodes /\ \E i \in DOMAIN k[p] : k[p][i] = n
    BY <1>2, ParentOf
  <2>2. SiblingsIn(k, n) = k[p]
    BY <1>2 DEF SiblingsIn
  <2> HIDE DEF p
  <2>3. k[p] \in Seq(Nodes)
    BY <2>1 DEF Forest
  <2>4. \A i \in DOMAIN k[p] : k[p][i] \in Nodes /\ ParentIn(k, k[p][i]) = p
    BY <2>1, ParentIs
  <2>5. \A i, j \in DOMAIN k[p] : k[p][i] = k[p][j] => i = j
    BY <2>1 DEF Forest
  <2> QED  BY <1>2, <2>1, <2>2, <2>3, <2>4, <2>5 DEF p
<1> QED  BY <1>1, <1>2

(* The place of a node, and what stands before and behind it.              *)
LEMMA PlaceIs ==
    ASSUME NEW k, Forest(k), NEW n \in Nodes
    PROVE  /\ PlaceIn(k, n) \in DOMAIN SiblingsIn(k, n)
           /\ SiblingsIn(k, n)[PlaceIn(k, n)] = n
           /\ PlaceIn(k, n) \in 1 .. Len(SiblingsIn(k, n))
           /\ \A i \in DOMAIN SiblingsIn(k, n) :
                SiblingsIn(k, n)[i] = n => i = PlaceIn(k, n)
<1> DEFINE s == SiblingsIn(k, n)
<1>1. /\ s \in Seq(Nodes) /\ \E i \in DOMAIN s : s[i] = n
      /\ \A i, j \in DOMAIN s : s[i] = s[j] => i = j
  BY SiblingsAre
<1> HIDE DEF s
<1>2. PlaceIn(k, n) = CHOOSE i \in DOMAIN s : s[i] = n
  BY DEF PlaceIn, s
<1>3. PlaceIn(k, n) \in DOMAIN s /\ s[PlaceIn(k, n)] = n
  BY <1>1, <1>2
<1>4. PlaceIn(k, n) \in 1 .. Len(s)
  BY <1>1, <1>3
<1> QED  BY <1>1, <1>3, <1>4 DEF s

(* What stands behind a node is a sibling, and not the node.               *)
LEMMA NextIs ==
    ASSUME NEW k, Forest(k), NEW n \in Nodes, NextIn(k, n) # None
    PROVE  /\ \E i \in DOMAIN SiblingsIn(k, n) :
                  SiblingsIn(k, n)[i] = NextIn(k, n)
           /\ NextIn(k, n) # n
<1> DEFINE s == SiblingsIn(k, n)
           i == PlaceIn(k, n)
<1>1. /\ s \in Seq(Nodes) /\ i \in 1 .. Len(s)
      /\ \A j \in DOMAIN s : s[j] = n => j = i
  BY SiblingsAre, PlaceIs
<1>2. i # Len(s) /\ NextIn(k, n) = s[i + 1]
  BY DEF NextIn
<1> HIDE DEF s, i
<1>3. i + 1 \in DOMAIN s /\ i + 1 # i
  BY <1>1, <1>2
<1>4. s[i + 1] # n
  BY <1>1, <1>3
<1> QED  BY <1>2, <1>3, <1>4 DEF s

-----------------------------------------------------------------------------
(* The invariant.                                                          *)

Real == at["real"]

\* V are the trees in playlist files that were not read: they are in no
\* list.  A file whose tree is in one is being replaced, or gone.
Unread(k, V, e) ==
    /\ \A v \in V : ParentIn(k, v) = None
    /\ \A n \in Nodes : tree.list[n] # None =>
           \/ tree.list[n] \in V
           \/ n = e
           \/ ParentIn(k, n) = None /\ n \notin V

TreeInv ==
    /\ tree \in Trees /\ Forest(kids)
    /\ \A n \in Nodes : tree.files[n] > 0 => kids[n] = <<>>
    /\ \E V \in SUBSET Nodes : Unread(kids, V, entry)

\* The iterator is on a node below the root, its stack as deep.
PathInv ==
    /\ at \in [Iters -> Nodes \cup {None}] /\ loop \in [Iters -> Int]
    /\ stack \in [Iters -> Seq(Int)] /\ who = "real"
    /\ Real = None => pc = "step"
    /\ pc = "down" => kids[Real] # <<>>
    /\ pc = "playlist" => tree.list[Real] # None
    /\ Real # None => Placed(kids, Real)
    /\ Len(stack["real"]) = DepthIn(kids)[Real]

\* Main has an entry of the tree.
Held == \/ pc \in {"name", "playing", "playlist"}
        \/ pc = "returned" /\ result = "ENTRY"

\* One chosen at random is marked.
MarkInv ==
    tree.shuffle /\ Held /\ ParentIn(kids, Real) = Root => Real \in played

\* While a playlist file is replaced, the iterator goes on from it and does
\* not come back.
EntryInv ==
    /\ site = "list" /\ pc \in {"step", "up", "down", "returned"} =>
           entry # None
    /\ entry # None =>
        /\ entry \in Nodes /\ tree.list[entry] # None
        /\ ParentIn(kids, entry) # None /\ Real # None
        /\ site = "list" /\ pc \in {"step", "down", "returned"}
        /\ tree.shuffle /\ ParentIn(kids, entry) = Root => entry \in played
        /\ ParentIn(kids, entry) <= ParentIn(kids, Real)
        /\ pc = "step" =>
               IF Real = entry THEN d = 1 /\ NextIn(kids, entry) # None
               ELSE d = 0
        /\ pc = "returned" /\ result = "ENTRY" => Real # entry

IInv == TreeInv /\ PathInv /\ MarkInv /\ EntryInv

(* What the assumptions say of the tree that was read.                     *)
LEMMA TreeIs ==
    ASSUME tree \in Trees
    PROVE  /\ tree.list \in [Nodes -> Nodes \cup {None}]
           /\ tree.loops \in [Nodes -> Int]
           /\ tree.keys \subseteq {<<"step", 1>>, <<"step", -1>>,
                                   <<"up", 1>>, <<"up", -1>>}
           /\ \A n \in Nodes : tree.files[n] > 0 => tree.kids[n] = <<>>
           /\ \A n \in Nodes : tree.list[n] # None =>
                /\ tree.files[n] > 0 /\ tree.list[n] # Root
                /\ tree.list[n] \in Nodes /\ tree.list[n] > n
                /\ ParentIn(tree.kids, tree.list[n]) = None
                /\ \A m \in Nodes : tree.list[n] = tree.list[m] => n = m
           /\ Forest(tree.kids)
<1>1. tree \in TreeType
  BY TreesAssumption
<1>2. /\ tree.list \in [Nodes -> Nodes \cup {None}]
      /\ tree.kids \in [Nodes -> Seq(Nodes)]
      /\ tree.loops \in [Nodes -> Nat \cup {-1}]
      /\ tree.keys \subseteq {<<"step", 1>>, <<"step", -1>>,
                              <<"up", 1>>, <<"up", -1>>}
  BY <1>1 DEF TreeType
<1>3. tree.loops \in [Nodes -> Int]
  BY <1>2
<1>4. \A n \in Nodes : /\ tree.list[n] = None \/ tree.list[n] > n
                       /\ \A i \in DOMAIN tree.kids[n] : tree.kids[n][i] > n
  BY TreesAssumption
<1>5. \A n, m \in Nodes :
        /\ \A i \in DOMAIN tree.kids[n] :
            /\ tree.kids[n][i] # Root /\ tree.kids[n][i] # tree.list[m]
            /\ \A j \in DOMAIN tree.kids[m] :
                tree.kids[n][i] = tree.kids[m][j] => n = m /\ i = j
        /\ tree.files[n] > 0 => tree.kids[n] = <<>>
        /\ tree.list[n] # None =>
            /\ tree.files[n] > 0 /\ tree.list[n] # Root
            /\ tree.list[n] = tree.list[m] => n = m
  BY ShapeAssumption
<1>6. Forest(tree.kids)
  BY <1>2, <1>4, <1>5 DEF Forest
<1>7. ASSUME NEW n \in Nodes, tree.list[n] # None
      PROVE  /\ tree.list[n] \in Nodes /\ tree.list[n] > n
             /\ ParentIn(tree.kids, tree.list[n]) = None
  <2>1. tree.list[n] \in Nodes /\ tree.list[n] > n
    BY <1>2, <1>4, <1>7
  <2>2. \A m \in Nodes : \A i \in DOMAIN tree.kids[m] :
            tree.kids[m][i] # tree.list[n]
    BY <1>5
  <2> QED  BY <1>6, <2>1, <2>2, NoParent
<1> QED  BY <1>2, <1>3, <1>5, <1>6, <1>7

(* It holds at first.                                                      *)
LEMMA FirstInv == Init => IInv
<1> SUFFICES ASSUME Init PROVE IInv
  OBVIOUS
<1>1. tree \in Trees /\ kids = tree.kids /\ entry = None
  BY DEF Init
<1>2. Forest(kids)
  BY <1>1, TreeIs
<1> DEFINE V == {tree.list[n] : n \in {m \in Nodes : tree.list[m] # None}}
<1>3. V \in SUBSET Nodes /\ Unread(kids, V, entry)
  BY <1>1, TreeIs DEF Unread
<1>4. TreeInv
  BY <1>1, <1>2, <1>3, TreeIs DEF TreeInv
<1>5. Real = None /\ DepthIn(kids)[Real] = 0
  BY <1>2, DepthIs DEF Init, Real, Iters
<1>6. PathInv
  BY <1>5, NodesAre DEF PathInv, Init, Iters, None
<1>7. MarkInv /\ EntryInv
  BY DEF Init, MarkInv, EntryInv, Held
<1> QED  BY <1>4, <1>6, <1>7 DEF IInv

(* No step but those of handle_playlist changes the tree.                  *)
LEMMA TreeStays ==
    ASSUME TreeInv, UNCHANGED <<tree, kids, entry>>
    PROVE  TreeInv'
  BY DEF TreeInv, Unread

(* The iterator stays where it is.                                         *)
LEMMA PathStays ==
    ASSUME PathInv, UNCHANGED <<tree, kids, at, loop, stack, who>>,
           Real = None => pc' = "step",
           pc' # "down", pc' = "playlist" => tree.list[Real] # None
    PROVE  PathInv'
<1>1. Real' = Real
  BY DEF Real
<1> QED  BY <1>1 DEF PathInv, Placed, UpClosed

(* Siblings are as deep, and below the root.                               *)
LEMMA SiblingPlaced ==
    ASSUME NEW k, Forest(k), NEW n \in Nodes, Placed(k, n),
           NEW i \in DOMAIN SiblingsIn(k, n)
    PROVE  LET m == SiblingsIn(k, n)[i]
           IN /\ m \in Nodes /\ Placed(k, m)
              /\ DepthIn(k)[m] = DepthIn(k)[n]
<1> DEFINE m == SiblingsIn(k, n)[i]
<1>1. /\ m \in Nodes /\ ParentIn(k, m) = ParentIn(k, n)
      /\ ParentIn(k, n) = None => m = n
  BY SiblingsAre
<1> HIDE DEF m
<1>2. PICK S \in SUBSET Nodes : n \in S /\ UpClosed(k, S)
  BY DEF Placed
<1>3. CASE ParentIn(k, n) = None
  BY <1>1, <1>3 DEF m
<1>4. CASE ParentIn(k, n) # None
  <2>1. n # Root /\ m # Root
    BY <1>1, <1>4, RootParent
  <2>2. UpClosed(k, S \cup {m})
    BY <1>1, <1>2, <2>1 DEF UpClosed
  <2>3. Placed(k, m)
    BY <1>1, <2>2 DEF Placed
  <2>4. DepthIn(k)[m] = DepthIn(k)[n]
    BY <1>1, <2>1, DepthIs
  <2> QED  BY <1>1, <2>3, <2>4 DEF m
<1> QED  BY <1>3, <1>4

(* The iterator moves to a sibling.                                        *)
LEMMA PathSibling ==
    ASSUME TreeInv, PathInv, Real # None,
           NEW i \in DOMAIN SiblingsIn(kids, Real),
           NEW m, m = SiblingsIn(kids, Real)[i],
           at' = Set(at, "real", m), loop' \in [Iters -> Int],
           UNCHANGED <<tree, kids, stack, who>>,
           pc' = "down" => kids[m] # <<>>, pc' # "playlist"
    PROVE  PathInv'
<1>1. Forest(kids) /\ Real \in Nodes /\ Placed(kids, Real)
  BY DEF TreeInv, PathInv, Real, Iters
<1>2. /\ m \in Nodes /\ Placed(kids, m)
      /\ DepthIn(kids)[m] = DepthIn(kids)[Real]
  BY <1>1, SiblingPlaced
<1>3. Real' = m /\ at' \in [Iters -> Nodes \cup {None}]
  BY <1>2 DEF Real, Set, PathInv, Iters
<1>4. Placed(kids, m)'
  BY <1>2, <1>3 DEF Placed, UpClosed
<1>5. m # None
  BY <1>2, NodesAre
<1>6. Placed(kids', Real')
  BY <1>2, <1>3
<1> QED  BY <1>2, <1>3, <1>5, <1>6 DEF PathInv

-----------------------------------------------------------------------------
(* Moving the iterator.                                                    *)

(* A step leads to a sibling, by itself or at random.                      *)
LEMMA TargetsAre ==
    ASSUME TreeInv, PathInv, Real # None, NEW n \in Targets
    PROVE  /\ \E i \in DOMAIN SiblingsIn(kids, Real) :
                  n = SiblingsIn(kids, Real)[i]
           /\ Random => n \notin played
<1>1. Here = Real /\ Forest(kids) /\ Real \in Nodes
  BY DEF Here, Real, PathInv, TreeInv, Iters
<1> DEFINE s == SiblingsIn(kids, Real)
           h == PlaceIn(kids, Real)
<1>2. Siblings(Real) = s /\ Place(Real) = h
  BY InKids
<1>3. /\ s \in Seq(Nodes) /\ h \in 1 .. Len(s) /\ s[h] = Real
  BY <1>1, SiblingsAre, PlaceIs
<1> HIDE DEF s, h
<1>4. CASE Random
  <2>1. n \in ToSet(s) /\ n \notin played
    BY <1>1, <1>2, <1>4 DEF Targets, RandomTargets
  <2> QED  BY <2>1 DEF ToSet, s
<1>5. CASE ~Random
  <2>1. n = Target /\ n # None
    BY <1>5 DEF Targets
  <2>2. n \in {Next(Real), Prev(Real), Real}
    BY <1>1, <2>1 DEF Target
  <2>3. CASE n = Next(Real)
    <3>1. h # Len(s) /\ n = s[h + 1]
      BY <1>2, <2>1, <2>3 DEF Next
    <3>2. h + 1 \in DOMAIN s
      BY <1>3, <3>1
    <3> QED  BY <1>5, <3>1, <3>2 DEF s
  <2>4. CASE n = Prev(Real)
    <3>1. h # 1 /\ n = s[h - 1]
      BY <1>2, <2>1, <2>4 DEF Prev
    <3>2. h - 1 \in DOMAIN s
      BY <1>3, <3>1
    <3> QED  BY <1>5, <3>1, <3>2 DEF s
  <2>5. CASE n = Real
    <3>1. h \in DOMAIN s
      BY <1>3
    <3> QED  BY <1>3, <1>5, <2>5, <3>1 DEF s
  <2> QED  BY <2>2, <2>3, <2>4, <2>5
<1> QED  BY <1>4, <1>5

(* From a playlist file that is replaced a step leads on to another node.  *)
LEMMA EntryTargets ==
    ASSUME TreeInv, PathInv, EntryInv, entry # None, pc = "step"
    PROVE  /\ \A n \in Targets : n # entry
           /\ ~Random => Targets # {}
<1>1. Here = Real /\ Forest(kids) /\ Real \in Nodes /\ entry \in Nodes
  BY DEF Here, Real, PathInv, TreeInv, Iters, EntryInv
<1>2. CASE Random
  <2>1. tree.shuffle /\ ParentIn(kids, Real) = Root
    BY <1>1, <1>2, InKids DEF Random
  <2>2. ASSUME NEW n \in Targets PROVE n # entry
    <3>1. PICK i \in DOMAIN SiblingsIn(kids, Real) :
              n = SiblingsIn(kids, Real)[i]
      BY <1>1, TargetsAre, NodesAre
    <3>2. ParentIn(kids, n) = Root
      BY <1>1, <2>1, <3>1, SiblingsAre
    <3>3. n \notin played
      BY <1>1, <1>2, TargetsAre, NodesAre
    <3> QED  BY <2>1, <3>2, <3>3 DEF EntryInv
  <2> QED  BY <1>2, <2>2
<1>3. CASE ~Random /\ Real = entry
  <2>1. d = 1 /\ NextIn(kids, entry) # None
    BY <1>3 DEF EntryInv
  <2>2. Target = NextIn(kids, entry)
    BY <1>1, <1>3, <2>1, InKids DEF Target
  <2>3. NextIn(kids, entry) # entry
    BY <1>1, <2>1, NextIs
  <2> QED  BY <1>3, <2>1, <2>2, <2>3 DEF Targets
<1>4. CASE ~Random /\ Real # entry
  <2>1. d = 0
    BY <1>4 DEF EntryInv
  <2>2. Target = Real
    BY <1>1, <2>1 DEF Target
  <2>3. Real # None
    BY <1>1, NodesAre
  <2> QED  BY <1>4, <2>2, <2>3 DEF Targets
<1> QED  BY <1>2, <1>3, <1>4

\* In step, with a node to step from.
LEMMA InStepIs ==
    ASSUME IInv, InStep
    PROVE  /\ Here = Real /\ Real \in Nodes /\ Real # None /\ Forest(kids)
           /\ pc = "step" /\ Placed(kids, Real)
           /\ UNCHANGED <<tree, kids, entry, site, who>>
  BY NodesAre
  DEF IInv, InStep, Here, Real, PathInv, TreeInv, Iters, Moving, mainVars

(* An iterator that is nowhere starts from the root.                       *)
LEMMA StepFirstInv == IInv /\ StepFirst => IInv'
<1> SUFFICES ASSUME IInv, StepFirst PROVE IInv'
  OBVIOUS
<1>1. /\ pc = "step" /\ Real = None /\ pc' = "step"
      /\ at' = Set(at, "real", Root)
      /\ UNCHANGED <<tree, kids, entry, site, who, loop, stack>>
  BY DEF StepFirst, Here, IInv, PathInv, Real, Moving, mainVars
<1>2. Real' = Root /\ at' \in [Iters -> Nodes \cup {None}]
  BY <1>1, NodesAre DEF Set, IInv, PathInv, Iters, Real
<1>3. Forest(kids) /\ TreeInv'
  BY <1>1, TreeStays DEF IInv, TreeInv
<1>4. DepthIn(kids)[Root] = DepthIn(kids)[None]
  BY <1>3, DepthIs
<1>5. Placed(kids, Root)
  <2>1. {Root} \in SUBSET Nodes /\ Root \in {Root} /\ UpClosed(kids, {Root})
    BY NodesAre DEF UpClosed
  <2> QED  BY <2>1 DEF Placed
<1>6. PathInv'
  BY <1>1, <1>2, <1>4, <1>5, NodesAre DEF IInv, PathInv
<1>7. entry = None /\ site # "list"
  BY <1>1 DEF IInv, EntryInv
<1>8. MarkInv' /\ EntryInv'
  BY <1>1, <1>7 DEF MarkInv, Held, EntryInv
<1> QED  BY <1>3, <1>6, <1>8 DEF IInv

(* A step that finds a node to open leads there, to go down next.          *)
LEMMA StepIntoInv == IInv /\ StepInto => IInv'
<1> SUFFICES ASSUME IInv, StepInto PROVE IInv'
  OBVIOUS
<1>1. /\ Here = Real /\ Real \in Nodes /\ Real # None /\ Forest(kids)
      /\ pc = "step" /\ UNCHANGED <<tree, kids, entry, site, who>>
  BY InStepIs DEF StepInto
<1>2. PICK n \in Targets : Opens(n) /\ at' = Set(at, "real", n)
  BY DEF StepInto, IInv, PathInv
<1>3. PICK i \in DOMAIN SiblingsIn(kids, Real) :
          n = SiblingsIn(kids, Real)[i]
  BY <1>1, TargetsAre DEF IInv
<1>4. pc' = "down" /\ UNCHANGED <<loop, stack, played>> /\ kids[n] # <<>>
  BY <1>2 DEF StepInto, Opens
<1>5. PathInv'
  BY <1>1, <1>2, <1>3, <1>4, PathSibling DEF IInv, PathInv
<1>6. TreeInv'
  BY <1>1, TreeStays DEF IInv
<1>7. MarkInv'
  BY <1>4 DEF MarkInv, Held
<1>8. Real' = n
  BY <1>2 DEF Set, IInv, PathInv, Iters, Real
<1>9. n # None /\ ParentIn(kids, n) = ParentIn(kids, Real)
  BY <1>1, <1>3, SiblingsAre, NodesAre
<1>10. EntryInv'
  BY <1>1, <1>4, <1>8, <1>9 DEF IInv, EntryInv
<1> QED  BY <1>5, <1>6, <1>7, <1>10 DEF IInv

(* A step that finds an entry returns it.                                  *)
LEMMA StepEntryInv == IInv /\ StepEntry => IInv'
<1> SUFFICES ASSUME IInv, StepEntry PROVE IInv'
  OBVIOUS
<1>1. /\ Here = Real /\ Real \in Nodes /\ Real # None /\ Forest(kids)
      /\ pc = "step" /\ UNCHANGED <<tree, kids, entry, site, who>>
  BY InStepIs DEF StepEntry
<1>2. PICK n \in Targets :
          /\ at' = Set(at, "real", n)
          /\ played' = IF Random THEN played \cup {n} ELSE played
  BY DEF StepEntry, IInv, PathInv
<1>3. PICK i \in DOMAIN SiblingsIn(kids, Real) :
          n = SiblingsIn(kids, Real)[i]
  BY <1>1, TargetsAre DEF IInv
<1>4. pc' = "returned" /\ UNCHANGED <<loop, stack>>
  BY DEF StepEntry, Returns
<1>5. PathInv'
  BY <1>1, <1>2, <1>3, <1>4, PathSibling DEF IInv, PathInv
<1>6. TreeInv'
  BY <1>1, TreeStays DEF IInv
<1>7. Real' = n
  BY <1>2 DEF Set, IInv, PathInv, Iters, Real
<1>8. n # None /\ ParentIn(kids, n) = ParentIn(kids, Real)
  BY <1>1, <1>3, SiblingsAre, NodesAre
<1>9. Random <=> tree.shuffle /\ ParentIn(kids, Real) = Root
  BY <1>1, InKids DEF Random
<1>10. MarkInv'
  BY <1>1, <1>2, <1>7, <1>8, <1>9 DEF MarkInv
<1>11. entry # None => n # entry
  BY <1>1, <1>2, EntryTargets DEF IInv
<1>12. EntryInv'
  BY <1>1, <1>2, <1>4, <1>7, <1>8, <1>11 DEF IInv, EntryInv
<1> QED  BY <1>5, <1>6, <1>10, <1>12 DEF IInv

(* A random step that finds nothing left returns the end.                  *)
LEMMA StepNoneLeftInv == IInv /\ StepNoneLeft => IInv'
<1> SUFFICES ASSUME IInv, StepNoneLeft PROVE IInv'
  OBVIOUS
<1>1. /\ Real # None /\ pc = "step"
      /\ UNCHANGED <<tree, kids, entry, site, who>>
  BY InStepIs DEF StepNoneLeft
<1>2. /\ pc' = "returned" /\ result' = "END"
      /\ UNCHANGED <<at, loop, stack, played>>
  BY DEF StepNoneLeft, Returns
<1>3. TreeInv' /\ PathInv' /\ Real' = Real
  BY <1>1, <1>2, TreeStays, PathStays DEF IInv, Real
<1>4. MarkInv' /\ EntryInv'
  BY <1>1, <1>2, <1>3 DEF MarkInv, Held, IInv, EntryInv
<1> QED  BY <1>3, <1>4 DEF IInv

(* A step that plays the group again leads to its first or last child.     *)
LEMMA StepLoopInv == IInv /\ StepLoop => IInv'
<1> SUFFICES ASSUME IInv, StepLoop PROVE IInv'
  OBVIOUS
<1>1. /\ Here = Real /\ Real \in Nodes /\ Real # None /\ Forest(kids)
      /\ pc = "step" /\ UNCHANGED <<tree, kids, entry, site, who>>
  BY InStepIs DEF StepLoop
<1> DEFINE s == SiblingsIn(kids, Real)
           m == IF d > 0 THEN Head(s) ELSE Last(s)
<1>2. entry = None /\ site # "list"
  <2>1. ~Random /\ Targets = {}
    BY DEF StepLoop
  <2> QED  BY <1>1, <2>1, EntryTargets DEF IInv, EntryInv
<1>3. /\ at' = Set(at, "real", m) /\ loop' = Set(loop, "real", LoopOn)
      /\ UNCHANGED <<stack, pc, played>>
  BY <1>1, InKids DEF StepLoop, IInv, PathInv
<1>4. \E i \in DOMAIN s : m = s[i]
  <2>1. s \in Seq(Nodes) /\ s # <<>>
    BY <1>1, SiblingsAre
  <2> HIDE DEF s
  <2>2. 1 \in DOMAIN s /\ Len(s) \in DOMAIN s
    BY <2>1
  <2>3. Head(s) = s[1] /\ Last(s) = s[Len(s)]
    BY <2>1 DEF Last
  <2> QED  BY <2>2, <2>3
<1> HIDE DEF m
<1>5. loop' \in [Iters -> Int]
  <2>1. loop \in [Iters -> Int] /\ loop["real"] \in Int /\ who = "real"
    BY DEF IInv, PathInv, Iters
  <2>2. LoopOn \in Int
    BY <2>1 DEF LoopOn
  <2> QED  BY <1>3, <2>1, <2>2 DEF Set
<1>6. PathInv'
  BY <1>1, <1>3, <1>4, <1>5, PathSibling DEF IInv, PathInv
<1>7. TreeInv' /\ MarkInv' /\ EntryInv'
  BY <1>1, <1>2, <1>3, TreeStays DEF IInv, MarkInv, Held, EntryInv
<1> QED  BY <1>6, <1>7 DEF IInv

(* A step out of a group leaves the iterator there, to go up next.         *)
LEMMA StepUpInv == IInv /\ StepUp => IInv'
<1> SUFFICES ASSUME IInv, StepUp PROVE IInv'
  OBVIOUS
<1>1. /\ Real # None /\ pc = "step"
      /\ UNCHANGED <<tree, kids, entry, site, who>>
  BY InStepIs DEF StepUp
<1>2. entry = None /\ site # "list"
  <2>1. ~Random /\ Targets = {}
    BY DEF StepUp
  <2> QED  BY <1>1, <2>1, EntryTargets DEF IInv, EntryInv
<1>3. pc' = "up" /\ UNCHANGED <<at, loop, stack, played>>
  BY DEF StepUp
<1>4. TreeInv' /\ PathInv'
  BY <1>1, <1>3, TreeStays, PathStays DEF IInv
<1>5. MarkInv' /\ EntryInv'
  BY <1>1, <1>2, <1>3 DEF MarkInv, Held, EntryInv
<1> QED  BY <1>4, <1>5 DEF IInv

(* At the root the end is returned.                                        *)
LEMMA UpEndInv == IInv /\ UpEnd => IInv'
<1> SUFFICES ASSUME IInv, UpEnd PROVE IInv'
  OBVIOUS
<1>1. /\ pc = "up" /\ pc' = "returned" /\ result' = "END"
      /\ UNCHANGED <<tree, kids, entry, site, who, at, loop, stack, played>>
  BY DEF UpEnd, InUp, Returns, Moving, mainVars
<1>2. Real # None /\ entry = None /\ site # "list"
  BY <1>1 DEF IInv, PathInv, EntryInv
<1>3. TreeInv' /\ PathInv'
  BY <1>1, <1>2, TreeStays, PathStays DEF IInv
<1>4. MarkInv' /\ EntryInv'
  BY <1>1, <1>2 DEF MarkInv, Held, EntryInv
<1> QED  BY <1>3, <1>4 DEF IInv

(* Leaving a group: one less above the iterator, one less on the stack.    *)
LEMMA UpInv == IInv /\ Up => IInv'
<1> SUFFICES ASSUME IInv, Up PROVE IInv'
  OBVIOUS
<1>1. /\ pc = "up" /\ pc' = "step"
      /\ UNCHANGED <<tree, kids, entry, site, who>>
  BY DEF Up, InUp, Moving, mainVars
<1>2. /\ Real # None /\ entry = None /\ site # "list" /\ who = "real"
      /\ Real \in Nodes /\ Here = Real /\ Forest(kids) /\ Placed(kids, Real)
  BY <1>1 DEF IInv, PathInv, TreeInv, EntryInv, Here, Real, Iters
<1> DEFINE p == ParentIn(kids, Real)
           s == stack["real"]
<1>3. p # None /\ p \in Nodes /\ Real # Root
  <2>1. p # ParentIn(kids, Root)
    BY <1>2, InKids DEF Up
  <2> QED  BY <1>2, <2>1, RootParent, ParentOf
<1>4. Placed(kids, p)
  BY <1>2, <1>3 DEF Placed, UpClosed
<1>5. DepthIn(kids)[Real] = 1 + DepthIn(kids)[p] /\ DepthIn(kids)[p] \in Nat
  BY <1>2, <1>3, DepthIs, DepthType
<1>6. /\ s \in Seq(Int) /\ s # <<>> /\ stack' = Set(stack, "real", Front(s))
      /\ loop' = Set(loop, "real", Last(s)) /\ at' = Set(at, "real", p)
  BY <1>2, InKids DEF Up, UpPop, IInv, PathInv, Iters
<1> HIDE DEF p, s
<1>7. Front(s) \in Seq(Int) /\ Len(Front(s)) = Len(s) - 1 /\ Last(s) \in Int
  <2>1. Len(s) \in Nat \ {0}
    BY <1>6
  <2>2. \A j \in 1 .. Len(s) - 1 : s[j] \in Int
    BY <1>6, <2>1
  <2>3. /\ SubSeq(s, 1, Len(s) - 1) \in Seq(Int)
        /\ Len(SubSeq(s, 1, Len(s) - 1)) =
               IF 1 <= Len(s) - 1 THEN (Len(s) - 1) - 1 + 1 ELSE 0
    BY <2>1, <2>2, SubSeqProperties
  <2>4. \A n \in Nat \ {0} :
            (IF 1 <= n - 1 THEN (n - 1) - 1 + 1 ELSE 0) = n - 1
    OBVIOUS
  <2>5. Len(SubSeq(s, 1, Len(s) - 1)) = Len(s) - 1
    BY <2>1, <2>3, <2>4, Zenon
  <2> QED  BY <1>6, <2>1, <2>3, <2>5 DEF Front, Last
<1>8. /\ Real' = p /\ stack'["real"] = Front(s)
      /\ at' \in [Iters -> Nodes \cup {None}]
      /\ loop' \in [Iters -> Int] /\ stack' \in [Iters -> Seq(Int)]
  BY <1>3, <1>6, <1>7 DEF IInv, PathInv, Set, Iters, Real
<1>9. Len(Front(s)) = DepthIn(kids)[p]
  BY <1>5, <1>6, <1>7 DEF IInv, PathInv, s
<1>10. PathInv'
  BY <1>1, <1>2, <1>3, <1>4, <1>8, <1>9 DEF PathInv
<1>11. TreeInv' /\ MarkInv' /\ EntryInv'
  BY <1>1, <1>2, TreeStays DEF IInv, MarkInv, Held, EntryInv
<1> QED  BY <1>10, <1>11 DEF IInv

(* Entering a group.                                                       *)
LEMMA DownInv == IInv /\ Down => IInv'
<1> SUFFICES ASSUME IInv, Down PROVE IInv'
  OBVIOUS
<1>1. /\ pc = "down" /\ pc' = "step" /\ d' = 0
      /\ UNCHANGED <<tree, kids, entry, site, who, played>>
  BY DEF Down, Moving, mainVars
<1>2. /\ Real # None /\ who = "real" /\ tree \in Trees
      /\ Real \in Nodes /\ Here = Real /\ Forest(kids) /\ Placed(kids, Real)
      /\ kids[Real] \in Seq(Nodes) /\ kids[Real] # <<>>
  BY <1>1 DEF IInv, PathInv, TreeInv, Here, Real, Iters, Forest
<1> DEFINE c == kids[Real]
           m == IF d >= 0 THEN Head(c) ELSE Last(c)
           s == stack["real"]
<1>3. /\ s \in Seq(Int) /\ loop["real"] \in Int
      /\ stack' = Set(stack, "real", Append(s, loop["real"]))
      /\ loop' = Set(loop, "real", tree.loops[Real] - 1)
      /\ at' = Set(at, "real", m)
  BY <1>2 DEF Down, IInv, PathInv, Iters
<1>4. PICK i \in DOMAIN c : m = c[i]
  <2> HIDE DEF c
  <2>1. 1 \in DOMAIN c /\ Len(c) \in DOMAIN c
    BY <1>2 DEF c
  <2>2. Head(c) = c[1] /\ Last(c) = c[Len(c)]
    BY <1>2 DEF c, Last
  <2> QED  BY <2>1, <2>2
<1> HIDE DEF m
<1>5. /\ m \in Nodes /\ ParentIn(kids, m) = Real /\ m > Real /\ m # Root
      /\ m # None
  BY <1>2, <1>4, ParentIs, NodesAre DEF Forest
<1> HIDE DEF c, s
<1>6. Placed(kids, m)
  <2>1. PICK S \in SUBSET Nodes : Real \in S /\ UpClosed(kids, S)
    BY <1>2 DEF Placed
  <2>2. UpClosed(kids, S \cup {m})
    BY <1>5, <2>1 DEF UpClosed
  <2> QED  BY <1>5, <2>2 DEF Placed
<1>7. /\ DepthIn(kids)[m] = 1 + DepthIn(kids)[Real]
      /\ DepthIn(kids)[Real] \in Nat
  BY <1>2, <1>5, DepthIs, DepthType
<1>8. tree.loops[Real] - 1 \in Int
  BY <1>2, TreeIs
<1>9. /\ Append(s, loop["real"]) \in Seq(Int)
      /\ Len(Append(s, loop["real"])) = Len(s) + 1
  BY <1>3
<1>10. /\ Real' = m /\ stack'["real"] = Append(s, loop["real"])
       /\ at' \in [Iters -> Nodes \cup {None}]
       /\ loop' \in [Iters -> Int] /\ stack' \in [Iters -> Seq(Int)]
  BY <1>3, <1>5, <1>8, <1>9 DEF IInv, PathInv, Set, Iters, Real
<1>11. Len(Append(s, loop["real"])) = DepthIn(kids)[m]
  BY <1>3, <1>7, <1>9 DEF IInv, PathInv, s
<1>12. PathInv'
  BY <1>1, <1>2, <1>5, <1>6, <1>10, <1>11 DEF PathInv
<1>13. EntryInv'
  <2>1. CASE entry = None
    BY <1>1, <2>1 DEF IInv, EntryInv
  <2>2. CASE entry # None
    <3>1. /\ entry \in Nodes /\ ParentIn(kids, entry) # None
          /\ ParentIn(kids, entry) <= ParentIn(kids, Real)
      BY <2>2 DEF IInv, EntryInv
    <3>2. /\ ParentIn(kids, entry) \in Nodes
          /\ ParentIn(kids, Real) = None \/ ParentIn(kids, Real) < Real
      BY <1>2, <3>1, ParentOf
    <3>3. ParentIn(kids, Real) < Real
      BY <1>2, <3>2, NodesAre DEF None
    <3>4. /\ ParentIn(kids, Real) \in Nat /\ Real \in Nat
          /\ ParentIn(kids, entry) \in Nat
      <4>1. \A n \in Nodes \cup {None} : n \in Nat
        BY NodesAre DEF None
      <4>2. ParentIn(kids, Real) \in Nodes \cup {None}
        BY <1>2, ParentOf
      <4> QED  BY <1>2, <3>2, <4>1, <4>2
    <3>5. ParentIn(kids, entry) < Real
      BY <3>1, <3>3, <3>4
    <3>6. m # entry
      BY <1>5, <3>4, <3>5
    <3> QED  BY <1>1, <1>5, <1>10, <2>2, <3>4, <3>5, <3>6 DEF IInv, EntryInv
  <2> QED  BY <2>1, <2>2
<1>14. TreeInv' /\ MarkInv'
  BY <1>1, TreeStays DEF IInv, MarkInv, Held
<1> QED  BY <1>12, <1>13, <1>14 DEF IInv

-----------------------------------------------------------------------------
(* Main.                                                                   *)

(* Between the calls no file is being replaced.                            *)
LEMMA NotReplacing ==
    ASSUME IInv, pc \notin {"step", "down", "returned"} \/ site # "list"
    PROVE  entry = None
  BY DEF IInv, EntryInv

(* Main calls the iterator, outside of handle_playlist.                    *)
LEMMA CallInv ==
    ASSUME IInv, pc \in {"playing", "name"}, pc' \in {"step", "up"},
           site' # "list",
           UNCHANGED <<tree, kids, entry, who, at, loop, stack>>
    PROVE  IInv'
<1>1. Real # None /\ entry = None
  BY NotReplacing DEF IInv, PathInv
<1>2. TreeInv' /\ PathInv'
  BY <1>1, TreeStays, PathStays DEF IInv
<1>3. MarkInv' /\ EntryInv'
  BY <1>1 DEF MarkInv, Held, EntryInv
<1> QED  BY <1>2, <1>3 DEF IInv

(* Main goes on with the entry it has, or ends.                            *)
LEMMA GoesOn ==
    ASSUME IInv, pc \in {"playing", "name", "returned"}, entry = None,
           pc' \in {"playing", "name", "playlist", "ended"},
           pc' = "playlist" => tree.list[Real] # None,
           Held' => Held,
           UNCHANGED <<tree, kids, entry, who, at, loop, stack, played>>
    PROVE  IInv'
<1>1. Real # None /\ Real' = Real
  BY DEF IInv, PathInv, Real
<1>2. TreeInv' /\ PathInv'
  BY <1>1, TreeStays, PathStays DEF IInv
<1>3. MarkInv' /\ EntryInv'
  BY <1>1 DEF IInv, MarkInv, EntryInv
<1> QED  BY <1>2, <1>3 DEF IInv

(* What main does with the entry keeps it, outside of handle_playlist.     *)
LEMMA MainInv ==
    ASSUME IInv,
           \/ NextEntry \/ Interrupted \/ InterruptedAlt \/ AltSource
           \/ EntryFound \/ NameNone \/ Name
    PROVE  IInv'
<1>0. who = "real" /\ tree \in Trees
  BY DEF IInv, PathInv, TreeInv
<1>1. CASE NextEntry
  BY <1>0, <1>1, CallInv DEF NextEntry, Playing, Calls, TreeOnly
<1>2. CASE Interrupted
  <2>1. PICK k \in tree.keys : Calls("real", "entry", k)
    BY <1>2 DEF Interrupted
  <2>2. k[1] \in {"step", "up"}
    BY <1>0, TreeIs
  <2> QED
    BY <1>0, <1>2, <2>1, <2>2, CallInv
    DEF Interrupted, Playing, Calls, TreeOnly
<1>3. CASE InterruptedAlt \/ AltSource
  BY <1>0, <1>3, GoesOn, NotReplacing
  DEF InterruptedAlt, AltSource, Playing, TreeOnly, Held
<1>4. CASE EntryFound
  BY <1>0, <1>4, GoesOn, NotReplacing DEF EntryFound, Returned, TreeOnly, Held
<1>5. CASE NameNone
  BY <1>0, <1>5, CallInv DEF NameNone, Calls, TreeOnly
<1>6. CASE Name
  BY <1>0, <1>6, GoesOn, NotReplacing
  DEF Name, TreeOnly, Held, mainVars, Real
<1> QED  BY <1>1, <1>2, <1>3, <1>4, <1>5, <1>6

(* The tree of a playlist file is inserted behind it.                      *)
LEMMA InsertListInv == IInv /\ InsertList => IInv'
<1> SUFFICES ASSUME IInv, InsertList PROVE IInv'
  OBVIOUS
<1> DEFINE n == Real
           p == ParentIn(kids, n)
           i == PlaceIn(kids, n)
           v == tree.list[n]
           l == kids'
           r == InsertAt(kids[p], i + 1, v)
<1>1. /\ pc = "playlist" /\ pc' = "step" /\ d' = 1 /\ site' = "list"
      /\ entry' = Real /\ who' = "real"
      /\ UNCHANGED <<tree, at, loop, stack, played>>
  BY DEF InsertList, Calls, TreeOnly, Real
<1>2. Real' = Real
  BY <1>1 DEF Real
<1>3. /\ tree \in Trees /\ Forest(kids) /\ n \in Nodes /\ n # None
      /\ v # None /\ Placed(kids, n) /\ who = "real"
  BY <1>1 DEF IInv, TreeInv, PathInv, Real, Iters
<1>4. /\ v \in Nodes /\ v # Root /\ v > n /\ tree.files[n] > 0
      /\ \A m \in Nodes : v = tree.list[m] => n = m
  BY <1>3, TreeIs
<1>5. n # Root
  BY <1>3, <1>4, ShapeAssumption, NodesAre
<1>6. PICK S \in SUBSET Nodes : n \in S /\ UpClosed(kids, S)
  BY <1>3 DEF Placed
<1>7. p \in Nodes /\ p < n /\ p # None
  BY <1>3, <1>5, <1>6, ParentOf, NodesAre DEF UpClosed
<1>8. entry = None
  BY <1>1, NotReplacing
<1>9. PICK V \in SUBSET Nodes : Unread(kids, V, None)
  BY <1>8 DEF IInv, TreeInv
<1>10. v \in V /\ ParentIn(kids, v) = None
  BY <1>3, <1>7, <1>9, NodesAre DEF Unread
<1>11. /\ SiblingsIn(kids, n) = kids[p] /\ i \in DOMAIN kids[p]
       /\ kids[p][i] = n
  BY <1>3, <1>7, PlaceIs DEF SiblingsIn
<1>12. l = [kids EXCEPT ![p] = r]
  <2>1. Parent(n) = p /\ Siblings(n) = kids[p] /\ Place(n) = i
    BY <1>11, InKids
  <2> QED  BY <2>1 DEF InsertList, Set, Real
<1>13. Inserted(r, kids[p], i, v)
  BY <1>3, <1>4, <1>7, <1>11, InsertIs DEF Forest
<1> HIDE DEF n, p, i, v, l, r
<1>14. v > p
  <2>1. n \in Nat /\ p \in Nat /\ v \in Nat
    BY <1>3, <1>4, <1>7, NodesAre
  <2> QED  BY <1>4, <1>7, <2>1
<1>15. /\ Forest(l) /\ ParentIn(l, v) = p
       /\ \A m \in Nodes : m # v => ParentIn(l, m) = ParentIn(kids, m)
       /\ i \in DOMAIN l[p] /\ l[p][i] = n /\ i < Len(l[p])
  <2>1. l[p][i] = kids[p][i] => l[p][i] = n
    BY <1>11
  <2>2. /\ Forest(l) /\ ParentIn(l, v) = p
        /\ \A m \in Nodes : m # v => ParentIn(l, m) = ParentIn(kids, m)
        /\ i \in DOMAIN l[p] /\ l[p][i] = kids[p][i] /\ i < Len(l[p])
    <3>1. /\ Forest(kids) /\ p \in Nodes /\ i \in DOMAIN kids[p]
          /\ v \in Nodes /\ v > p /\ v # Root /\ ParentIn(kids, v) = None
          /\ Grown(kids, l, p, i, v)
      <4>1. l[p] = r
        BY <1>3, <1>7, <1>12 DEF Forest
      <4>2. Grown(kids, l, p, i, v)
        BY <1>12, <1>13, <4>1 DEF Grown
      <4> QED
        BY <4>2, <1>3, <1>4, <1>7, <1>10, <1>11, <1>14
    <3> QED  BY <3>1, ForestInsert
  <2> QED  BY <2>1, <2>2
<1>16. TreeInv'
  <2>1. \A m \in Nodes : tree.files[m] > 0 => l[m] = <<>>
    <3>1. kids[p] # <<>> /\ kids \in [Nodes -> Seq(Nodes)]
      BY <1>3, <1>11 DEF Forest
    <3>2. \A m \in Nodes : tree.files[m] > 0 => kids[m] = <<>>
      BY DEF IInv, TreeInv
    <3> QED  BY <1>7, <1>12, <3>1, <3>2
  <2>0. PICK W \in SUBSET Nodes : W = V \ {v}
    OBVIOUS
  <2>2. \A w \in W : ParentIn(l, w) = None
    BY <1>9, <1>15, <2>0 DEF Unread
  <2>3. ASSUME NEW m \in Nodes, tree.list[m] # None
        PROVE  \/ tree.list[m] \in W
               \/ m = n
               \/ ParentIn(l, m) = None /\ m \notin W
    <3>1. \/ tree.list[m] \in V
          \/ ParentIn(kids, m) = None /\ m \notin V
      BY <1>9, <2>3, NodesAre DEF Unread
    <3>2. tree.list[m] = v => m = n
      BY <1>4 DEF n, v
    <3> QED  BY <1>10, <1>15, <2>0, <3>1, <3>2
  <2>4. Unread(kids, W, entry)'
    BY <1>1, <2>2, <2>3 DEF Unread, l, n
  <2>5. \E U \in SUBSET Nodes : Unread(kids, U, entry)'
    BY <2>4
  <2> QED  BY <1>1, <1>3, <1>15, <2>1, <2>5 DEF TreeInv, l
<1>17. v \notin S
  BY <1>4, <1>6, <1>10, NodesAre DEF UpClosed
<1>18. UpClosed(l, S) /\ DepthIn(l)[n] = DepthIn(kids)[n]
  BY <1>3, <1>6, <1>15, <1>17, SameDepth
<1>19. Placed(l, n)
  BY <1>6, <1>18 DEF Placed
<1>20. PathInv'
  BY <1>1, <1>2, <1>18, <1>19 DEF IInv, PathInv, n, l
<1>21. MarkInv'
  BY <1>1 DEF MarkInv, Held
<1>22. n # v /\ ParentIn(l, n) = p
  BY <1>3, <1>4, <1>15, NodesAre DEF p
<1>23. NextIn(l, n) # None
  <2>1. SiblingsIn(l, n) = l[p] /\ l[p] \in Seq(Nodes)
    BY <1>7, <1>15, <1>22 DEF SiblingsIn, Forest
  <2>2. PlaceIn(l, n) = i
    BY <1>3, <1>15, <2>1, PlaceIs
  <2>3. i + 1 \in 1 .. Len(l[p]) /\ i # Len(l[p])
    BY <1>15, <2>1
  <2>4. NextIn(l, n) = l[p][i + 1]
    BY <2>1, <2>2, <2>3 DEF NextIn
  <2> QED  BY <2>1, <2>3, <2>4, ElementOfSeq, NodesAre
<1>24. tree.shuffle /\ p = Root => n \in played
  BY <1>1 DEF IInv, MarkInv, Held, p, n
<1>25. EntryInv'
  <2>1. ParentIn(l, n) <= ParentIn(l, n)
    BY <1>7, <1>22, NodesAre
  <2> QED
    BY <1>1, <1>2, <1>3, <1>7, <1>22, <1>23, <1>24, <2>1
    DEF EntryInv, l, n, v
<1> QED  BY <1>16, <1>20, <1>21, <1>25 DEF IInv

(* The playlist file is removed.                                           *)
LEMMA RemoveListInv == IInv /\ RemoveList => IInv'
<1> SUFFICES ASSUME IInv, RemoveList PROVE IInv'
  OBVIOUS
<1> DEFINE e == entry
           p == ParentIn(kids, e)
           i == PlaceIn(kids, e)
           l == kids'
           r == RemoveAt(kids[p], i)
<1>1. /\ pc = "returned" /\ result = "ENTRY" /\ site = "list"
      /\ pc' = "name" /\ entry' = None
      /\ UNCHANGED <<tree, at, loop, stack, played, who>>
  BY DEF RemoveList, Returned, TreeOnly
<1>2. Real' = Real
  BY <1>1 DEF Real
<1>3. /\ tree \in Trees /\ Forest(kids) /\ Real \in Nodes /\ Real # None
      /\ Placed(kids, Real)
  BY <1>1 DEF IInv, TreeInv, PathInv, Real, Iters
<1>4. /\ e \in Nodes /\ tree.list[e] # None /\ p # None /\ Real # e
  BY <1>1 DEF IInv, EntryInv
<1>5. p \in Nodes /\ e # None
  BY <1>3, <1>4, ParentOf, NodesAre
<1>6. kids[e] = <<>>
  BY <1>3, <1>4, TreeIs DEF IInv, TreeInv
<1>7. /\ SiblingsIn(kids, e) = kids[p] /\ i \in DOMAIN kids[p]
      /\ kids[p][i] = e
  BY <1>3, <1>4, PlaceIs DEF SiblingsIn
<1>8. l = [kids EXCEPT ![p] = r]
  <2>1. Parent(e) = p /\ Siblings(e) = kids[p] /\ Place(e) = i
    BY <1>7, InKids
  <2> QED  BY <2>1 DEF RemoveList, Set
<1>9. Removed(r, kids[p], i)
  BY <1>3, <1>5, <1>7, RemoveIs DEF Forest
<1> HIDE DEF e, p, i, l, r
<1>10. /\ Forest(l) /\ ParentIn(l, e) = None
       /\ \A m \in Nodes : m # e => ParentIn(l, m) = ParentIn(kids, m)
  <2>1. /\ Forest(kids) /\ p \in Nodes /\ i \in DOMAIN kids[p]
        /\ e = kids[p][i] /\ Shrunk(kids, l, p, i)
    <3>1. l[p] = r
      BY <1>3, <1>5, <1>8 DEF Forest
    <3>2. Shrunk(kids, l, p, i)
      BY <1>8, <1>9, <3>1 DEF Shrunk
    <3> QED  BY <1>3, <1>5, <1>7, <3>2
  <2> QED  BY <2>1, ForestRemove
<1>11. TreeInv'
  <2>1. \A m \in Nodes : tree.files[m] > 0 => l[m] = <<>>
    <3>1. kids[p] # <<>> /\ kids \in [Nodes -> Seq(Nodes)]
      BY <1>3, <1>7 DEF Forest
    <3>2. \A m \in Nodes : tree.files[m] > 0 => kids[m] = <<>>
      BY DEF IInv, TreeInv
    <3> QED  BY <1>5, <1>8, <3>1, <3>2
  <2>2. PICK V \in SUBSET Nodes : Unread(kids, V, e)
    BY DEF IInv, TreeInv, e
  <2>3. e \notin V
    BY <1>4, <2>2 DEF Unread, p
  <2>4. \A w \in V : ParentIn(l, w) = None
    BY <1>10, <2>2, <2>3 DEF Unread
  <2>5. ASSUME NEW m \in Nodes, tree.list[m] # None
        PROVE  \/ tree.list[m] \in V
               \/ ParentIn(l, m) = None /\ m \notin V
    BY <1>10, <2>2, <2>3, <2>5 DEF Unread
  <2>6. Unread(kids, V, entry)'
    BY <1>1, <2>4, <2>5 DEF Unread, l
  <2>7. \E W \in SUBSET Nodes : Unread(kids, W, entry)'
    BY <2>6
  <2> QED  BY <1>1, <1>3, <1>10, <2>1, <2>7 DEF TreeInv, l
<1>12. PICK S \in SUBSET Nodes : Real \in S /\ UpClosed(kids, S)
  BY <1>3 DEF Placed
<1> DEFINE T == S \ {e}
<1>13. UpClosed(kids, T)
  <2> SUFFICES ASSUME NEW m \in T, m # Root
               PROVE  ParentIn(kids, m) \in T
    BY DEF UpClosed
  <2>1. ParentIn(kids, m) \in S
    BY <1>12 DEF UpClosed
  <2>2. \E j \in DOMAIN kids[ParentIn(kids, m)] :
            kids[ParentIn(kids, m)][j] = m
    BY <1>3, <2>1, ParentOf, NodesAre
  <2>3. ParentIn(kids, m) # e
    BY <1>6, <2>2 DEF e
  <2> QED  BY <2>1, <2>3
<1>14. T \in SUBSET Nodes /\ Real \in T /\ e \notin T
  BY <1>4, <1>12 DEF e
<1> HIDE DEF T
<1>15. \A m \in T \ {Root} : ParentIn(l, m) = ParentIn(kids, m)
  BY <1>10, <1>14
<1>16. UpClosed(l, T) /\ DepthIn(l)[Real] = DepthIn(kids)[Real]
  BY <1>3, <1>10, <1>13, <1>14, <1>15, SameDepth
<1>17. Placed(l, Real)
  BY <1>14, <1>16 DEF Placed
<1>18. PathInv'
  BY <1>1, <1>2, <1>3, <1>16, <1>17 DEF IInv, PathInv, l
<1>19. ParentIn(l, Real) = ParentIn(kids, Real)
  BY <1>3, <1>4, <1>10 DEF e
<1>20. MarkInv' /\ EntryInv'
  BY <1>1, <1>2, <1>19 DEF IInv, MarkInv, Held, EntryInv, l
<1> QED  BY <1>11, <1>18, <1>20 DEF IInv

-----------------------------------------------------------------------------
(* A step of main or of the iterator keeps the invariant.                  *)
LEMMA NextInv == IInv /\ [PlayNext]_vars => IInv'
<1> SUFFICES ASSUME IInv, [PlayNext]_vars PROVE IInv'
  OBVIOUS
<1>1. CASE StepFirst \/ StepInto \/ StepEntry \/ StepNoneLeft
  BY <1>1, StepFirstInv, StepIntoInv, StepEntryInv, StepNoneLeftInv
<1>2. CASE StepLoop \/ StepUp \/ UpEnd \/ Up \/ Down
  BY <1>2, StepLoopInv, StepUpInv, UpEndInv, UpInv, DownInv
<1>3. CASE InsertList \/ RemoveList
  BY <1>3, InsertListInv, RemoveListInv
<1>4. CASE \/ NextEntry \/ Interrupted \/ InterruptedAlt \/ AltSource
           \/ EntryFound \/ NameNone \/ Name
  BY <1>4, MainInv
<1>5. CASE UNCHANGED vars
  <2>1. /\ UNCHANGED <<tree, kids, entry, at, loop, stack, who, pc, d>>
        /\ UNCHANGED <<result, site, played>>
    BY <1>5 DEF vars, iterVars, mainVars
  <2>2. Real' = Real
    BY <2>1 DEF Real
  <2>3. TreeInv'
    BY <2>1, TreeStays DEF IInv
  <2>4. PathInv' /\ MarkInv' /\ EntryInv'
    BY <2>1, <2>2
    DEF IInv, PathInv, Placed, UpClosed, MarkInv, Held, EntryInv
  <2> QED  BY <2>3, <2>4 DEF IInv
<1> QED  BY <1>1, <1>2, <1>3, <1>4, <1>5 DEF PlayNext, Iterate, Main

(* status_stack holds one status for each group above the iterator, so     *)
(* that up_step never pops more than down_step has pushed, whatever the    *)
(* playlist and whatever playlist files are replaced in it meanwhile.      *)
THEOREM PlayStackIsPath == PlaySpec => []StackIsPath
<1>1. IInv => StackIsPath
  BY InKids DEF IInv, PathInv, StackIsPath, Real
<1> QED  BY <1>1, FirstInv, NextInv, PTL DEF PlaySpec

-----------------------------------------------------------------------------
(* Random order.                                                           *)

\* A playlist in random order is a list of files, each with one source, and
\* the keys step: a group is never marked, and a step up ends the list.
FlatShuffles ==
    \A t \in Trees : t.shuffle =>
        /\ t.keys \subseteq {<<"step", 1>>, <<"step", -1>>}
        /\ \A n \in Nodes \ {Root} : t.kids[n] = <<>> /\ t.list[n] = None
        /\ \A n \in ToSet(t.kids[Root]) : t.files[n] = 1
        /\ \A n \in Nodes : t.files[n] > 0 => n \in ToSet(t.kids[Root])

Songs == ToSet(tree.kids[Root])

\* What step has found and main has not played.
Chosen == \/ pc = "returned" /\ result = "ENTRY"
          \/ pc = "name" /\ file = -1

\* Marked is what was played, and what was chosen to be played next.
ShuffleInv ==
    tree.shuffle =>
        /\ kids = tree.kids /\ site \in {"entry", "name"}
        /\ pc \in {"step", "down", "returned", "name", "playing", "ended"}
        /\ played = IF Chosen THEN heard \cup {Real} ELSE heard
        /\ Chosen => Real \notin heard
        /\ file \in {-1, 0}
        /\ pc = "step" => \/ Real \in Songs \cup {None}
                          \/ Real = Root /\ d = 0
        /\ pc = "down" => Real = Root
        /\ pc \in {"name", "playing"} => Real \in Songs
        /\ pc = "playing" => file = 0
        /\ pc = "returned" => file = -1 /\ result \in {"ENTRY", "END"}
        /\ pc = "returned" /\ result = "ENTRY" => Real \in Songs
        /\ pc = "returned" /\ result = "END" => Songs \subseteq heard
        /\ pc = "ended" => Songs \subseteq heard

\* The nodes with a file in them: those in every set that holds the files
\* and, with a node, its parent.
Filled(k) ==
    {n \in Nodes : \A S \in SUBSET Nodes :
        (\A m \in Nodes :
            tree.files[m] > 0 \/ (\E i \in DOMAIN k[m] : k[m][i] \in S) =>
                m \in S) => n \in S}

ValidStep(f) ==
    [m \in Nodes |->
        tree.files[m] > 0 \/ \E i \in DOMAIN kids[m] : f[kids[m][i]]]

(* What is_valid computes.                                                 *)
LEMMA ValidIs ==
    ASSUME Forest(kids)
    PROVE  \A n \in Nodes :
               Valid(n) <=> \/ tree.files[n] > 0
                            \/ \E i \in DOMAIN kids[n] : Valid(kids[n][i])
<1> DEFINE F == Filled(kids)
           Below(m, S) == \/ tree.files[m] > 0
                          \/ \E i \in DOMAIN kids[m] : kids[m][i] \in S
           Closed(S) == \A m \in Nodes : Below(m, S) => m \in S
           f == [n \in Nodes |-> IF n \in F THEN TRUE ELSE FALSE]
           v == CHOOSE g : g = ValidStep(g)
<1>0. \A m \in Nodes : \A i \in DOMAIN kids[m] : kids[m][i] \in Nodes
  BY ParentIs
<1>1. F \in SUBSET Nodes
  BY DEF Filled
<1>2. \A n \in Nodes : n \in F <=> \A S \in SUBSET Nodes : Closed(S) => n \in S
  BY DEF Filled
<1> HIDE DEF F
<1>3. \A m \in Nodes : Below(m, F) => m \in F
  <2> SUFFICES ASSUME NEW m \in Nodes, Below(m, F),
                      NEW S \in SUBSET Nodes, Closed(S)
               PROVE  m \in S
    BY <1>2
  <2>1. F \subseteq S
    BY <1>1, <1>2
  <2>2. Below(m, S)
    BY <2>1
  <2> QED  BY <2>2
<1>4. \A m \in Nodes : m \in F => Below(m, F)
  <2> DEFINE G == {m \in Nodes : Below(m, F)}
  <2>1. G \subseteq F
    BY <1>3
  <2>2. Closed(G)
    <3> SUFFICES ASSUME NEW m \in Nodes, Below(m, G) PROVE Below(m, F)
      OBVIOUS
    <3> HIDE DEF G
    <3> QED  BY <2>1
  <2>3. G \in SUBSET Nodes
    OBVIOUS
  <2> QED  BY <1>2, <2>2, <2>3
<1>5. f = ValidStep(f)
  <2>1. ASSUME NEW m \in Nodes
        PROVE  f[m] = (\/ tree.files[m] > 0
                       \/ \E i \in DOMAIN kids[m] : f[kids[m][i]])
    <3>1. \A i \in DOMAIN kids[m] : f[kids[m][i]] <=> kids[m][i] \in F
      BY <1>0
    <3>2. (m \in F => f[m] = TRUE) /\ (m \notin F => f[m] = FALSE)
      BY Zenon
    <3> HIDE DEF f
    <3>3. m \in F <=> Below(m, F)
      BY <1>3, <1>4
    <3>4. Below(m, F) <=> \/ tree.files[m] > 0
                         \/ \E i \in DOMAIN kids[m] : f[kids[m][i]]
      BY <3>1
    <3> DEFINE X == \/ tree.files[m] > 0
                    \/ \E i \in DOMAIN kids[m] : f[kids[m][i]]
    <3>5. CASE m \in F
      <4>1. X = TRUE
        BY <3>3, <3>4, <3>5
      <4>2. f[m] = TRUE
        BY <3>2, <3>5, Zenon
      <4> QED  BY <4>1, <4>2, Zenon
    <3>6. CASE m \notin F
      <4>1. X = FALSE
        BY <3>3, <3>4, <3>6
      <4>2. f[m] = FALSE
        BY <3>2, <3>6, Zenon
      <4> QED  BY <4>1, <4>2, Zenon
    <3> QED  BY <3>5, <3>6
  <2> HIDE DEF f
  <2>2. ValidStep(f) = [m \in Nodes |-> f[m]]
    BY <2>1 DEF ValidStep
  <2>3. f = [m \in Nodes |-> f[m]]
    BY DEF f
  <2> QED  BY <2>2, <2>3
<1>6. v = ValidStep(v)
  BY <1>5
<1>7. \A n \in Nodes : Valid(n) = v[n]
  BY Zenon DEF Valid, ValidStep
<1>8. \A n \in Nodes :
          v[n] = (tree.files[n] > 0 \/ \E i \in DOMAIN kids[n] : v[kids[n][i]])
  <2> HIDE DEF v
  <2> QED  BY <1>6 DEF ValidStep
<1> HIDE DEF v
<1> QED  BY <1>0, <1>7, <1>8

(* What a list in random order is.                                         *)
LEMMA ShuffleIs ==
    ASSUME FlatShuffles, IInv, ShuffleInv, tree.shuffle
    PROVE  /\ kids = tree.kids /\ Forest(kids) /\ who = "real"
           /\ Parent(Root) = None
           /\ \A c \in Songs :
                /\ c \in Nodes /\ c # Root /\ c # None /\ kids[c] = <<>>
                /\ tree.files[c] = 1 /\ tree.list[c] = None
                /\ Parent(c) = Root /\ Siblings(c) = kids[Root]
           /\ \A n \in Nodes : tree.files[n] > 0 => n \in Songs
           /\ tree.keys \subseteq {<<"step", 1>>, <<"step", -1>>}
<1>1. /\ kids = tree.kids /\ Forest(kids) /\ who = "real" /\ tree \in Trees
  BY DEF ShuffleInv, IInv, TreeInv, PathInv
<1>2. Parent(Root) = None
  BY <1>1, RootParent, InKids
<1>3. ASSUME NEW c \in Songs
      PROVE  /\ c \in Nodes /\ c # Root /\ c # None
             /\ Parent(c) = Root /\ Siblings(c) = kids[Root]
  <2>1. PICK i \in DOMAIN kids[Root] : c = kids[Root][i]
    BY <1>1 DEF Songs, ToSet
  <2>2. c \in Nodes /\ ParentIn(kids, c) = Root
    BY <1>1, <2>1, ParentIs, NodesAre
  <2>3. c # Root
    BY <1>1, <2>1, NodesAre DEF Forest
  <2>4. Parent(c) = Root /\ Siblings(c) = kids[Root]
    BY <2>2, InKids, NodesAre DEF SiblingsIn
  <2> QED  BY <2>2, <2>3, <2>4, NodesAre
<1> QED  BY <1>1, <1>2, <1>3 DEF FlatShuffles, Songs

(* The root is opened if there is a file in the list.                      *)
LEMMA RootOpens ==
    ASSUME FlatShuffles, IInv, ShuffleInv, tree.shuffle
    PROVE  Valid(Root) => Opens(Root)
<1> SUFFICES ASSUME Valid(Root) PROVE Opens(Root)
  OBVIOUS
<1>1. tree \in Trees /\ Forest(kids) /\ kids = tree.kids
  BY ShuffleIs DEF IInv, TreeInv
<1>2. tree.files[Root] = 0
  BY <1>1, ShapeAssumption, NodesAre
<1>3. \E i \in DOMAIN kids[Root] : Valid(kids[Root][i])
  BY <1>1, <1>2, ValidIs, NodesAre
<1>4. kids[Root] \in Seq(Nodes) /\ kids[Root] # <<>>
  BY <1>1, <1>3, NodesAre DEF Forest
<1>5. 1 \in DOMAIN kids[Root]
  BY <1>4
<1>6. kids[Root][1] \in Songs
  BY <1>1, <1>5 DEF Songs, ToSet
<1>7. kids[Root][1] \in Nodes /\ tree.files[kids[Root][1]] > 0
  BY <1>6, ShuffleIs
<1>8. Valid(kids[Root][1])
  BY <1>1, <1>7, ValidIs
<1> QED  BY <1>4, <1>8 DEF Opens

(* Nothing is chosen or played at first.                                   *)
LEMMA FirstShuffle == Init => ShuffleInv
  BY DEF Init, ShuffleInv, Chosen, Real, Iters

(* In the list step is random; at the root it asks the root itself.        *)
LEMMA ShuffleStep ==
    ASSUME FlatShuffles, IInv, ShuffleInv, tree.shuffle, InStep
    PROVE  /\ UNCHANGED <<tree, kids, site, heard>> /\ file' = -1
           /\ ~Chosen /\ played = heard
           /\ \/ Real \in Songs /\ Random /\ Targets = Songs \ heard
              \/ Real = Root /\ ~Random /\ Targets = {Root}
<1>1. /\ pc = "step" /\ Here = Real /\ Real # None
      /\ UNCHANGED <<tree, kids, site, heard>> /\ file' = -1
  BY ShuffleIs DEF InStep, Moving, mainVars, history, Here, Real
<1>2. ~Chosen /\ played = heard
  BY <1>1 DEF Chosen, ShuffleInv
<1>3. CASE Real \in Songs
  <2>1. Random
    BY <1>1, <1>3, ShuffleIs DEF Random
  <2>2. ToSet(Siblings(Here)) = Songs
    BY <1>1, <1>3, ShuffleIs DEF Songs
  <2>3. Targets = Songs \ heard
    BY <1>2, <2>1, <2>2 DEF Targets, RandomTargets
  <2> QED  BY <1>1, <1>2, <1>3, <2>1, <2>3
<1>4. CASE Real = Root /\ d = 0
  <2>1. Parent(Root) # Root
    BY ShuffleIs, NodesAre
  <2>2. ~Random
    BY <1>1, <1>4, <2>1 DEF Random
  <2>3. Target = Root
    BY <1>1, <1>4 DEF Target
  <2>4. Targets = {Root}
    BY <2>2, <2>3, NodesAre DEF Targets
  <2> QED  BY <1>1, <1>2, <1>4, <2>2, <2>4
<1> QED  BY <1>1, <1>3, <1>4 DEF ShuffleInv

(* The steps of the iterator keep it.                                      *)
LEMMA IterateShuffle ==
    ASSUME FlatShuffles, IInv, ShuffleInv, tree.shuffle, Iterate
    PROVE  ShuffleInv'
<1>1. Real' = at'["real"] /\ DOMAIN at = Iters /\ who = "real" /\ Here = Real
  BY ShuffleIs DEF Real, Here, IInv, PathInv
<1>2. \A n : at' = Set(at, who, n) => Real' = n
  BY <1>1 DEF Set, Iters
<1>3. CASE StepFirst
  <2>1. /\ pc = "step" /\ pc' = "step" /\ Real' = Root /\ d' = 0
        /\ UNCHANGED <<tree, kids, site, heard, file, played>>
    BY <1>2, <1>3 DEF StepFirst, Moving, mainVars, history
  <2>2. Songs' = Songs
    BY <2>1 DEF Songs
  <2> QED  BY <2>1, <2>2 DEF ShuffleInv, Chosen
<1>4. CASE StepInto
  <2>1. InStep /\ pc' = "down" /\ played' = played
    BY <1>4 DEF StepInto
  <2>2. PICK n \in Targets : Opens(n) /\ at' = Set(at, who, n)
    BY <1>4 DEF StepInto
  <2>3. n = Root
    BY <2>1, <2>2, ShuffleStep, ShuffleIs DEF Opens
  <2>4. Real' = Root
    BY <1>2, <2>2, <2>3
  <2>5. Songs' = Songs
    BY <2>1, ShuffleStep DEF Songs
  <2> QED  BY <2>1, <2>4, <2>5, ShuffleStep DEF ShuffleInv, Chosen
<1>5. CASE StepEntry
  <2>1. InStep /\ pc' = "returned" /\ result' = "ENTRY"
    BY <1>5 DEF StepEntry, Returns
  <2>2. PICK n \in Targets :
            /\ ~Opens(n) /\ Valid(n) /\ at' = Set(at, who, n)
            /\ played' = IF Random THEN played \cup {n} ELSE played
    BY <1>5 DEF StepEntry
  <2>3. n \in Songs \ heard /\ Random
    BY <2>1, <2>2, ShuffleStep, RootOpens
  <2>4. Real' = n /\ played' = heard \cup {n}
    BY <1>2, <2>1, <2>2, <2>3, ShuffleStep
  <2>5. Songs' = Songs
    BY <2>1, ShuffleStep DEF Songs
  <2> QED  BY <2>1, <2>3, <2>4, <2>5, ShuffleStep DEF ShuffleInv, Chosen
<1>6. CASE StepNoneLeft
  <2>1. /\ InStep /\ pc' = "returned" /\ result' = "END"
        /\ UNCHANGED <<at, played>> /\ Random /\ RandomTargets = {}
    BY <1>6 DEF StepNoneLeft, Returns
  <2>2. Songs \subseteq heard
    BY <2>1, ShuffleStep DEF Targets
  <2>3. Songs' = Songs /\ Real' = Real
    BY <2>1, ShuffleStep DEF Songs, Real
  <2> QED  BY <2>1, <2>2, <2>3, ShuffleStep DEF ShuffleInv, Chosen
<1>7. ~(StepLoop \/ StepUp)
  BY ShuffleStep DEF StepLoop, StepUp
<1>8. ~(UpEnd \/ Up)
  BY DEF UpEnd, Up, InUp, ShuffleInv
<1>9. CASE Down
  <2>1. /\ pc = "down" /\ pc' = "step" /\ file' = -1
        /\ UNCHANGED <<tree, kids, site, heard, played>>
        /\ Real' = IF d >= 0 THEN Head(kids[Real]) ELSE Last(kids[Real])
    BY <1>1, <1>2, <1>9 DEF Down, Moving, mainVars, history
  <2>2. /\ Real = Root /\ kids[Root] # <<>> /\ kids[Root] \in Seq(Nodes)
        /\ kids = tree.kids
    BY <2>1, ShuffleIs, NodesAre DEF ShuffleInv, IInv, PathInv, Forest
  <2>3. Real' \in Songs
    <3> DEFINE s == kids[Root]
    <3>1. s # <<>> /\ s \in Seq(Nodes) /\ Songs = ToSet(s)
      BY <2>2 DEF Songs
    <3> HIDE DEF s
    <3>2. 1 \in DOMAIN s /\ Len(s) \in DOMAIN s
      BY <3>1
    <3>3. Head(s) = s[1] /\ Last(s) = s[Len(s)]
      BY <3>1 DEF Last
    <3>4. Head(s) \in ToSet(s) /\ Last(s) \in ToSet(s)
      BY <3>2, <3>3 DEF ToSet
    <3> QED  BY <2>1, <2>2, <3>1, <3>4 DEF s
  <2>4. Songs' = Songs
    BY <2>1 DEF Songs
  <2> QED  BY <2>1, <2>3, <2>4 DEF ShuffleInv, Chosen
<1> QED
  BY <1>3, <1>4, <1>5, <1>6, <1>7, <1>8, <1>9 DEF Iterate

(* So does main.                                                           *)
LEMMA MainShuffle ==
    ASSUME FlatShuffles, IInv, ShuffleInv, tree.shuffle, Main
    PROVE  ShuffleInv'
<1>1. \A n \in Songs : tree.files[n] = 1 /\ tree.list[n] = None
  BY ShuffleIs
<1>2. CASE NextEntry \/ Interrupted \/ NameNone
  <2>1. /\ pc \in {"playing", "name"} /\ pc' = "step" /\ ~Chosen
        /\ site' \in {"entry", "name"}
        /\ UNCHANGED <<tree, kids, at, played, file, heard>>
    <3>1. CASE NextEntry
      BY <3>1 DEF NextEntry, Playing, Calls, TreeOnly, Chosen
    <3>2. CASE Interrupted
      <4>1. PICK k \in tree.keys : Calls("real", "entry", k)
        BY <3>2 DEF Interrupted
      <4>2. k[1] = "step"
        BY ShuffleIs
      <4> QED
        BY <3>2, <4>1, <4>2
        DEF Interrupted, Playing, Calls, TreeOnly, Chosen
    <3>3. CASE NameNone
      <4>1. at["real"] \in Songs /\ pc = "name"
        BY <3>3 DEF NameNone, ShuffleInv, Real
      <4>2. file # -1
        BY <1>1, <3>3, <4>1 DEF NameNone
      <4> QED  BY <3>3, <4>2 DEF NameNone, Calls, TreeOnly, Chosen
    <3> QED  BY <1>2, <3>1, <3>2, <3>3
  <2>2. Real' = Real /\ Songs' = Songs
    BY <2>1 DEF Real, Songs
  <2> QED  BY <2>1, <2>2 DEF ShuffleInv, Chosen
<1>3. CASE InterruptedAlt
  <2>1. /\ pc = "playing" /\ pc' = "name"
        /\ UNCHANGED <<tree, kids, at, played, file, heard, site>>
    BY <1>3 DEF InterruptedAlt, Playing, TreeOnly, history
  <2>2. Real' = Real /\ Songs' = Songs
    BY <2>1 DEF Real, Songs
  <2> QED  BY <2>1, <2>2 DEF ShuffleInv, Chosen
<1>4. ~AltSource
  BY <1>1 DEF AltSource, Playing, ShuffleInv, Real
<1>5. CASE EntryFound
  <2>1. /\ pc = "returned"
        /\ pc' = IF result = "ENTRY" THEN "name" ELSE "ended"
        /\ UNCHANGED <<tree, kids, at, played, file, heard, site, result>>
    BY <1>5 DEF EntryFound, Returned, TreeOnly, history
  <2>2. Real' = Real /\ Songs' = Songs
    BY <2>1 DEF Real, Songs
  <2> QED  BY <2>1, <2>2 DEF ShuffleInv, Chosen
<1>6. CASE Name
  <2>1. /\ pc = "name" /\ Real \in Songs /\ file < tree.files[Real] - 1
        /\ UNCHANGED <<tree, kids, at, played, site>>
    BY <1>6 DEF Name, TreeOnly, mainVars, ShuffleInv, Real
  <2>2. file = -1
    BY <1>1, <2>1 DEF ShuffleInv
  <2>3. /\ pc' = "playing" /\ file' = 0 /\ heard' = heard \cup {Real}
    BY <1>1, <1>6, <2>1, <2>2 DEF Name, Real
  <2>4. Real' = Real /\ Songs' = Songs
    BY <2>1 DEF Real, Songs
  <2> QED  BY <2>1, <2>2, <2>3, <2>4 DEF ShuffleInv, Chosen
<1>7. ~InsertList /\ ~RemoveList
  BY DEF InsertList, RemoveList, Returned, ShuffleInv
<1> QED  BY <1>2, <1>3, <1>4, <1>5, <1>6, <1>7 DEF Main

(* A step of main or of the iterator keeps it.                             *)
LEMMA NextShuffle ==
    FlatShuffles /\ IInv /\ ShuffleInv /\ [PlayNext]_vars => ShuffleInv'
<1> SUFFICES ASSUME FlatShuffles, IInv, ShuffleInv, [PlayNext]_vars
             PROVE  ShuffleInv'
  OBVIOUS
<1>1. tree' = tree
  BY DEF PlayNext, Iterate, Main, vars, StepFirst, StepInto, StepEntry,
     StepNoneLeft, StepLoop, StepUp, UpEnd, Up, Down, InStep, InUp, Moving,
     NextEntry, Interrupted, InterruptedAlt, AltSource, EntryFound,
     NameNone, Name, InsertList, RemoveList, TreeOnly
<1>2. CASE ~tree.shuffle
  BY <1>1, <1>2 DEF ShuffleInv
<1>3. CASE tree.shuffle /\ PlayNext
  BY <1>3, IterateShuffle, MainShuffle DEF PlayNext
<1>4. CASE UNCHANGED vars
  BY <1>4 DEF vars, iterVars, mainVars, history, ShuffleInv, Chosen, Real,
     Songs
<1> QED  BY <1>2, <1>3, <1>4

(* A playlist in random order, of files with one source each: no file is   *)
(* played twice, and the end comes when all have been played, also when    *)
(* files cannot be opened and keys step on meanwhile.                      *)
THEOREM PlayShuffledOnce ==
    ASSUME FlatShuffles
    PROVE  PlaySpec => ShuffledOnce
<1> DEFINE Once == tree.shuffle =>
        /\ pc = "name" /\ pc' = "playing" => at["real"] \notin heard
        /\ pc' = "ended" => \A n \in Nodes : tree.files[n] > 0 => n \in heard
<1>1. IInv /\ ShuffleInv /\ [PlayNext]_vars => [Once]_vars
  <2> SUFFICES ASSUME IInv, ShuffleInv, PlayNext, tree.shuffle PROVE Once
    BY DEF Once
  <2>1. pc = "name" /\ pc' = "playing" => at["real"] \notin heard
    <3> SUFFICES ASSUME pc = "name", pc' = "playing"
                 PROVE  at["real"] \notin heard
      OBVIOUS
    <3>1. Name
      BY DEF PlayNext, Iterate, Main, StepFirst, StepInto, StepEntry,
         StepNoneLeft, StepLoop, StepUp, UpEnd, Up, Down, InStep, InUp,
         NextEntry, Interrupted, InterruptedAlt, AltSource, EntryFound,
         NameNone, InsertList, RemoveList, Playing, Returned, Calls
    <3>2. Real \in Songs /\ file \in {-1, 0}
      BY DEF ShuffleInv
    <3>3. file = -1
      BY <3>1, <3>2, ShuffleIs DEF Name, Real
    <3> QED  BY <3>3 DEF ShuffleInv, Chosen, Real
  <2>2. ASSUME pc' = "ended"
        PROVE  \A n \in Nodes : tree.files[n] > 0 => n \in heard
    <3>0. \A k \in tree.keys : k[1] = "step"
      BY ShuffleIs
    <3>1. pc = "returned" /\ result # "ENTRY"
      <4>1. ~Iterate
        BY <2>2 DEF Iterate, StepFirst, StepInto, StepEntry, StepNoneLeft,
           StepLoop, StepUp, UpEnd, Up, Down, InStep, InUp, Returns
      <4>2. ~(NextEntry \/ Interrupted \/ NameNone \/ InsertList)
        BY <2>2, <3>0
        DEF NextEntry, Interrupted, NameNone, InsertList, Calls
      <4>3. ~(InterruptedAlt \/ AltSource \/ Name \/ RemoveList)
        BY <2>2 DEF InterruptedAlt, AltSource, Name, RemoveList
      <4>4. EntryFound
        BY <4>1, <4>2, <4>3 DEF PlayNext, Main
      <4> QED  BY <2>2, <4>4 DEF EntryFound, Returned
    <3>2. Songs \subseteq heard
      BY <3>1 DEF ShuffleInv
    <3> QED  BY <3>2, ShuffleIs
  <2> QED  BY <2>1, <2>2
<1>2. ShuffledOnce <=> [][Once]_vars
  BY DEF ShuffledOnce
<1> QED
  BY <1>1, <1>2, FirstInv, FirstShuffle, NextInv, NextShuffle, PTL
  DEF PlaySpec

-----------------------------------------------------------------------------
(* Types.                                                                  *)

\* What is left of the repetitions of a group; -2 is no end of them.
Counts == Nat \cup {-1, -2}

CountsInv ==
    /\ loop \in [Iters -> Counts] /\ stack \in [Iters -> Seq(Counts)]
    /\ mode \in [Iters -> {"normal", "random"}]
    /\ file \in Int /\ d \in -1 .. 1

CallsInv ==
    /\ pc \in {"step", "up", "down", "returned", "name", "playing", "playlist",
               "ended", "crashed"}
    /\ result \in {"none", "ENTRY", "END"}
    /\ site \in {"entry", "name", "list", "key"} /\ eof \in {-1, 1}

NodesInv == played \subseteq Nodes /\ heard \subseteq Nodes
            /\ entry \in Nodes \cup {None}

PlacesInv == place \in Int /\ aim \in Int

Types == CountsInv /\ CallsInv /\ NodesInv /\ PlacesInv

LEMMA PopIs ==
    ASSUME NEW S, NEW s \in Seq(S), s # <<>>
    PROVE  Last(s) \in S /\ Front(s) \in Seq(S)
<1>1. Len(s) \in Nat /\ Len(s) >= 1 /\ s \in [1 .. Len(s) -> S]
  OBVIOUS
<1>2. Last(s) = s[Len(s)] /\ Front(s) = SubSeq(s, 1, Len(s) - 1)
  BY DEF Last, Front
<1>3. s[Len(s)] \in S
  BY <1>1
<1>4. SubSeq(s, 1, Len(s) - 1) \in Seq(S)
  BY <1>1, SubSeqProperties
<1> QED  BY <1>2, <1>3, <1>4

LEMMA AimIs ==
    ASSUME PlacesInv, NEW k, k[2] \in Int
    PROVE  Aim(k) \in Int
<1> DEFINE P == Inside(Parent(at["real"]))
           A == {i \in 0 .. Len(Order) + 1 :
                    i \notin P /\ IF k[2] > 0 THEN i - 1 \in P ELSE i + 1 \in P}
<1>1. \A i \in A : i \in Int
  OBVIOUS
<1>2. A # {} => (CHOOSE i \in A : TRUE) \in A
  OBVIOUS
<1>3. Aim(k) = CASE ~InOneOrder -> aim
                 [] InOneOrder /\ k[1] = "step" -> place + k[2]
                 [] OTHER -> IF A = {} THEN -1 ELSE CHOOSE i \in A : TRUE
  BY DEF Aim
<1> HIDE DEF A
<1>4. CASE ~InOneOrder
  BY <1>3, <1>4 DEF PlacesInv
<1>5. CASE InOneOrder /\ k[1] = "step"
  BY <1>3, <1>5 DEF PlacesInv
<1>6. CASE InOneOrder /\ k[1] # "step"
  BY <1>1, <1>2, <1>3, <1>6
<1> QED  BY <1>4, <1>5, <1>6

\* The steps that do not touch these variables keep their types.
LEMMA CountsStay ==
    ASSUME CountsInv, UNCHANGED <<loop, stack, mode>>,
           file' \in Int, d' \in -1 .. 1
    PROVE  CountsInv'
  BY DEF CountsInv

LEMMA PlacesStay ==
    ASSUME PlacesInv, UNCHANGED <<place, aim>>
    PROVE  PlacesInv'
  BY DEF PlacesInv

(* The root has no parent in the lists, whichever they are now.            *)
LEMMA UpperIs ==
    ASSUME TreeInv, PathInv, Real # None, Parent(Here) # Parent(Root)
    PROVE  Parent(Here) \in Nodes
<1>1. Here = Real /\ Real \in Nodes /\ Forest(kids)
  BY DEF Here, Real, PathInv, TreeInv, Iters
<1>2. ParentIn(kids, Root) = None /\ ParentIn(kids, Real) # None
  BY <1>1, InKids, RootParent, NodesAre
<1> QED  BY <1>1, <1>2, InKids, ParentOf

(* The steps of the iterator keep the types.                               *)
LEMMA IterateTypes ==
    ASSUME IInv, Types, Iterate
    PROVE  Types'
<1>1. who = "real" /\ "real" \in Iters
  BY DEF IInv, PathInv, Iters
<1>2. ASSUME InStep
      PROVE  /\ mode' \in [Iters -> {"normal", "random"}] /\ file' = -1
             /\ UNCHANGED <<site, eof, entry, heard, place, aim, tree>>
             /\ Here \in Nodes
  <2>1. mode' = Set(mode, "real", IF Random THEN "random" ELSE "normal")
    BY <1>1, <1>2 DEF InStep
  <2>2. mode' \in [Iters -> {"normal", "random"}]
    BY <2>1 DEF Set, Types, CountsInv
  <2> QED
    BY <1>1, <1>2, <2>2, InStepIs DEF InStep, Moving, mainVars, history
<1>3. CASE StepFirst
  <2>1. d' = 0 /\ UNCHANGED <<loop, stack, mode, file>>
    BY <1>3 DEF StepFirst
  <2>2. CountsInv'
    BY <2>1, CountsStay DEF Types, CountsInv
  <2>3. CallsInv' /\ NodesInv' /\ PlacesInv'
    BY <1>3
    DEF StepFirst, Moving, mainVars, history, Types, CallsInv, NodesInv,
        PlacesInv
  <2> QED  BY <2>2, <2>3 DEF Types
<1>4. CASE StepInto
  <2>1. InStep /\ pc' = "down" /\ UNCHANGED <<loop, stack, d, result, played>>
    BY <1>4 DEF StepInto
  <2> QED
    BY <1>2, <2>1 DEF Types, CountsInv, CallsInv, NodesInv, PlacesInv
<1>5. CASE StepEntry
  <2>1. /\ InStep /\ pc' = "returned" /\ result' = "ENTRY"
        /\ UNCHANGED <<loop, stack, d>>
    BY <1>5 DEF StepEntry, Returns
  <2>2. PICK n \in Targets :
            played' = IF Random THEN played \cup {n} ELSE played
    BY <1>5 DEF StepEntry
  <2>3. n \in Nodes
    BY <2>1, InStepIs, TargetsAre, SiblingsAre DEF IInv
  <2> QED
    BY <1>2, <2>1, <2>2, <2>3
    DEF Types, CountsInv, CallsInv, NodesInv, PlacesInv
<1>6. CASE StepNoneLeft
  <2>1. /\ InStep /\ pc' = "returned" /\ result' = "END"
        /\ UNCHANGED <<loop, stack, d, played>>
    BY <1>6 DEF StepNoneLeft, Returns
  <2> QED
    BY <1>2, <2>1 DEF Types, CountsInv, CallsInv, NodesInv, PlacesInv
<1>7. CASE StepLoop
  <2>1. /\ InStep /\ loop' = Set(loop, "real", LoopOn) /\ d' = 0
        /\ UNCHANGED <<stack, pc, result, played>>
    BY <1>1, <1>7 DEF StepLoop
  <2>2. LoopOn \in Counts
    BY <1>1 DEF LoopOn, Types, CountsInv, Counts
  <2>3. loop' \in [Iters -> Counts]
    BY <2>1, <2>2 DEF Set, Types, CountsInv
  <2> QED
    BY <1>2, <2>1, <2>3 DEF Types, CountsInv, CallsInv, NodesInv, PlacesInv
<1>8. CASE StepUp
  <2>1. InStep /\ pc' = "up" /\ UNCHANGED <<loop, stack, d, result, played>>
    BY <1>8 DEF StepUp
  <2> QED
    BY <1>2, <2>1 DEF Types, CountsInv, CallsInv, NodesInv, PlacesInv
<1>9. CASE UpEnd
  <2>1. /\ pc' = "returned" /\ result' = "END" /\ file' = -1
        /\ UNCHANGED <<loop, stack, mode, d, played>>
        /\ UNCHANGED <<site, eof, entry, heard, place, aim>>
    BY <1>1, <1>9 DEF UpEnd, InUp, Returns, Moving, mainVars, history
  <2> QED
    BY <2>1 DEF Types, CountsInv, CallsInv, NodesInv, PlacesInv
<1>10. CASE Up
  <2>1. /\ pc = "up" /\ pc' = "step" /\ file' = -1 /\ played' = UpMark
        /\ UNCHANGED <<mode, d, result>>
        /\ UNCHANGED <<site, eof, entry, heard, place, aim>>
        /\ Parent(Here) # Parent(Root) /\ stack["real"] # <<>>
        /\ loop' = Set(loop, "real", Last(stack["real"]))
        /\ stack' = Set(stack, "real", Front(stack["real"]))
    BY <1>1, <1>10 DEF Up, InUp, UpPop, Moving, mainVars, history
  <2>2. Parent(Here) \in Nodes
    BY <2>1, UpperIs DEF IInv, PathInv
  <2>3. stack["real"] \in Seq(Counts)
    BY <1>1 DEF Types, CountsInv
  <2>4. Last(stack["real"]) \in Counts /\ Front(stack["real"]) \in Seq(Counts)
    BY <2>1, <2>3, PopIs
  <2>5. loop' \in [Iters -> Counts] /\ stack' \in [Iters -> Seq(Counts)]
    BY <2>1, <2>4 DEF Set, Types, CountsInv
  <2>6. played' \subseteq Nodes
    BY <2>1, <2>2 DEF UpMark, Types, NodesInv
  <2> QED
    BY <2>1, <2>5, <2>6 DEF Types, CountsInv, CallsInv, NodesInv, PlacesInv
<1>11. CASE Down
  <2>1. /\ pc' = "step" /\ file' = -1 /\ d' = 0 /\ pc = "down"
        /\ UNCHANGED <<mode, result, played>>
        /\ UNCHANGED <<site, eof, entry, heard, place, aim>>
        /\ loop' = Set(loop, "real", tree.loops[Here] - 1)
        /\ stack' = Set(stack, "real", Append(stack["real"], loop["real"]))
    BY <1>1, <1>11 DEF Down, Moving, mainVars, history
  <2>2. Here \in Nodes
    BY <1>1, <2>1 DEF Here, IInv, PathInv, Real
  <2>3. tree.loops \in [Nodes -> Nat \cup {-1}]
    BY TreesAssumption DEF IInv, TreeInv, TreeType
  <2>4. tree.loops[Here] - 1 \in Counts
    BY <2>2, <2>3 DEF Counts
  <2>5. loop["real"] \in Counts /\ stack["real"] \in Seq(Counts)
    BY <1>1 DEF Types, CountsInv
  <2>6. Append(stack["real"], loop["real"]) \in Seq(Counts)
    BY <2>5
  <2>7. loop' \in [Iters -> Counts] /\ stack' \in [Iters -> Seq(Counts)]
    BY <2>1, <2>4, <2>6 DEF Set, Types, CountsInv
  <2> QED
    BY <2>1, <2>7 DEF Types, CountsInv, CallsInv, NodesInv, PlacesInv
<1> QED
  BY <1>3, <1>4, <1>5, <1>6, <1>7, <1>8, <1>9, <1>10, <1>11 DEF Iterate

(* A call of the iterator for a key, or for the way main goes on.          *)
LEMMA CallTypes ==
    ASSUME IInv, Types, NEW k, k \in {<<"step", 1>>, <<"step", -1>>,
                                      <<"up", 1>>, <<"up", -1>>},
           NEW s \in {"entry", "name", "list", "key"}, Calls("real", s, k),
           UNCHANGED <<loop, stack, mode, file, eof, played, heard>>
    PROVE  CountsInv' /\ CallsInv' /\ (entry' = entry => NodesInv')
<1>1. k[1] \in {"step", "up"} /\ k[2] \in -1 .. 1
  OBVIOUS
<1>2. /\ site' = s /\ pc' = k[1] /\ d' = k[2] /\ result' = "none"
  BY DEF Calls
<1> QED
  BY <1>1, <1>2 DEF Types, CountsInv, CallsInv, NodesInv

(* So does main.                                                           *)
LEMMA MainTypes ==
    ASSUME IInv, Types, Main
    PROVE  Types'
<1> DEFINE Keys == {<<"step", 1>>, <<"step", -1>>, <<"up", 1>>, <<"up", -1>>}
<1>1. /\ tree.keys \subseteq Keys /\ tree.files \in [Nodes -> Nat]
  BY TreesAssumption DEF IInv, TreeInv, TreeType
<1>2. \A k \in Keys : k[2] \in Int
  OBVIOUS
<1>3. CASE NextEntry
  <2>1. /\ Calls("real", "entry", <<"step", 1>>)
        /\ aim' = Aim(<<"step", 1>>)
        /\ UNCHANGED <<loop, stack, mode, file, eof, played, heard, place,
                       entry>>
    BY <1>3 DEF NextEntry, TreeOnly
  <2>2. CountsInv' /\ CallsInv' /\ NodesInv'
    BY <2>1, CallTypes
  <2>3. PlacesInv'
    BY <2>1, AimIs DEF Types, PlacesInv
  <2> QED  BY <2>2, <2>3 DEF Types
<1>4. CASE Interrupted
  <2>1. PICK k \in tree.keys : Calls("real", "entry", k) /\ aim' = Aim(k)
    BY <1>4 DEF Interrupted
  <2>2. UNCHANGED <<loop, stack, mode, file, eof, played, heard, place, entry>>
    BY <1>4 DEF Interrupted, TreeOnly
  <2>3. CountsInv' /\ CallsInv' /\ NodesInv'
    BY <1>1, <2>1, <2>2, CallTypes
  <2>4. PlacesInv'
    BY <1>1, <1>2, <2>1, <2>2, AimIs DEF Types, PlacesInv
  <2> QED  BY <2>3, <2>4 DEF Types
<1>5. CASE InterruptedAlt
  <2>1. PICK k \in tree.keys : eof' = k[2]
    BY <1>5 DEF InterruptedAlt
  <2>2. k \in Keys
    BY <1>1
  <2>3. eof' \in {-1, 1}
    BY <2>1, <2>2
  <2> QED
    BY <1>5, <2>3
    DEF InterruptedAlt, TreeOnly, history, Types, CountsInv, CallsInv,
        NodesInv, PlacesInv
<1>6. CASE AltSource
  BY <1>6
  DEF AltSource, TreeOnly, history, Types, CountsInv, CallsInv, NodesInv,
      PlacesInv
<1>7. CASE EntryFound
  BY <1>7
  DEF EntryFound, TreeOnly, history, Types, CountsInv, CallsInv, NodesInv,
      PlacesInv
<1>8. CASE NameNone
  <2> DEFINE k == <<"step", eof>>
  <2>1. /\ Calls("real", "name", k) /\ aim' = Aim(k)
        /\ UNCHANGED <<loop, stack, mode, file, eof, played, heard, place,
                       entry>>
    BY <1>8 DEF NameNone, TreeOnly
  <2>2. k \in Keys
    BY DEF Types, CallsInv
  <2> HIDE DEF k
  <2>3. CountsInv' /\ CallsInv' /\ NodesInv'
    BY <2>1, <2>2, CallTypes
  <2>4. PlacesInv'
    BY <1>2, <2>1, <2>2, AimIs DEF Types, PlacesInv
  <2> QED  BY <2>3, <2>4 DEF Types
<1>9. CASE Name
  <2>1. at["real"] \in Nodes
    BY <1>9, NodesAre DEF Name, IInv, PathInv, Real, Iters
  <2>2. file' \in Int
    BY <1>1, <1>9, <2>1 DEF Name, Types, CountsInv
  <2>3. CountsInv'
    BY <1>9, <2>2 DEF Name, TreeOnly, Types, CountsInv
  <2>4. CallsInv' /\ NodesInv'
    BY <1>9, <2>1 DEF Name, mainVars, Types, CallsInv, NodesInv
  <2>5. PlacesInv'
    BY <1>9 DEF Name, Types, PlacesInv
  <2> QED  BY <2>3, <2>4, <2>5 DEF Types
<1>10. CASE InsertList
  <2>1. /\ Calls("real", "list", <<"step", 1>>) /\ entry' = at["real"]
        /\ UNCHANGED <<loop, stack, mode, file, eof, played, heard, place, aim>>
    BY <1>10 DEF InsertList, TreeOnly, history
  <2>2. CountsInv' /\ CallsInv'
    BY <2>1, CallTypes
  <2>3. at["real"] \in Nodes \cup {None}
    BY DEF IInv, PathInv, Iters
  <2> QED  BY <2>1, <2>2, <2>3 DEF Types, NodesInv, PlacesInv
<1>11. CASE RemoveList
  BY <1>11
  DEF RemoveList, TreeOnly, history, Types, CountsInv, CallsInv, NodesInv,
      PlacesInv
<1> QED
  BY <1>3, <1>4, <1>5, <1>6, <1>7, <1>8, <1>9, <1>10, <1>11 DEF Main

(* Every variable keeps its type, whatever the playlists; that the loop    *)
(* counts on the stack do is needed for what up_step takes from it.        *)
THEOREM PlayTypeOK == PlaySpec => []TypeOK
<1>1. Init => Types
  BY DEF Init, Types, CountsInv, CallsInv, NodesInv, PlacesInv, Counts
<1>2. IInv /\ Types /\ [PlayNext]_vars => Types'
  <2> SUFFICES ASSUME IInv, Types, [PlayNext]_vars PROVE Types'
    OBVIOUS
  <2>1. CASE PlayNext
    BY <2>1, IterateTypes, MainTypes DEF PlayNext
  <2>2. CASE UNCHANGED vars
    BY <2>2
    DEF vars, iterVars, mainVars, history, Types, CountsInv, CallsInv,
        NodesInv, PlacesInv
  <2> QED  BY <2>1, <2>2
<1>3. IInv /\ Types => TypeOK
  <2> SUFFICES ASSUME IInv, Types PROVE TypeOK
    OBVIOUS
  <2>1. stack \in [Iters -> Seq(Int)] /\ loop \in [Iters -> Nat \cup {-1, -2}]
    BY DEF Types, CountsInv, Counts
  <2>2. tree \in Trees /\ kids \in [Nodes -> Seq(Nodes)]
    BY DEF IInv, TreeInv, Forest
  <2>3. at \in [Iters -> Nodes \cup {None}] /\ who \in Iters
    BY DEF IInv, PathInv, Iters
  <2> QED
    BY <2>1, <2>2, <2>3
    DEF TypeOK, Types, CountsInv, CallsInv, NodesInv, PlacesInv
<1> QED
  BY <1>1, <1>2, <1>3, FirstInv, NextInv, PTL DEF PlaySpec
=============================================================================
