------------------------- MODULE DemuxStreamsProofs -------------------------
(***************************************************************************)
(* Proofs about the packet queues, for every file, every limit of the      *)
(* queues and every size of the reads.                                     *)
(*                                                                         *)
(* Induction on a set of numbers: what holds of no number at all holds of  *)
(* no smallest one, and every set of numbers has one.                      *)
(***************************************************************************)
EXTENDS DemuxStreams, TLAPS, FiniteSetTheorems, SequenceTheorems,
        NaturalsInduction, WellFoundedInduction

(* A set of natural numbers has a least element.                           *)
LEMMA Least ==
    ASSUME NEW T \in SUBSET Nat, T # {}
    PROVE  \E m \in T : \A k \in T : m <= k
<1> DEFINE R == OpToRel(<, Nat)
<1>1. IsWellFoundedOn(R, Nat)
  BY NatLessThanWellFounded
<1>2. \E m \in T : \A k \in T : <<k, m>> \notin R
  <2> HIDE DEF R
  <2> QED  BY <1>1, WFMin
<1>3. \A k, m \in Nat : <<k, m>> \notin R => m <= k
  BY DEF OpToRel
<1> QED  BY <1>2, <1>3

(* A bounded one has a greatest.                                           *)
LEMMA Greatest ==
    ASSUME NEW T \in SUBSET Nat, T # {}, NEW b \in Nat, \A k \in T : k <= b
    PROVE  \E m \in T : \A k \in T : k <= m
<1> DEFINE Bounds == {n \in Nat : \A k \in T : k <= n}
<1>1. PICK m \in Bounds : \A n \in Bounds : m <= n
  BY Least
<1>2. m \in T
  <2> SUFFICES ASSUME m \notin T PROVE FALSE
    OBVIOUS
  <2>1. m # 0
    <3>1. PICK k \in T : TRUE
      OBVIOUS
    <3> QED  BY <3>1
  <2>2. m - 1 \in Bounds
    BY <2>1
  <2> QED  BY <1>1, <2>2
<1> QED  BY <1>2

(* What Min and Max choose.                                                *)
LEMMA MinIs ==
    ASSUME NEW T \in SUBSET Nat, T # {}
    PROVE  Min(T) \in T /\ \A k \in T : Min(T) <= k
  BY Least DEF Min

LEMMA MaxIs ==
    ASSUME NEW T \in SUBSET Nat, T # {}, NEW b \in Nat, \A k \in T : k <= b
    PROVE  Max(T) \in T /\ \A k \in T : k <= Max(T)
<1>1. \E m \in T : \A k \in T : m >= k
  BY Greatest
<1> QED  BY <1>1 DEF Max

-----------------------------------------------------------------------------
(* The sum of the lengths of some packets.                                 *)

LenOf(p) == File[p].len
Pick(S) == CHOOSE p \in S : TRUE

(* Packets have a stream and a length, and there are finitely many.        *)
LEMMA PacketType ==
    /\ Packets \in SUBSET Nat
    /\ Len(File) \in Nat
    /\ \A p \in Packets : /\ LenOf(p) \in Nat
                          /\ File[p].ds \in Streams
                          /\ File[p].pts \in BOOLEAN
    /\ \A S \in SUBSET Packets : IsFiniteSet(S) /\ Cardinality(S) \in Nat
<1>1. File \in Seq([ds : Streams, len : Nat, pts : BOOLEAN])
  BY FileAssumption
<1>2. Len(File) \in Nat /\ IsFiniteSet(Packets)
  BY <1>1, FS_Interval DEF Packets
<1>3. \A p \in Packets : File[p] \in [ds : Streams, len : Nat, pts : BOOLEAN]
  BY <1>1, ElementOfSeq DEF Packets
<1>4. \A S \in SUBSET Packets : IsFiniteSet(S) /\ Cardinality(S) \in Nat
  BY <1>2, FS_Subset, FS_CardinalityType
<1> QED  BY <1>2, <1>3, <1>4 DEF Packets, LenOf

\* The recursion behind Bytes, over the subsets of S.
Sums(S, f) == [s \in SUBSET S |->
                  IF s = {} THEN 0 ELSE LenOf(Pick(s)) + f[s \ {Pick(s)}]]
SumOf(S) == CHOOSE f : f = Sums(S, f)

(* Bytes is the value of that recursion.                                   *)
LEMMA BytesIsSum ==
    ASSUME NEW S
    PROVE  Bytes(S) = SumOf(S)[S]
  BY DEF Bytes, MapThenSumSet, MapThenFoldSet, SumOf, Sums, Pick, LenOf

(* Picking a packet makes a set of packets smaller.                        *)
LEMMA PickLess ==
    ASSUME NEW s \in SUBSET Packets, s # {}
    PROVE  /\ Pick(s) \in s /\ s \ {Pick(s)} \in SUBSET s
           /\ Cardinality(s \ {Pick(s)}) = Cardinality(s) - 1
           /\ Cardinality(s) > 0
<1>1. Pick(s) \in s
  BY DEF Pick
<1>2. Cardinality(s \ {Pick(s)}) = Cardinality(s) - 1
  BY <1>1, PacketType, FS_RemoveElement
<1>3. Cardinality(s \ {Pick(s)}) \in Nat /\ Cardinality(s) \in Nat
  BY PacketType
<1> QED  BY <1>1, <1>2, <1>3

\* Functions that follow it for sets of up to n packets.
SumsUpto(S, n) ==
    {f \in [SUBSET S -> Nat] :
        \A s \in SUBSET S : Cardinality(s) <= n => f[s] = Sums(S, f)[s]}

(* One that does can be made to do so for one packet more.                 *)
LEMMA SumsFurther ==
    ASSUME NEW S \in SUBSET Packets, NEW n \in Nat, n > 0,
           NEW g \in SumsUpto(S, n - 1)
    PROVE  Sums(S, g) \in SumsUpto(S, n)
<1> DEFINE f == Sums(S, g)
<1>1. ASSUME NEW s \in SUBSET S, s # {}
      PROVE  /\ s \ {Pick(s)} \in SUBSET S /\ LenOf(Pick(s)) \in Nat
             /\ Cardinality(s) <= n => Cardinality(s \ {Pick(s)}) <= n - 1
  <2>1. /\ Pick(s) \in s /\ s \ {Pick(s)} \in SUBSET s
        /\ Cardinality(s \ {Pick(s)}) = Cardinality(s) - 1
    BY <1>1, PickLess
  <2>2. Cardinality(s) \in Nat /\ Pick(s) \in Packets
    BY <2>1, PacketType
  <2>3. LenOf(Pick(s)) \in Nat
    BY <2>2, PacketType
  <2> QED  BY <2>1, <2>2, <2>3
<1>2. g \in [SUBSET S -> Nat]
  BY DEF SumsUpto
<1>3. f \in [SUBSET S -> Nat]
  <2>1. ASSUME NEW s \in SUBSET S, s # {}
        PROVE  LenOf(Pick(s)) + g[s \ {Pick(s)}] \in Nat
    <3>1. g[s \ {Pick(s)}] \in Nat /\ LenOf(Pick(s)) \in Nat
      BY <1>1, <1>2, <2>1
    <3> QED  BY <3>1
  <2> QED  BY <2>1 DEF Sums
<1>4. ASSUME NEW s \in SUBSET S, Cardinality(s) <= n
      PROVE  f[s] = Sums(S, f)[s]
  <2>1. CASE s = {}
    BY <2>1 DEF Sums
  <2>2. CASE s # {}
    <3>1. g[s \ {Pick(s)}] = f[s \ {Pick(s)}]
      BY <1>1, <1>4, <2>2 DEF SumsUpto
    <3> QED  BY <2>2, <3>1 DEF Sums
  <2> QED  BY <2>1, <2>2
<1> QED  BY <1>3, <1>4 DEF SumsUpto

(* The recursion ends: there is such a function.                           *)
LEMMA SumsExist ==
    ASSUME NEW S \in SUBSET Packets
    PROVE  \E f : f = Sums(S, f)
<1> DEFINE Bad == {n \in Nat : SumsUpto(S, n) = {}}
<1>1. Bad = {}
  <2> SUFFICES ASSUME Bad # {} PROVE FALSE
    OBVIOUS
  <2>1. PICK n \in Bad : \A k \in Bad : n <= k
    BY Least
  <2>2. n \in Nat /\ SumsUpto(S, n) = {}
    OBVIOUS
  <2>3. CASE n = 0
    <3>1. \A s \in SUBSET S : Cardinality(s) <= 0 => s = {}
      BY PacketType, FS_EmptySet
    <3>2. [s \in SUBSET S |-> 0] \in SumsUpto(S, 0)
      BY <3>1 DEF Sums, SumsUpto
    <3> QED  BY <2>2, <2>3, <3>2
  <2>4. CASE n > 0
    <3>1. n - 1 \in Nat /\ n - 1 \notin Bad
      BY <2>1, <2>2, <2>4
    <3>2. PICK g : g \in SumsUpto(S, n - 1)
      BY <3>1
    <3> QED  BY <2>2, <2>4, <3>2, SumsFurther
  <2> QED  BY <2>2, <2>3, <2>4
<1>2. Cardinality(S) \in Nat
  BY PacketType
<1>3. SumsUpto(S, Cardinality(S)) # {}
  BY <1>1, <1>2
<1>4. PICK f : f \in SumsUpto(S, Cardinality(S))
  BY <1>3
<1>5. \A s \in SUBSET S : Cardinality(s) <= Cardinality(S)
  BY PacketType, FS_Subset
<1>6. f = Sums(S, f)
  <2>1. f \in [SUBSET S -> Nat] /\ \A s \in SUBSET S : f[s] = Sums(S, f)[s]
    BY <1>4, <1>5 DEF SumsUpto
  <2>2. Sums(S, f) = [s \in SUBSET S |-> Sums(S, f)[s]]
    BY DEF Sums
  <2> QED  BY <2>1, <2>2
<1> QED  BY <1>6

(* Two that follow it agree, and give natural numbers.                     *)
LEMMA SumsAgree ==
    ASSUME NEW S \in SUBSET Packets, NEW f, f = Sums(S, f),
           NEW R \in SUBSET Packets, NEW g, g = Sums(R, g)
    PROVE  \A s \in SUBSET (S \cap R) : f[s] = g[s] /\ f[s] \in Nat
<1> DEFINE Bad == {n \in Nat : \E s \in SUBSET (S \cap R) :
                      Cardinality(s) = n /\ ~ (f[s] = g[s] /\ f[s] \in Nat)}
<1>1. Bad = {}
  <2> SUFFICES ASSUME Bad # {} PROVE FALSE
    OBVIOUS
  <2>1. PICK n \in Bad : \A k \in Bad : n <= k
    BY Least
  <2>2. PICK s \in SUBSET (S \cap R) :
            Cardinality(s) = n /\ ~ (f[s] = g[s] /\ f[s] \in Nat)
    BY <2>1
  <2>3. s # {}
    <3> SUFFICES ASSUME s = {} PROVE FALSE
      OBVIOUS
    <3>1. f[{}] = 0 /\ g[{}] = 0
      BY DEF Sums
    <3> QED  BY <2>2, <3>1
  <2> DEFINE r == s \ {Pick(s)}
  <2>4. /\ Pick(s) \in s /\ r \in SUBSET (S \cap R)
        /\ Cardinality(r) = n - 1 /\ Cardinality(r) \in Nat
    BY <2>2, <2>3, PickLess, PacketType
  <2>5. f[r] = g[r] /\ f[r] \in Nat
    <3>1. n - 1 \notin Bad
      BY <2>1, <2>4
    <3> QED  BY <2>4, <3>1
  <2>6. f[s] = LenOf(Pick(s)) + f[r] /\ g[s] = LenOf(Pick(s)) + g[r]
    BY <2>3 DEF Sums
  <2>7. LenOf(Pick(s)) \in Nat
    BY <2>4, PacketType
  <2> QED  BY <2>2, <2>5, <2>6, <2>7
<1>2. \A s \in SUBSET (S \cap R) : Cardinality(s) \in Nat
  BY PacketType
<1> QED  BY <1>1, <1>2

(* So Bytes adds up as one thinks: from no packets on, the one picked and  *)
(* the others ...                                                          *)
LEMMA BytesPick ==
    ASSUME NEW S \in SUBSET Packets
    PROVE  /\ Bytes(S) \in Nat
           /\ S = {} => Bytes(S) = 0
           /\ S # {} => Bytes(S) = LenOf(Pick(S)) + Bytes(S \ {Pick(S)})
<1> DEFINE R == S \ {Pick(S)}
<1>1. R \in SUBSET Packets
  OBVIOUS
<1>2. SumOf(S) = Sums(S, SumOf(S)) /\ SumOf(R) = Sums(R, SumOf(R))
  BY <1>1, SumsExist DEF SumOf
<1>3. SumOf(S)[S] \in Nat
  BY <1>2, SumsAgree
<1>4. S = {} => SumOf(S)[S] = 0
  BY <1>2 DEF Sums
<1>5. S # {} => SumOf(S)[S] = LenOf(Pick(S)) + SumOf(S)[R]
  BY <1>2 DEF Sums
<1>6. SumOf(S)[R] = SumOf(R)[R]
  <2>1. R \in SUBSET (S \cap R)
    OBVIOUS
  <2> HIDE DEF R
  <2> QED  BY <1>1, <1>2, <2>1, SumsAgree
<1> QED  BY <1>3, <1>4, <1>5, <1>6, BytesIsSum

(* ... or any one and the others.                                          *)
LEMMA BytesRemove ==
    ASSUME NEW S \in SUBSET Packets, NEW p \in S
    PROVE  Bytes(S) = LenOf(p) + Bytes(S \ {p})
<1> DEFINE Wrong(s) == \E q \in s : Bytes(s) # LenOf(q) + Bytes(s \ {q})
           Bad == {n \in Nat : \E s \in SUBSET Packets :
                                   Cardinality(s) = n /\ Wrong(s)}
<1>1. Bad = {}
  <2> SUFFICES ASSUME Bad # {} PROVE FALSE
    OBVIOUS
  <2>1. PICK n \in Bad : \A k \in Bad : n <= k
    BY Least
  <2>2. PICK s \in SUBSET Packets : Cardinality(s) = n /\ Wrong(s)
    BY <2>1
  <2>3. PICK q \in s : Bytes(s) # LenOf(q) + Bytes(s \ {q})
    BY <2>2
  <2> DEFINE x == Pick(s)
  <2>4. x \in s /\ Cardinality(s) = n
    BY <2>2, <2>3, PickLess
  <2>5. Bytes(s) = LenOf(x) + Bytes(s \ {x})
    BY <2>3, BytesPick
  <2>6. x # q
    BY <2>3, <2>5
  <2>7. ASSUME NEW y \in s, NEW z \in s, y # z
        PROVE  Bytes(s \ {y}) = LenOf(z) + Bytes(s \ {y, z})
    <3>1. /\ s \ {y} \in SUBSET Packets /\ z \in s \ {y}
          /\ Cardinality(s \ {y}) = Cardinality(s) - 1
          /\ Cardinality(s \ {y}) \in Nat /\ Cardinality(s) \in Nat
      BY <2>7, PacketType, FS_RemoveElement
    <3>2. ~ Wrong(s \ {y})
      <4>1. Cardinality(s \ {y}) \notin Bad
        BY <2>1, <2>2, <3>1
      <4> QED  BY <3>1, <4>1
    <3>3. (s \ {y}) \ {z} = s \ {y, z}
      OBVIOUS
    <3> QED  BY <3>1, <3>2, <3>3
  <2>8. /\ Bytes(s \ {x}) = LenOf(q) + Bytes(s \ {x, q})
        /\ Bytes(s \ {q}) = LenOf(x) + Bytes(s \ {x, q})
    <3>1. s \ {x, q} = s \ {q, x}
      OBVIOUS
    <3> HIDE DEF x
    <3> QED  BY <2>4, <2>6, <2>7, <3>1
  <2>9. LenOf(x) \in Nat /\ LenOf(q) \in Nat /\ Bytes(s \ {x, q}) \in Nat
    BY <2>4, PacketType, BytesPick
  <2> QED  BY <2>3, <2>5, <2>8, <2>9
<1>2. Cardinality(S) \in Nat
  BY PacketType
<1> QED  BY <1>1, <1>2

(* A packet more adds its length.                                          *)
LEMMA BytesAdd ==
    ASSUME NEW S \in SUBSET Packets, NEW p \in Packets \ S
    PROVE  Bytes(S \cup {p}) = Bytes(S) + LenOf(p)
<1>1. (S \cup {p}) \ {p} = S
  OBVIOUS
<1>2. Bytes(S \cup {p}) = LenOf(p) + Bytes(S)
  BY <1>1, BytesRemove
<1>3. Bytes(S) \in Nat /\ LenOf(p) \in Nat
  BY BytesPick, PacketType
<1> QED  BY <1>2, <1>3

(* No packet is longer than all packets together, so there is a longest.   *)
LEMMA LongestIs ==
    ASSUME NEW p \in Packets
    PROVE  LET longest == Max({File[q].len : q \in Packets})
           IN longest \in Nat /\ LenOf(p) <= longest
<1> DEFINE T == {File[q].len : q \in Packets}
<1>1. \A q \in Packets : LenOf(q) <= Bytes(Packets)
  <2> SUFFICES ASSUME NEW q \in Packets PROVE LenOf(q) <= Bytes(Packets)
    OBVIOUS
  <2>1. Bytes(Packets) = LenOf(q) + Bytes(Packets \ {q})
    BY BytesRemove
  <2>2. Bytes(Packets \ {q}) \in Nat /\ LenOf(q) \in Nat
    BY BytesPick, PacketType
  <2> QED  BY <2>1, <2>2
<1>2. T \in SUBSET Nat /\ T # {} /\ LenOf(p) \in T
  BY PacketType DEF LenOf
<1>3. \A k \in T : k <= Bytes(Packets)
  BY <1>1 DEF LenOf
<1>4. Bytes(Packets) \in Nat
  BY BytesPick
<1>5. Max(T) \in T /\ \A k \in T : k <= Max(T)
  <2> HIDE DEF T
  <2> QED  BY <1>2, <1>3, <1>4, MaxIs
<1> QED  BY <1>2, <1>5

-----------------------------------------------------------------------------
(* The list of a queue.                                                    *)

\* The packet of S that comes next behind p.
Behind(S, p) == LET later == {q \in S : q > p}
                IN IF later = {} THEN None ELSE Min(later)

\* The queue f .. l, linked by n, is S.
IsList(S, f, l, n) ==
    /\ f = Behind(S, 0)
    /\ l = IF S = {} THEN None ELSE Max(S)
    /\ \A p \in S : n[p] = Behind(S, p)

(* Behind is what it says.                                                 *)
LEMMA BehindIs ==
    ASSUME NEW S \in SUBSET Packets, NEW p \in Nat
    PROVE  \/ /\ Behind(S, p) = None
              /\ \A q \in S : q <= p
           \/ /\ Behind(S, p) \in S /\ Behind(S, p) > p
              /\ \A q \in S : q > p => Behind(S, p) <= q
<1> DEFINE later == {q \in S : q > p}
<1>1. S \in SUBSET Nat
  BY PacketType
<1>2. CASE later = {}
  BY <1>1, <1>2 DEF Behind
<1>3. CASE later # {}
  <2>1. later \in SUBSET Nat
    BY <1>1
  <2>2. Min(later) \in later /\ \A k \in later : Min(later) <= k
    <3> HIDE DEF later
    <3> QED  BY <1>3, <2>1, MinIs
  <2>3. Behind(S, p) = Min(later)
    BY <1>3 DEF Behind
  <2> QED  BY <2>2, <2>3
<1> QED  BY <1>2, <1>3

(* The last packet is the greatest.                                        *)
LEMMA LastIs ==
    ASSUME NEW S \in SUBSET Packets, S # {}
    PROVE  Max(S) \in S /\ \A q \in S : q <= Max(S)
<1>1. Len(File) \in Nat /\ S \in SUBSET Nat /\ \A q \in S : q <= Len(File)
  BY PacketType DEF Packets
<1> QED  BY <1>1, MaxIs

(* A packet appended to the list.                                          *)
LEMMA ListAppend ==
    ASSUME NEW S \in SUBSET Packets, NEW p \in Packets, \A q \in S : q < p,
           NEW f, NEW l, NEW n, IsList(S, f, l, n)
    PROVE  LET T == S \cup {p}
           IN /\ l = None <=> S = {}
              /\ l # None => l \in S
              /\ Max(T) = p
              /\ Behind(T, 0) = IF S = {} THEN p ELSE f
              /\ Behind(T, p) = None
              /\ \A q \in S : Behind(T, q) = IF q = l THEN p ELSE n[q]
<1> DEFINE T == S \cup {p}
<1>1. /\ T \in SUBSET Packets /\ T \in SUBSET Nat /\ p \in T /\ T # {}
      /\ 0 \notin T /\ 0 \in Nat
  BY PacketType DEF Packets
<1>2. (l = None <=> S = {}) /\ (l # None => l \in S /\ \A q \in S : q <= l)
  BY <1>1, LastIs DEF IsList, None
<1>3. Max(T) = p
  <2>1. Max(T) \in T /\ \A q \in T : q <= Max(T)
    BY <1>1, LastIs
  <2> QED  BY <1>1, <2>1
<1>4. Behind(T, 0) = IF S = {} THEN p ELSE f
  <2> HIDE DEF T
  <2>1. \/ /\ Behind(T, 0) = None /\ \A q \in T : q <= 0
        \/ /\ Behind(T, 0) \in T /\ \A q \in T : q > 0 => Behind(T, 0) <= q
    BY <1>1, BehindIs
  <2>2. \/ /\ f = None /\ \A q \in S : q <= 0
        \/ /\ f \in S /\ \A q \in S : q > 0 => f <= q
    BY <1>1, BehindIs DEF IsList
  <2>3. \A q \in T : q \in Nat /\ q > 0
    BY <1>1
  <2> QED  BY <1>1, <2>1, <2>2, <2>3 DEF T
<1>5. Behind(T, p) = None
  <2>1. \/ Behind(T, p) = None
        \/ Behind(T, p) \in T /\ Behind(T, p) > p
    BY <1>1, BehindIs
  <2> QED  BY <1>1, <2>1
<1>6. ASSUME NEW q \in S
      PROVE  Behind(T, q) = IF q = l THEN p ELSE n[q]
  <2>1. q \in T /\ q \in Nat /\ q < p
    BY <1>1
  <2>2. \/ /\ Behind(T, q) = None /\ \A r \in T : r <= q
        \/ /\ Behind(T, q) \in T /\ Behind(T, q) > q
           /\ \A r \in T : r > q => Behind(T, q) <= r
    <3> HIDE DEF T
    <3> QED  BY <1>1, <2>1, BehindIs
  <2>3. \/ /\ n[q] = None /\ \A r \in S : r <= q
        \/ /\ n[q] \in S /\ n[q] > q /\ \A r \in S : r > q => n[q] <= r
    BY <2>1, BehindIs DEF IsList
  <2>4. l \in S /\ (\A r \in S : r <= l) /\ l \in Nat /\ l # None
    BY <1>1, <1>2 DEF None
  <2>5. \A r \in S : r \in Nat /\ r < p
    BY <1>1
  <2>6. Behind(T, q) # None
    BY <1>1, <2>1, <2>2 DEF None
  <2>7. CASE q = l
    <3>1. Behind(T, q) \in T /\ Behind(T, q) > q /\ Behind(T, q) \in Nat
      BY <1>1, <2>2, <2>6
    <3>2. Behind(T, q) \notin S
      BY <2>4, <2>5, <2>7, <3>1
    <3>3. Behind(T, q) = p
      BY <3>1, <3>2
    <3> QED  BY <2>7, <3>3
  <2>8. CASE q # l
    <3>1. q < l
      BY <2>1, <2>4, <2>8
    <3>2. n[q] \in S /\ n[q] > q /\ \A r \in S : r > q => n[q] <= r
      BY <2>1, <2>3, <2>4, <3>1
    <3>3. Behind(T, q) \in S
      <4>1. Behind(T, q) \in T /\ Behind(T, q) <= n[q]
        BY <2>2, <2>6, <3>2
      <4>2. n[q] < p /\ n[q] \in Nat
        BY <2>5, <3>2
      <4>3. Behind(T, q) # p
        BY <1>1, <4>1, <4>2
      <4> QED  BY <4>1, <4>3
    <3>4. Behind(T, q) <= n[q] /\ n[q] <= Behind(T, q)
      BY <2>2, <2>6, <3>2, <3>3
    <3> QED  BY <2>5, <2>8, <3>2, <3>3, <3>4
  <2> QED  BY <2>7, <2>8
<1> QED  BY <1>2, <1>3, <1>4, <1>5, <1>6

(* The first packet taken from the list.                                   *)
LEMMA ListTake ==
    ASSUME NEW S \in SUBSET Packets, S # {},
           NEW f, NEW l, NEW n, IsList(S, f, l, n),
           NEW T, T = {q \in S : q > f}
    PROVE  /\ f \in S /\ T = S \ {f}
           /\ n[f] = None <=> T = {}
           /\ IsList(T, n[f], IF T = {} THEN None ELSE l, n)
<1>1. /\ S \in SUBSET Nat /\ 0 \notin S /\ 0 \in Nat
      /\ \A q \in S : q \in Nat /\ q > 0
  BY PacketType DEF Packets
<1>2. f \in S /\ \A q \in S : f <= q
  <2>1. \/ /\ f = None /\ \A q \in S : q <= 0
        \/ /\ f \in S /\ \A q \in S : q > 0 => f <= q
    BY <1>1, BehindIs DEF IsList
  <2>2. f \in S
    <3>1. PICK q \in S : TRUE
      OBVIOUS
    <3>2. q \in Nat /\ q > 0
      BY <1>1
    <3>3. ~ \A r \in S : r <= 0
      BY <3>2
    <3> QED  BY <2>1, <3>3
  <2>3. f # None
    BY <1>1, <2>2 DEF None
  <2> QED  BY <1>1, <2>1, <2>2, <2>3
<1>3. T = S \ {f} /\ T \in SUBSET Packets
  <2>1. \A q \in S : q \in Int /\ f \in Int /\ f <= q
    BY <1>1, <1>2
  <2>2. \A q \in S : q > f <=> q # f
    BY <2>1
  <2> QED  BY <2>2
<1>4. n[f] = Behind(S, f)
  BY <1>2 DEF IsList
<1>5. n[f] = Behind(T, 0)
  <2>1. {q \in T : q > 0} = {q \in S : q > f}
    <3>1. \A q \in T : q > 0
      BY <1>1
    <3> QED  BY <3>1
  <2> QED  BY <1>4, <2>1 DEF Behind
<1>6. n[f] = None <=> T = {}
  <2>1. T \in SUBSET Nat /\ 0 \notin T
    BY <1>1
  <2>2. \/ Behind(T, 0) = None /\ \A q \in T : q <= 0
        \/ Behind(T, 0) \in T
    BY <1>1, <1>3, BehindIs
  <2> QED  BY <1>5, <2>1, <2>2 DEF None
<1>7. ASSUME T # {} PROVE Max(T) = Max(S)
  <2>1. Max(T) \in T /\ \A q \in T : q <= Max(T)
    BY <1>3, <1>7, LastIs
  <2>2. Max(S) \in S /\ \A q \in S : q <= Max(S)
    BY LastIs
  <2>3. PICK q \in S : q > f
    BY <1>7
  <2>4. /\ q \in Nat /\ f \in Nat /\ Max(S) \in Nat /\ Max(T) \in Nat
        /\ q <= Max(S)
    BY <1>1, <1>2, <1>3, <2>1, <2>2
  <2>5. Max(S) \in T
    BY <2>2, <2>3, <2>4
  <2>6. Max(S) <= Max(T) /\ Max(T) <= Max(S)
    BY <1>3, <2>1, <2>2, <2>5
  <2> QED  BY <2>4, <2>6
<1>8. \A q \in T : n[q] = Behind(T, q)
  <2>1. TAKE q \in T
  <2>2. q \in Nat /\ f \in Nat /\ q > f
    BY <1>1, <1>2
  <2>3. \A r \in S : r > q => r > f
    BY <1>1, <2>2
  <2>4. {r \in T : r > q} = {r \in S : r > q}
    BY <2>3
  <2> QED  BY <2>4 DEF IsList, Behind
<1> QED  BY <1>2, <1>3, <1>5, <1>6, <1>7, <1>8 DEF IsList

-----------------------------------------------------------------------------
(* The invariant.                                                          *)

\* The list of stream s is what is pending of it, counted.
Listed(s) == /\ IsList(Pending(s), first[s], last[s], next)
             /\ packs[s] = Cardinality(Pending(s))
             /\ bytes[s] = Bytes(Pending(s))

\* What was taken has been demuxed, and a reader fills an empty buffer only.
PlaceInv ==
    /\ start <= filepos
    /\ \A s \in Streams : taken[s] < filepos
    /\ \A s \in Streams : pc[s] = "fill" => Left(s) = 0

IInv == TypeOK /\ QueueIsPending /\ TellPts /\ QueuesBounded /\ PlaceInv

(* The property, stream by stream.                                         *)
LEMMA QueueIsListed == QueueIsPending <=> \A s \in Streams : Listed(s)
  BY DEF QueueIsPending, Listed, IsList, After, Behind

LEMMA TypeEach ==
    TypeOK <=>
      /\ first \in [Streams -> Packets \cup {None}]
      /\ last \in [Streams -> Packets \cup {None}]
      /\ current \in [Streams -> Packets \cup {None}]
      /\ taken \in [Streams -> Packets \cup {None}]
      /\ next \in [Packets -> Packets \cup {None}]
      /\ packs \in [Streams -> Nat] /\ bytes \in [Streams -> Nat]
      /\ pos \in [Streams -> Nat] /\ size \in [Streams -> Nat]
      /\ pts_bytes \in [Streams -> Nat] /\ since \in [Streams -> Nat]
      /\ want \in [Streams -> Nat]
      /\ eof \in [Streams -> BOOLEAN]
      /\ filepos \in 1 .. Len(File) + 1 /\ start \in 1 .. Len(File) + 1
      /\ mutex \in Streams \cup {"free"} /\ pc \in [Streams -> Places]
  BY DEF TypeOK

LEMMA TypeAt ==
    ASSUME TypeOK, NEW s \in Streams
    PROVE  /\ packs[s] \in Nat /\ bytes[s] \in Nat
           /\ pos[s] \in Nat /\ size[s] \in Nat /\ want[s] \in Nat
           /\ pts_bytes[s] \in Nat /\ since[s] \in Nat
           /\ taken[s] \in Nat /\ start \in Nat /\ filepos \in Nat
<1>1. taken[s] \in Packets \cup {None} /\ Len(File) \in Nat
  BY TypeEach, PacketType
<1>2. taken[s] \in Nat /\ start \in Nat /\ filepos \in Nat
  <2>1. /\ start \in 1 .. Len(File) + 1 /\ filepos \in 1 .. Len(File) + 1
        /\ taken[s] \in 1 .. Len(File) \/ taken[s] = 0
    BY <1>1, TypeEach DEF Packets, None
  <2> QED  BY <1>1, <2>1
<1>3. /\ packs[s] \in Nat /\ bytes[s] \in Nat
      /\ pos[s] \in Nat /\ size[s] \in Nat /\ want[s] \in Nat
      /\ pts_bytes[s] \in Nat /\ since[s] \in Nat
  BY TypeEach
<1> QED  BY <1>2, <1>3

LEMMA TypeEachNext ==
    TypeOK' <=>
      /\ first' \in [Streams -> Packets \cup {None}]
      /\ last' \in [Streams -> Packets \cup {None}]
      /\ current' \in [Streams -> Packets \cup {None}]
      /\ taken' \in [Streams -> Packets \cup {None}]
      /\ next' \in [Packets -> Packets \cup {None}]
      /\ packs' \in [Streams -> Nat] /\ bytes' \in [Streams -> Nat]
      /\ pos' \in [Streams -> Nat] /\ size' \in [Streams -> Nat]
      /\ pts_bytes' \in [Streams -> Nat] /\ since' \in [Streams -> Nat]
      /\ want' \in [Streams -> Nat]
      /\ eof' \in [Streams -> BOOLEAN]
      /\ filepos' \in 1 .. Len(File) + 1 /\ start' \in 1 .. Len(File) + 1
      /\ mutex' \in Streams \cup {"free"} /\ pc' \in [Streams -> Places]
  BY DEF TypeOK

(* What is pending are packets in front of the next of the file.           *)
LEMMA PendingIs ==
    ASSUME TypeOK, NEW s \in Streams
    PROVE  /\ Pending(s) \in SUBSET Packets
           /\ \A p \in Pending(s) : /\ p < filepos /\ p > taken[s]
                                    /\ File[p].ds = s
           /\ taken[s] \in Nat /\ filepos \in Nat
<1>1. /\ filepos \in 1 .. Len(File) + 1 /\ start \in 1 .. Len(File) + 1
      /\ taken[s] \in Packets \cup {None} /\ Len(File) \in Nat
  BY TypeEach, PacketType
<1> QED  BY <1>1 DEF Pending, Packets, None

(* The steps that leave the queues alone.                                  *)
LEMMA QuietStep ==
    ASSUME ReadNext
    PROVE  \/ \E s \in Streams : FillTake(s) \/ FillDemux(s) \/ LookDemux(s)
           \/ UNCHANGED <<queueVars, fileVars, taken>>
  BY DEF ReadNext, Read, CallAudio, CallVideo, ShortAudio, ShortVideo, Lock,
     Unlock, ReadRest, ReadSome, ReadEmpty, FillEof, LookDone, ReadOn,
     queueVars, bufferVars

(* They leave the lists as they are.                                       *)
LEMMA QuietList ==
    ASSUME QueueIsPending, UNCHANGED <<queueVars, fileVars, taken>>
    PROVE  QueueIsPending'
<1>1. \A s : Pending(s)' = Pending(s)
  BY DEF Pending, fileVars
<1> QED  BY <1>1 DEF QueueIsPending, queueVars, After

(* A packet taken leaves the list of its stream and no other.              *)
LEMMA TakeList ==
    ASSUME TypeOK, QueueIsPending, NEW s \in Streams, FillTake(s)
    PROVE  /\ first[s] \in Packets /\ File[first[s]].ds = s
           /\ first[s] < filepos /\ first[s] \in Pending(s)
           /\ QueueIsPending'
<1> DEFINE p == first[s]
           S == Pending(s)
<1>1. /\ packs[s] > 0
      /\ taken' = Set(taken, s, p) /\ first' = Set(first, s, next[p])
      /\ last' = IF next[p] = None THEN Set(last, s, None) ELSE last
      /\ packs' = Set(packs, s, packs[s] - 1)
      /\ bytes' = Set(bytes, s, bytes[s] - File[p].len)
      /\ UNCHANGED <<next, fileVars>>
  BY DEF FillTake, Emptied
<1>2. \A t \in Streams : Listed(t)
  BY QueueIsListed
<1>3. /\ S \in SUBSET Packets
      /\ \A q \in S : q < filepos /\ q > taken[s] /\ File[q].ds = s
      /\ taken[s] \in Nat /\ filepos \in Nat
  BY PendingIs
<1>4. S # {}
  <2>1. Cardinality(S) # 0
    BY <1>1, <1>2 DEF Listed
  <2> HIDE DEF S
  <2> QED  BY <2>1, FS_EmptySet
<1> DEFINE T == {q \in S : q > p}
<1>5. /\ p \in S /\ T = S \ {p}
      /\ next[p] = None <=> T = {}
      /\ IsList(T, next[p], IF T = {} THEN None ELSE last[s], next)
  <2> DEFINE f == first[s]
             l == last[s]
  <2>1. IsList(S, f, l, next) /\ S \in SUBSET Packets
    BY <1>2, <1>3 DEF Listed
  <2>2. T = {q \in S : q > f}
    OBVIOUS
  <2> HIDE DEF S, T, f, l
  <2>3. /\ f \in S /\ T = S \ {f}
        /\ next[f] = None <=> T = {}
        /\ IsList(T, next[f], IF T = {} THEN None ELSE l, next)
    BY <1>4, <2>1, <2>2, ListTake
  <2> QED  BY <2>3 DEF f, l
<1>6. p \in Packets /\ p \in Nat /\ p < filepos /\ p > taken[s]
  BY <1>3, <1>5, PacketType
<1>7. Pending(s)' = T
  <2>1. taken'[s] = p /\ filepos' = filepos /\ start' = start
    BY <1>1, TypeEach DEF Set, fileVars
  <2>2. Pending(s)' = {q \in start .. filepos - 1 :
                          File[q].ds = s /\ File[q].len > 0 /\ q > p}
    BY <2>1 DEF Pending
  <2>3. \A q \in start .. filepos - 1 : q > p => q > taken[s]
    <3>1. start \in Int /\ filepos \in Int
      BY TypeEach, PacketType
    <3> QED  BY <1>3, <1>6, <3>1
  <2> QED  BY <2>2, <2>3 DEF Pending
<1>8. Listed(s)'
  <2>1. IsList(T, first'[s], last'[s], next')
    <3>1. first'[s] = next[p]
      BY <1>1, TypeEach DEF Set
    <3>2. last'[s] = IF T = {} THEN None ELSE last[s]
      BY <1>1, <1>5, TypeEach DEF Set
    <3> HIDE DEF T, p
    <3> QED  BY <1>1, <1>5, <3>1, <3>2
  <2>2. packs'[s] = Cardinality(T)
    <3>1. Cardinality(T) = Cardinality(S) - 1
      BY <1>3, <1>5, PacketType, FS_RemoveElement
    <3> QED  BY <1>1, <1>2, <3>1, TypeEach DEF Listed, Set
  <2>3. bytes'[s] = Bytes(T)
    <3>1. Bytes(S) = LenOf(p) + Bytes(S \ {p})
      <4> HIDE DEF S, p
      <4> QED  BY <1>3, <1>5, BytesRemove
    <3>2. Bytes(S \ {p}) \in Nat /\ LenOf(p) \in Nat
      BY <1>3, <1>6, BytesPick, PacketType
    <3>3. bytes'[s] = Bytes(S) - LenOf(p)
      BY <1>1, <1>2, TypeEach DEF Listed, Set, LenOf
    <3>4. Bytes(T) = Bytes(S \ {p})
      BY <1>5
    <3> HIDE DEF S, T, p
    <3> QED  BY <3>1, <3>2, <3>3, <3>4
  <2> HIDE DEF T
  <2> QED  BY <1>7, <2>1, <2>2, <2>3 DEF Listed
<1>9. ASSUME NEW t \in Streams, t # s PROVE Listed(t)'
  <2>1. /\ taken'[t] = taken[t] /\ first'[t] = first[t] /\ last'[t] = last[t]
        /\ packs'[t] = packs[t] /\ bytes'[t] = bytes[t]
    BY <1>1, <1>9, TypeEach DEF Set
  <2>2. Pending(t)' = Pending(t)
    BY <1>1, <2>1 DEF Pending, fileVars
  <2> QED  BY <1>1, <1>2, <2>1, <2>2 DEF Listed
<1>10. QueueIsPending'
  <2>1. \A t \in Streams : Listed(t)'
    BY <1>8, <1>9
  <2> QED  BY <2>1 DEF QueueIsPending, Listed, IsList, After, Behind
<1> QED  BY <1>3, <1>5, <1>6, <1>10

(* A packet demuxed is the last of its stream's list.                      *)
LEMMA DemuxList ==
    ASSUME TypeOK, QueueIsPending, PlaceInv, NEW s \in Streams, Demux(s)
    PROVE  QueueIsPending'
<1> DEFINE p == filepos
           q == File[p].ds
<1>1. /\ filepos \in Packets /\ filepos' = filepos + 1
      /\ AddPacket(p, q) /\ UNCHANGED <<start, taken>>
  BY DEF Demux, bufferVars
<1>2. \A t \in Streams : Listed(t)
  BY QueueIsListed
<1>3. /\ q \in Streams /\ LenOf(p) \in Nat /\ p \in Nat /\ p \in Packets
      /\ start \in Nat /\ start <= p
      /\ \A t \in Streams : taken[t] \in Nat /\ taken[t] < p
  <2>1. start \in Nat /\ start <= p
    BY TypeEach, PacketType DEF PlaceInv
  <2>2. \A t \in Streams : taken[t] \in Nat /\ taken[t] < p
    BY PendingIs DEF PlaceInv
  <2> QED  BY <1>1, <2>1, <2>2, PacketType
<1>4. \A t \in Streams :
          /\ Pending(t) \in SUBSET Packets
          /\ \A x \in Pending(t) : x < p /\ x # p /\ File[x].ds = t
  <2>1. TAKE t \in Streams
  <2>2. /\ Pending(t) \in SUBSET Packets /\ filepos \in Nat
        /\ \A x \in Pending(t) : x < p /\ File[x].ds = t
    BY PendingIs
  <2>3. \A x \in Pending(t) : x \in Nat
    BY <2>2, PacketType
  <2> QED  BY <2>2, <2>3
<1>5. \A t \in Streams :
          Pending(t)' = Pending(t)
                        \cup (IF t = q /\ LenOf(p) > 0 THEN {p} ELSE {})
  <2>1. TAKE t \in Streams
  <2>2. Pending(t)' = {x \in start .. p :
                          File[x].ds = t /\ File[x].len > 0 /\ x > taken[t]}
    BY <1>1, <1>3 DEF Pending
  <2>3. start .. p = (start .. p - 1) \cup {p}
    BY <1>3
  <2>4. p > taken[t]
    BY <1>3
  <2> QED  BY <2>2, <2>3, <2>4 DEF Pending, LenOf
<1>6. CASE File[p].len = 0
  <2>1. next' = Set(next, p, None) /\ UNCHANGED <<first, last, packs, bytes>>
    BY <1>1, <1>3, <1>6 DEF AddPacket, LenOf
  <2>2. ASSUME NEW t \in Streams PROVE Listed(t)'
    <3>1. Pending(t)' = Pending(t)
      BY <1>5, <1>6 DEF LenOf
    <3>2. \A x \in Pending(t) : next'[x] = next[x]
      BY <1>4, <2>1, TypeEach DEF Set
    <3> QED  BY <1>2, <2>1, <3>1, <3>2 DEF Listed, IsList
  <2> QED  BY <2>2 DEF QueueIsPending, Listed, IsList, After, Behind
<1>7. CASE File[p].len > 0
  <2>1. /\ packs' = Set(packs, q, packs[q] + 1)
        /\ bytes' = Set(bytes, q, bytes[q] + LenOf(p))
        /\ first' = IF last[q] = None THEN Set(first, q, p) ELSE first
        /\ last' = Set(last, q, p)
        /\ next' = [x \in Packets |-> IF x = p THEN None
                                      ELSE IF x = last[q] THEN p ELSE next[x]]
    BY <1>1, <1>3, <1>7 DEF AddPacket, Counted, LenOf
  <2> DEFINE S == Pending(q)
  <2>2. /\ S \in SUBSET Packets /\ \A x \in S : x < p
        /\ IsList(S, first[q], last[q], next)
    BY <1>2, <1>3, <1>4 DEF Listed
  <2>3. /\ last[q] = None <=> S = {}
        /\ last[q] # None => last[q] \in S
        /\ Max(S \cup {p}) = p
        /\ Behind(S \cup {p}, 0) = IF S = {} THEN p ELSE first[q]
        /\ Behind(S \cup {p}, p) = None
        /\ \A x \in S : Behind(S \cup {p}, x) =
                            IF x = last[q] THEN p ELSE next[x]
    <3> DEFINE f == first[q]
               l == last[q]
    <3>1. p \in Packets /\ IsList(S, f, l, next)
      BY <1>3, <2>2
    <3> HIDE DEF S, p, f, l
    <3> QED  BY <2>2, <3>1, ListAppend
  <2>4. ASSUME NEW t \in Streams, t = q PROVE Listed(t)'
    <3>1. Pending(t)' = S \cup {p}
      BY <1>3, <1>5, <1>7, <2>4 DEF LenOf
    <3>2. /\ first'[q] = IF S = {} THEN p ELSE first[q]
          /\ last'[q] = p /\ packs'[q] = packs[q] + 1
          /\ bytes'[q] = bytes[q] + LenOf(p)
      BY <1>3, <2>1, <2>3, TypeEach DEF Set
    <3>3. \A x \in S \cup {p} : next'[x] = Behind(S \cup {p}, x)
      BY <1>1, <1>3, <1>4, <2>1, <2>2, <2>3
    <3>4. Cardinality(S \cup {p}) = Cardinality(S) + 1
      <4>1. p \notin S
        BY <1>3, <1>4
      <4> HIDE DEF S, p
      <4> QED  BY <2>2, <4>1, PacketType, FS_AddElement
    <3>5. Bytes(S \cup {p}) = Bytes(S) + LenOf(p)
      <4>1. p \in Packets \ S
        BY <1>1, <1>3, <1>4
      <4> HIDE DEF S, p
      <4> QED  BY <2>2, <4>1, BytesAdd
    <3>6. IsList(S \cup {p}, first'[q], last'[q], next')
      BY <2>3, <3>2, <3>3 DEF IsList
    <3>7. packs[q] = Cardinality(S) /\ bytes[q] = Bytes(S)
      BY <1>2, <1>3 DEF Listed
    <3> HIDE DEF S, p, q
    <3> QED  BY <2>4, <3>1, <3>2, <3>4, <3>5, <3>6, <3>7 DEF Listed
  <2>5. ASSUME NEW t \in Streams, t # q PROVE Listed(t)'
    <3>1. /\ first'[t] = first[t] /\ last'[t] = last[t]
          /\ packs'[t] = packs[t] /\ bytes'[t] = bytes[t]
      BY <2>1, <2>5, TypeEach DEF Set
    <3>2. Pending(t)' = Pending(t)
      BY <1>5, <2>5
    <3>3. \A x \in Pending(t) : next'[x] = next[x]
      <4>1. TAKE x \in Pending(t)
      <4>2. x # p /\ x \in Packets /\ File[x].ds # q
        BY <1>4, <2>5
      <4>3. x # last[q]
        BY <1>3, <1>4, <2>3, <4>2, PacketType DEF Packets, None
      <4> QED  BY <2>1, <4>2, <4>3
    <3> QED  BY <1>2, <3>1, <3>2, <3>3 DEF Listed, IsList
  <2>6. ASSUME NEW t \in Streams PROVE Listed(t)'
    BY <2>4, <2>5
  <2> QED  BY <2>6 DEF QueueIsPending, Listed, IsList, After, Behind
<1> QED  BY <1>3, <1>6, <1>7 DEF LenOf

(* A seek empties both lists.                                              *)
LEMMA SeekList ==
    ASSUME TypeOK, Seek
    PROVE  QueueIsPending'
<1>1. ASSUME NEW s \in Streams PROVE Pending(s)' = {}
  <2>1. filepos' \in Int /\ start' = filepos'
    BY PacketType DEF Seek
  <2> QED  BY <2>1 DEF Pending
<1>2. ASSUME NEW s \in Streams
      PROVE  /\ first'[s] = None /\ last'[s] = None
             /\ packs'[s] = 0 /\ bytes'[s] = 0
  BY DEF Seek, FreePacks
<1>3. Bytes({}) = 0 /\ Cardinality({}) = 0 /\ Behind({}, 0) = None
  BY BytesPick, FS_EmptySet DEF Behind
<1>4. ASSUME NEW s \in Streams PROVE Listed(s)'
  BY <1>1, <1>2, <1>3 DEF Listed, IsList
<1> QED  BY <1>4 DEF QueueIsPending, Listed, IsList, After, Behind

-----------------------------------------------------------------------------
(* The steps.                                                              *)

(* One entry set.                                                          *)
LEMMA SetType ==
    ASSUME NEW D, NEW f \in [Streams -> D], NEW s \in Streams, NEW x \in D
    PROVE  Set(f, s, x) \in [Streams -> D]
  BY DEF Set

(* The lesser of two.                                                      *)
LEMMA MinOfTwo ==
    ASSUME NEW a \in Nat, NEW b \in Nat
    PROVE  Min({a, b}) \in {a, b} /\ Min({a, b}) <= a /\ Min({a, b}) <= b
<1> DEFINE T == {a, b}
<1>1. T \in SUBSET Nat /\ T # {}
  OBVIOUS
<1>2. Min(T) \in T /\ \A k \in T : Min(T) <= k
  <2> HIDE DEF T
  <2> QED  BY <1>1, MinIs
<1> QED  BY <1>2

(* n more bytes of the buffer are read.                                    *)
LEMMA ReadOnStep ==
    ASSUME TypeOK, TellPts, PlaceInv, QueuesBounded,
           NEW s \in Streams, NEW n \in Nat, NEW to \in Places \ {"fill"},
           At(s, "read", to), ReadOn(s, n), want' \in [Streams -> Nat]
    PROVE  TypeOK' /\ TellPts' /\ PlaceInv' /\ QueuesBounded'
<1>1. /\ pos' = Set(pos, s, pos[s] + n)
      /\ since' = Set(since, s, since[s] + n) /\ pc' = Set(pc, s, to)
      /\ UNCHANGED <<first, last, next, packs, bytes, current, size,
                     pts_bytes, taken, eof, filepos, start, mutex>>
  BY DEF ReadOn, At, queueVars, fileVars
<1>2. /\ pos \in [Streams -> Nat] /\ since \in [Streams -> Nat]
      /\ size \in [Streams -> Nat] /\ pts_bytes \in [Streams -> Nat]
      /\ pc \in [Streams -> Places]
  BY TypeEach
<1>3. /\ pos' \in [Streams -> Nat] /\ since' \in [Streams -> Nat]
      /\ pc' \in [Streams -> Places]
  BY <1>1, <1>2 DEF Set
<1>4. TypeOK'
  BY <1>1, <1>3, TypeEach, TypeEachNext
<1>5. TellPts'
  BY <1>1, <1>2 DEF TellPts, Set
<1>6. PlaceInv'
  BY <1>1, <1>2 DEF PlaceInv, Left, Set
<1>7. QueuesBounded'
  BY <1>1 DEF QueuesBounded
<1> QED  BY <1>4, <1>5, <1>6, <1>7

(* The steps that neither take nor demux nor seek.                         *)
LEMMA PlainStep ==
    ASSUME TypeOK, TellPts, PlaceInv, QueuesBounded, ReadNext
    PROVE  \/ \E s \in Streams : FillTake(s) \/ FillDemux(s) \/ LookDemux(s)
           \/ TypeOK' /\ TellPts' /\ PlaceInv' /\ QueuesBounded'
<1>1. ASSUME NEW s \in Streams,
             NEW to \in Places \ {"fill"},
             pc[s] # "fill", pc' = Set(pc, s, to),
             want' \in [Streams -> Nat], mutex' \in Streams \cup {"free"},
             UNCHANGED <<queueVars, bufferVars, eof, fileVars>>
      PROVE  TypeOK' /\ TellPts' /\ PlaceInv' /\ QueuesBounded'
  <2>1. UNCHANGED <<first, last, next, packs, bytes, current, pos, size,
                    pts_bytes, since, taken, eof, filepos, start>>
    BY <1>1 DEF queueVars, bufferVars, fileVars
  <2>2. pc' \in [Streams -> Places]
    BY <1>1, TypeEach DEF Set
  <2>3. TypeOK'
    BY <1>1, <2>1, <2>2, TypeEach, TypeEachNext
  <2>4. TellPts' /\ QueuesBounded'
    BY <2>1 DEF TellPts, QueuesBounded
  <2>5. PlaceInv'
    BY <1>1, <2>1, TypeEach DEF PlaceInv, Left, Set
  <2> QED  BY <2>3, <2>4, <2>5
<1>2. CASE CallAudio \/ CallVideo \/ ShortAudio \/ ShortVideo
  <2>1. PICK s \in Streams, to \in Places \ {"fill"} :
          /\ pc[s] # "fill" /\ pc' = Set(pc, s, to)
          /\ UNCHANGED <<queueVars, bufferVars, eof, fileVars, mutex>>
    BY <1>2 DEF CallAudio, CallVideo, ShortAudio, ShortVideo, At, Streams,
       Places
  <2>2. want' \in [Streams -> Nat]
    <3>1. \/ want' = want
          \/ \E n \in Nat : want' = Set(want, "audio", n)
      BY <1>2, FileAssumption DEF CallAudio, CallVideo, ShortAudio,
         ShortVideo, Rest
    <3>2. "audio" \in Streams
      BY DEF Streams
    <3>3. want \in [Streams -> Nat]
      BY TypeEach
    <3>4. \A n \in Nat : Set(want, "audio", n) \in [Streams -> Nat]
      BY <3>2, <3>3, SetType
    <3> QED  BY <3>1, <3>3, <3>4
  <2> QED  BY <1>1, <2>1, <2>2, TypeEach
<1>3. ASSUME NEW s \in Streams, Lock(s) \/ Unlock(s) \/ LookDone(s)
      PROVE  TypeOK' /\ TellPts' /\ PlaceInv' /\ QueuesBounded'
  <2>1. /\ want' \in [Streams -> Nat] /\ mutex' \in Streams \cup {"free"}
        /\ UNCHANGED <<queueVars, bufferVars, eof, fileVars>>
    <3>1. want \in [Streams -> Nat] /\ mutex \in Streams \cup {"free"}
      BY TypeEach
    <3>2. Set(want, s, Rest) \in [Streams -> Nat]
      BY <3>1, SetType DEF Rest
    <3> QED  BY <1>3, <3>1, <3>2 DEF Lock, Unlock, LookDone
  <2>2. PICK to \in Places \ {"fill"} : pc[s] # "fill" /\ pc' = Set(pc, s, to)
    BY <1>3 DEF Lock, Unlock, LookDone, At, Places
  <2> QED  BY <1>1, <2>1, <2>2
<1>4. ASSUME NEW s \in Streams, ReadRest(s)
      PROVE  TypeOK' /\ TellPts' /\ PlaceInv' /\ QueuesBounded'
  <2>1. Left(s) \in Nat /\ want' \in [Streams -> Nat]
    <3>1. size[s] \in Nat /\ pos[s] \in Nat
      BY TypeAt
    <3>2. want' = want /\ want \in [Streams -> Nat] /\ size[s] - pos[s] > 0
      BY <1>4, TypeEach DEF ReadRest, Left
    <3> QED  BY <3>1, <3>2 DEF Left
  <2>2. PICK to \in Places \ {"fill"} : At(s, "read", to)
    BY <1>4 DEF ReadRest, Places
  <2> QED  BY <1>4, <2>1, <2>2, ReadOnStep DEF ReadRest
<1>5. ASSUME NEW s \in Streams, ReadSome(s)
      PROVE  TypeOK' /\ TellPts' /\ PlaceInv' /\ QueuesBounded'
  <2> DEFINE n == Min({Left(s), want[s]})
  <2>1. Left(s) \in Nat /\ want[s] \in Nat
    BY <1>5, TypeEach DEF ReadSome, Left
  <2>2. n \in Nat /\ want[s] - n \in Nat
    <3>1. n \in {Left(s), want[s]} /\ n <= Left(s) /\ n <= want[s]
      BY <2>1, MinOfTwo
    <3> HIDE DEF n
    <3> QED  BY <2>1, <3>1
  <2>3. want' \in [Streams -> Nat]
    BY <1>5, <2>2, TypeEach DEF ReadSome, Set
  <2>4. PICK to \in Places \ {"fill"} : At(s, "read", to)
    BY <1>5 DEF ReadSome, Places
  <2> QED  BY <1>5, <2>2, <2>3, <2>4, ReadOnStep DEF ReadSome
<1>6. ASSUME NEW s \in Streams, ReadEmpty(s)
      PROVE  TypeOK' /\ TellPts' /\ PlaceInv' /\ QueuesBounded'
  BY <1>6 DEF ReadEmpty, TypeOK, TellPts, PlaceInv,
     QueuesBounded, Left, At, Set, queueVars, bufferVars, fileVars, Places
<1>7. ASSUME NEW s \in Streams, FillEof(s)
      PROVE  TypeOK' /\ TellPts' /\ PlaceInv' /\ QueuesBounded'
  <2>1. /\ pos' = Set(pos, s, 0) /\ size' = Set(size, s, 0)
        /\ current' = Set(current, s, None) /\ eof' = Set(eof, s, TRUE)
        /\ pc[s] = "fill" /\ pc' = Set(pc, s, "short")
        /\ UNCHANGED <<first, last, next, packs, bytes, pts_bytes, since,
                       taken, filepos, start, mutex, want>>
    BY <1>7 DEF FillEof, At, queueVars, fileVars
  <2>2. TypeOK'
    <3>1. /\ pos' \in [Streams -> Nat] /\ size' \in [Streams -> Nat]
          /\ current' \in [Streams -> Packets \cup {None}]
          /\ eof' \in [Streams -> BOOLEAN] /\ pc' \in [Streams -> Places]
      BY <2>1, TypeEach DEF Set, Places
    <3> QED  BY <2>1, <3>1, TypeEach, TypeEachNext
  <2>3. TellPts'
    BY <2>1, TypeEach DEF TellPts, PlaceInv, Left, Set
  <2>4. PlaceInv' /\ QueuesBounded'
    BY <2>1, TypeEach DEF PlaceInv, QueuesBounded, Left, Set
  <2> QED  BY <2>2, <2>3, <2>4
<1> QED  BY <1>1, <1>2, <1>3, <1>4, <1>5, <1>6, <1>7 DEF ReadNext, Read

(* The first packet of a queue becomes the buffer.                         *)
LEMMA TakeStep ==
    ASSUME TypeOK, TellPts, PlaceInv, QueuesBounded, QueueIsPending,
           NEW s \in Streams, FillTake(s)
    PROVE  TypeOK' /\ TellPts' /\ PlaceInv' /\ QueuesBounded'
<1> DEFINE p == first[s]
<1>1. /\ packs[s] > 0 /\ pc[s] = "fill" /\ pc' = Set(pc, s, "read")
      /\ current' = Set(current, s, p) /\ taken' = Set(taken, s, p)
      /\ pos' = Set(pos, s, 0) /\ size' = Set(size, s, LenOf(p))
      /\ pts_bytes' = Set(pts_bytes, s,
                        (IF File[p].pts THEN 0 ELSE pts_bytes[s]) + LenOf(p))
      /\ since' = IF File[p].pts THEN Set(since, s, 0) ELSE since
      /\ bytes' = Set(bytes, s, bytes[s] - LenOf(p))
      /\ packs' = Set(packs, s, packs[s] - 1)
      /\ first' = Set(first, s, next[p])
      /\ last' = IF next[p] = None THEN Set(last, s, None) ELSE last
      /\ UNCHANGED <<next, eof, filepos, start, mutex, want>>
  BY DEF FillTake, Emptied, At, LenOf, fileVars
<1>2. p \in Packets /\ p < filepos /\ LenOf(p) \in Nat
  BY TakeList, PacketType
<1>3. bytes[s] - LenOf(p) \in Nat
  <2> DEFINE S == Pending(s)
  <2>1. Listed(s) /\ S \in SUBSET Packets
    BY QueueIsListed, PendingIs
  <2>2. p \in S
    BY TakeList
  <2>3. Bytes(S) = LenOf(p) + Bytes(S \ {p}) /\ Bytes(S \ {p}) \in Nat
    <3> HIDE DEF S, p
    <3>1. S \ {p} \in SUBSET Packets
      BY <2>1
    <3> QED  BY <2>1, <2>2, <3>1, BytesRemove, BytesPick
  <2>4. bytes[s] = Bytes(S)
    BY <2>1 DEF Listed
  <2> HIDE DEF S, p
  <2> QED  BY <1>2, <2>3, <2>4
<1>4. TypeOK'
  <2>1. /\ pts_bytes' \in [Streams -> Nat] /\ since' \in [Streams -> Nat]
        /\ bytes' \in [Streams -> Nat] /\ packs' \in [Streams -> Nat]
        /\ pos' \in [Streams -> Nat] /\ size' \in [Streams -> Nat]
    <3> DEFINE b == (IF File[p].pts THEN 0 ELSE pts_bytes[s]) + LenOf(p)
    <3>1. b \in Nat
      BY <1>2, TypeAt
    <3>2. packs[s] - 1 \in Nat /\ 0 \in Nat
      BY <1>1, TypeEach
    <3>3. /\ pts_bytes' = Set(pts_bytes, s, b)
          /\ since' = Set(since, s, 0) \/ since' = since
      BY <1>1
    <3> HIDE DEF b, p
    <3>4. pts_bytes' \in [Streams -> Nat]
      BY <3>1, <3>3, TypeEach, SetType
    <3>5. since' \in [Streams -> Nat]
      <4>1. since \in [Streams -> Nat]
        BY TypeEach
      <4>2. Set(since, s, 0) \in [Streams -> Nat]
        BY <3>2, <4>1, SetType
      <4> QED  BY <3>3, <4>1, <4>2
    <3>6. bytes' \in [Streams -> Nat]
      BY <1>1, <1>3, TypeEach, SetType
    <3>7. packs' \in [Streams -> Nat] /\ pos' \in [Streams -> Nat]
      BY <1>1, <3>2, TypeEach, SetType
    <3>8. size' \in [Streams -> Nat]
      BY <1>1, <1>2, TypeEach, SetType
    <3> QED  BY <3>4, <3>5, <3>6, <3>7, <3>8
  <2>2. /\ first' \in [Streams -> Packets \cup {None}]
        /\ last' \in [Streams -> Packets \cup {None}]
        /\ current' \in [Streams -> Packets \cup {None}]
        /\ taken' \in [Streams -> Packets \cup {None}]
        /\ pc' \in [Streams -> Places]
    BY <1>1, <1>2, TypeEach DEF Set, Places
  <2> QED  BY <1>1, <2>1, <2>2, TypeEach, TypeEachNext
<1>5. TellPts'
  <2> SUFFICES ASSUME NEW t \in Streams
               PROVE  pts_bytes'[t] - size'[t] + pos'[t] = since'[t]
    BY DEF TellPts
  <2>1. CASE t = s
    <3>1. pts_bytes[s] = since[s] /\ pts_bytes[s] \in Nat
      <4>1. size[s] - pos[s] = 0
        BY <1>1 DEF PlaceInv, Left
      <4>2. pts_bytes[s] - size[s] + pos[s] = since[s]
        BY DEF TellPts
      <4>3. /\ pts_bytes[s] \in Nat /\ size[s] \in Nat /\ pos[s] \in Nat
            /\ since[s] \in Nat
        BY TypeEach
      <4> QED  BY <4>1, <4>2, <4>3
    <3>2. /\ size'[s] = LenOf(p) /\ pos'[s] = 0
          /\ pts_bytes'[s] = (IF File[p].pts THEN 0 ELSE pts_bytes[s])
                                + LenOf(p)
          /\ since'[s] = IF File[p].pts THEN 0 ELSE since[s]
      BY <1>1, TypeEach DEF Set
    <3> HIDE DEF p
    <3> QED  BY <1>2, <2>1, <3>1, <3>2
  <2>2. CASE t # s
    BY <1>1, <2>2, TypeEach DEF TellPts, Set
  <2> QED  BY <2>1, <2>2
<1>6. PlaceInv'
  BY <1>1, <1>2, TypeEach DEF PlaceInv, Left, Set
<1>7. QueuesBounded'
  <2> SUFFICES ASSUME NEW t \in Streams, Packets # {}
               PROVE  bytes'[t] < MaxPackBytes
                                  + Max({File[x].len : x \in Packets})
    BY DEF QueuesBounded
  <2>1. bytes'[t] <= bytes[t] /\ bytes'[t] \in Int /\ bytes[t] \in Int
    <3>1. bytes[t] \in Nat
      BY TypeEach
    <3>2. bytes'[t] = IF t = s THEN bytes[t] - LenOf(p) ELSE bytes[t]
      BY <1>1, TypeEach DEF Set
    <3> HIDE DEF p
    <3> QED  BY <1>2, <3>1, <3>2
  <2>2. bytes[t] < MaxPackBytes + Max({File[x].len : x \in Packets})
    BY DEF QueuesBounded
  <2>3. MaxPackBytes \in Nat /\ Max({File[x].len : x \in Packets}) \in Nat
    BY FileAssumption, LongestIs
  <2> QED  BY <2>1, <2>2, <2>3
<1> QED  BY <1>4, <1>5, <1>6, <1>7

(* A packet is demuxed.                                                    *)
LEMMA DemuxStep ==
    ASSUME TypeOK, TellPts, PlaceInv, QueuesBounded,
           NEW s \in Streams, Demux(s)
    PROVE  TypeOK' /\ TellPts' /\ PlaceInv' /\ QueuesBounded'
<1> DEFINE p == filepos
           q == File[p].ds
<1>1. /\ p \in Packets /\ filepos' = p + 1 /\ AddPacket(p, q) /\ ~TooMany(s)
      /\ UNCHANGED <<current, pos, size, pts_bytes, since, taken, eof, start,
                     mutex, pc, want>>
  BY DEF Demux, bufferVars, readerVars
<1>2. q \in Streams /\ LenOf(p) \in Nat /\ p \in Nat /\ Len(File) \in Nat
  BY <1>1, PacketType
<1>3. /\ next' \in [Packets -> Packets \cup {None}]
      /\ first' \in [Streams -> Packets \cup {None}]
      /\ last' \in [Streams -> Packets \cup {None}]
      /\ packs' \in [Streams -> Nat] /\ bytes' \in [Streams -> Nat]
      /\ \A t \in Streams : \/ bytes'[t] = bytes[t]
                            \/ bytes'[t] = bytes[t] + LenOf(p)
  <2>1. CASE File[p].len = 0
    <3>1. next' = Set(next, p, None) /\ UNCHANGED <<first, last, packs, bytes>>
      BY <1>1, <2>1 DEF AddPacket
    <3> QED  BY <1>1, <3>1, TypeEach DEF Set
  <2>2. CASE File[p].len > 0
    <3>1. /\ packs' = Set(packs, q, packs[q] + 1)
          /\ bytes' = Set(bytes, q, bytes[q] + LenOf(p))
          /\ first' = IF last[q] = None THEN Set(first, q, p) ELSE first
          /\ last' = Set(last, q, p)
          /\ next' = [x \in Packets |-> IF x = p THEN None
                                    ELSE IF x = last[q] THEN p ELSE next[x]]
      BY <1>1, <2>2 DEF AddPacket, Counted, LenOf
    <3>2. packs[q] + 1 \in Nat /\ bytes[q] + LenOf(p) \in Nat
      <4>1. packs[q] \in Nat /\ bytes[q] \in Nat
        BY <1>2, TypeEach
      <4> HIDE DEF p, q
      <4> QED  BY <1>2, <4>1
    <3>3. /\ next' \in [Packets -> Packets \cup {None}]
          /\ first' \in [Streams -> Packets \cup {None}]
          /\ last' \in [Streams -> Packets \cup {None}]
      <4> HIDE DEF p, q
      <4> QED  BY <1>1, <3>1, TypeEach DEF Set
    <3>4. packs' \in [Streams -> Nat] /\ bytes' \in [Streams -> Nat]
      <4> HIDE DEF p, q
      <4> QED  BY <3>1, <3>2, TypeEach DEF Set
    <3>5. \A t \in Streams : \/ bytes'[t] = bytes[t]
                             \/ bytes'[t] = bytes[t] + LenOf(p)
      <4> HIDE DEF p, q
      <4> QED  BY <3>1, TypeEach DEF Set
    <3> QED  BY <3>3, <3>4, <3>5
  <2> QED  BY <1>2, <2>1, <2>2 DEF LenOf
<1>4. TypeOK'
  <2>1. filepos' \in 1 .. Len(File) + 1
    BY <1>1, <1>2 DEF Packets
  <2> QED  BY <1>1, <1>3, <2>1, TypeEach, TypeEachNext
<1>5. TellPts'
  BY <1>1 DEF TellPts
<1>6. PlaceInv'
  <2>1. start \in Nat /\ \A t \in Streams : taken[t] \in Nat
    BY TypeAt
  <2> QED  BY <1>1, <1>2, <2>1 DEF PlaceInv, Left
<1>7. QueuesBounded'
  <2> DEFINE longest == Max({File[x].len : x \in Packets})
  <2> SUFFICES ASSUME NEW t \in Streams
               PROVE  bytes'[t] < MaxPackBytes + longest
    BY DEF QueuesBounded
  <2>1. longest \in Nat /\ LenOf(p) <= longest
    BY <1>1, LongestIs DEF LenOf
  <2>2. bytes[t] < MaxPackBytes /\ bytes[t] \in Nat /\ MaxPackBytes \in Nat
    BY <1>1, TypeAt, FileAssumption DEF TooMany
  <2>3. bytes'[t] = bytes[t] \/ bytes'[t] = bytes[t] + LenOf(p)
    BY <1>3
  <2> HIDE DEF longest, p
  <2> QED  BY <1>2, <2>1, <2>2, <2>3
<1> QED  BY <1>4, <1>5, <1>6, <1>7

(* A seek starts all over.                                                 *)
LEMMA SeekStep ==
    ASSUME TypeOK, TellPts, PlaceInv, Seek
    PROVE  TypeOK' /\ TellPts' /\ PlaceInv' /\ QueuesBounded'
<1>1. /\ first' = [s \in Streams |-> None] /\ last' = first'
      /\ current' = first'
      /\ packs' = [s \in Streams |-> 0] /\ bytes' = packs'
      /\ pos' = size /\ pts_bytes' = packs'
      /\ eof' = [s \in Streams |-> FALSE]
      /\ filepos' \in 1 .. Len(File) + 1 /\ start' = filepos'
      /\ taken' = first' /\ since' = [s \in Streams |-> 0]
      /\ UNCHANGED <<next, size, mutex, pc, want>>
      /\ \A s \in Streams : pc[s] # "fill"
  BY DEF Seek, FreePacks, readerVars
<1>2. TypeOK'
  BY <1>1, TypeEach, TypeEachNext
<1>3. TellPts'
  BY <1>1, TypeEach DEF TellPts
<1>4. PlaceInv'
  <2>1. Len(File) \in Nat
    BY PacketType
  <2> QED  BY <1>1, <2>1 DEF PlaceInv, None
<1>5. QueuesBounded'
  <2>1. MaxPackBytes \in Nat \ {0}
    BY FileAssumption
  <2>2. Packets # {} => Max({File[x].len : x \in Packets}) \in Nat
    BY LongestIs
  <2> QED  BY <1>1, <2>1, <2>2 DEF QueuesBounded
<1> QED  BY <1>2, <1>3, <1>4, <1>5

-----------------------------------------------------------------------------
LEMMA DemuxInit == Init => IInv
<1> SUFFICES ASSUME Init PROVE IInv
  OBVIOUS
<1>1. Len(File) \in Nat /\ MaxPackBytes \in Nat \ {0}
  BY PacketType, FileAssumption
<1>2. TypeOK
  BY <1>1 DEF Init, TypeOK, Places, Rest
<1>3. QueueIsPending
  <2>1. ASSUME NEW s \in Streams PROVE Pending(s) = {}
    BY DEF Init, Pending
  <2>2. Bytes({}) = 0 /\ Cardinality({}) = 0 /\ Behind({}, 0) = None
    BY BytesPick, FS_EmptySet DEF Behind
  <2>3. ASSUME NEW s \in Streams PROVE Listed(s)
    BY <2>1, <2>2 DEF Init, Listed, IsList
  <2> QED  BY <2>3, QueueIsListed
<1>4. TellPts /\ PlaceInv
  BY DEF Init, TellPts, PlaceInv, None
<1>5. QueuesBounded
  <2>1. Packets # {} => Max({File[x].len : x \in Packets}) \in Nat
    BY LongestIs
  <2> QED  BY <1>1, <2>1 DEF Init, QueuesBounded
<1> QED  BY <1>2, <1>3, <1>4, <1>5 DEF IInv

LEMMA DemuxNext == IInv /\ [Next]_vars => IInv'
<1> SUFFICES ASSUME IInv, [Next]_vars PROVE IInv'
  OBVIOUS
<1> USE DEF IInv
<1>1. ASSUME NEW s \in Streams, FillTake(s) PROVE IInv'
  BY <1>1, TakeStep, TakeList
<1>2. ASSUME NEW s \in Streams, FillDemux(s) \/ LookDemux(s) PROVE IInv'
  <2>1. Demux(s)
    BY <1>2 DEF FillDemux, LookDemux
  <2> QED  BY <2>1, DemuxStep, DemuxList
<1>3. CASE Seek
  BY <1>3, SeekStep, SeekList
<1>4. ASSUME ReadNext, ~ \E s \in Streams : FillTake(s) \/ FillDemux(s)
                                             \/ LookDemux(s)
      PROVE  IInv'
  BY <1>4, PlainStep, QuietStep, QuietList
<1>5. CASE UNCHANGED vars
  <2>1. UNCHANGED <<queueVars, fileVars, taken>>
    BY <1>5 DEF vars, bufferVars
  <2>2. TypeOK' /\ TellPts' /\ PlaceInv' /\ QueuesBounded'
    BY <1>5 DEF vars, queueVars, bufferVars, fileVars, readerVars, TypeOK,
       TellPts, PlaceInv, QueuesBounded, Left
  <2> QED  BY <2>1, <2>2, QuietList
<1> QED  BY <1>1, <1>2, <1>3, <1>4, <1>5 DEF Next

(* The inductive invariant holds, whatever the file and the seeks.         *)
THEOREM DemuxInvariant == Spec => []IInv
  BY DemuxInit, DemuxNext, PTL DEF Spec

(* Every variable of the demuxer's streams has its type: no count of       *)
(* Demuxer_Stream ever drops below zero.                                   *)
THEOREM DemuxTypeOK == Spec => []TypeOK
  BY DemuxInvariant, PTL DEF IInv

(* What the lock of demuxer_r.cpp protects: the list from _first to _last  *)
(* is what was demuxed of the stream and not yet read, in the order of     *)
(* the file, and _packs and _bytes count it, though either reader demuxes  *)
(* into the queue of the other.                                            *)
THEOREM DemuxQueueIsPending == Spec => []QueueIsPending
  BY DemuxInvariant, PTL DEF IInv

(* The bytes read after the last pts, which get_ds_stream_pts relies on.   *)
THEOREM DemuxTellPts == Spec => []TellPts
  BY DemuxInvariant, PTL DEF IInv

(* A queue outgrows MAX_PACK_BYTES by less than the file's longest packet. *)
THEOREM DemuxQueuesBounded == Spec => []QueuesBounded
  BY DemuxInvariant, PTL DEF IInv
=============================================================================
