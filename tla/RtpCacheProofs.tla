--------------------------- MODULE RtpCacheProofs ---------------------------
(***************************************************************************)
(* Proofs about the cache of RTP packets, for every size of the cache,     *)
(* range of the sequence numbers and length of the stream.  What the       *)
(* network may do is said at each theorem, and which of them end where a   *)
(* packet is misjudged.                                                    *)
(***************************************************************************)
EXTENDS RtpCache, FiniteSetTheorems, TLAPS

(* The slots seen from slot f: each holds what is due there, or nothing.   *)
Slot(f, k) == (f + k) % MaxPackets
Holds(f, seqs, pkts) ==
    \A k \in Slots :
        pkts[Slot(f, k)] # 0 => seqs[Slot(f, k)] = (seqs[f] + k) % SeqRange

(* Until the first packet has come nothing is kept, since what is due is   *)
(* not known yet.                                                          *)
NothingYet == is_first => \A i \in Slots : rtp_pkt[i] = 0

Kept == NothingYet /\ (~astray => Holds(rtp_first, rtp_seq, rtp_pkt))

-----------------------------------------------------------------------------
(* Going round.                                                            *)

(* The remainder of what is below the divisor,                             *)
LEMMA ModSmall ==
    ASSUME NEW B \in Nat \ {0}, NEW x \in Int, 0 <= x, x < B
    PROVE  x % B = x
  BY SMT

(* and of what is up to twice as large.                                    *)
LEMMA ModHigh ==
    ASSUME NEW B \in Nat \ {0}, NEW x \in Int, B <= x, x < 2 * B
    PROVE  x % B = x - B
  BY SMT

Round(x, B) == IF x < B THEN x ELSE x - B

(* Going round once.                                                       *)
LEMMA RoundIs ==
    ASSUME NEW B \in Nat \ {0}, NEW x \in Nat, x < 2 * B
    PROVE  x % B = Round(x, B) /\ Round(x, B) \in 0 .. B - 1
<1>1. CASE x < B
  BY <1>1, ModSmall DEF Round
<1>2. CASE B <= x
  <2>1. x \in Int
    OBVIOUS
  <2>2. x % B = x - B
    BY <1>2, <2>1, ModHigh, Zenon
  <2> QED  BY <1>2, <2>2 DEF Round
<1> QED  BY <1>1, <1>2

(* The k-th slot from f.                                                   *)
LEMMA SlotIs ==
    ASSUME NEW f \in Slots, NEW k \in 0 .. MaxPackets
    PROVE  Slot(f, k) = Round(f + k, MaxPackets) /\ Slot(f, k) \in Slots
<1>1. MaxPackets \in Nat \ {0} /\ f + k \in Nat /\ f + k < 2 * MaxPackets
  BY SlotsAssumption DEF Slots
<1> QED  BY <1>1, RoundIs DEF Slot, Slots

(* Two steps round the sequence numbers are one.                           *)
LEMMA SeqSum ==
    ASSUME NEW e \in 0 .. SeqRange - 1, NEW a \in 0 .. MaxPackets,
           NEW b \in 0 .. MaxPackets
    PROVE  /\ (((e + a) % SeqRange) + b) % SeqRange = (e + (a + b)) % SeqRange
           /\ (e + a) % SeqRange \in 0 .. SeqRange - 1
<1>0. /\ SeqRange \in Nat \ {0} /\ MaxPackets \in Nat
      /\ 2 * MaxPackets < SeqRange
  BY SeqAssumption, SlotsAssumption
<1>1. /\ e + a \in Nat /\ e + a < 2 * SeqRange
      /\ e + (a + b) \in Nat /\ e + (a + b) < 2 * SeqRange
  BY <1>0
<1>2. /\ (e + a) % SeqRange = Round(e + a, SeqRange)
      /\ (e + a) % SeqRange \in 0 .. SeqRange - 1
      /\ (e + (a + b)) % SeqRange = Round(e + (a + b), SeqRange)
  BY <1>0, <1>1, RoundIs
<1>3. /\ Round(e + a, SeqRange) + b \in Nat
      /\ Round(e + a, SeqRange) + b < 2 * SeqRange
  BY <1>0, <1>1 DEF Round
<1>4. (Round(e + a, SeqRange) + b) % SeqRange
          = Round(Round(e + a, SeqRange) + b, SeqRange)
  BY <1>0, <1>3, RoundIs
<1>5. Round(Round(e + a, SeqRange) + b, SeqRange) = Round(e + (a + b), SeqRange)
  BY <1>0 DEF Round
<1> QED  BY <1>2, <1>4, <1>5

(* Slots that are a different way round are different.                     *)
LEMMA SlotsDiffer ==
    ASSUME NEW f \in Slots, NEW j \in Slots, NEW k \in Slots,
           Slot(f, j) = Slot(f, k)
    PROVE  j = k
<1>1. j \in 0 .. MaxPackets /\ k \in 0 .. MaxPackets
  BY SlotsAssumption DEF Slots
<1>2. Round(f + j, MaxPackets) = Round(f + k, MaxPackets)
  BY <1>1, SlotIs
<1> QED  BY <1>2, SlotsAssumption DEF Round, Slots

(* The first slot from f is f.                                             *)
LEMMA SlotZero ==
    ASSUME NEW f \in Slots
    PROVE  Slot(f, 0) = f
  BY SlotIs, SlotsAssumption DEF Round, Slots

(* Going round meets every slot.                                           *)
LEMMA EverySlot ==
    ASSUME NEW f \in Slots, NEW i \in Slots
    PROVE  \E m \in Slots : Slot(f, m) = i
<1>0. MaxPackets \in Nat /\ MaxPackets > 3
  BY SlotsAssumption
<1> DEFINE m == IF f <= i THEN i - f ELSE i - f + MaxPackets
<1>1. m \in Slots /\ m \in 0 .. MaxPackets /\ Round(f + m, MaxPackets) = i
  BY <1>0 DEF Round, Slots
<1> HIDE DEF m
<1> QED  BY <1>1, SlotIs

(* Two ways round are one.                                                 *)
LEMMA SlotSum ==
    ASSUME NEW f \in Slots, NEW a \in 0 .. MaxPackets, NEW b \in Slots
    PROVE  Slot(Slot(f, a), b)
               = Slot(f, IF a + b < MaxPackets THEN a + b ELSE a + b - MaxPackets)
<1>0. MaxPackets \in Nat /\ MaxPackets > 3
  BY SlotsAssumption
<1> DEFINE c == IF a + b < MaxPackets THEN a + b ELSE a + b - MaxPackets
<1>1. c \in 0 .. MaxPackets /\ b \in 0 .. MaxPackets
  BY <1>0 DEF Slots
<1>2. Slot(f, a) = Round(f + a, MaxPackets) /\ Slot(f, a) \in Slots
  BY SlotIs
<1>3. /\ Slot(f, c) = Round(f + c, MaxPackets)
      /\ Slot(Slot(f, a), b) = Round(Slot(f, a) + b, MaxPackets)
  <2> HIDE DEF c
  <2> QED  BY <1>1, <1>2, SlotIs
<1>4. Round(Round(f + a, MaxPackets) + b, MaxPackets) = Round(f + c, MaxPackets)
  BY <1>0 DEF Round, Slots
<1> QED  BY <1>2, <1>3, <1>4

-----------------------------------------------------------------------------
(* Types.                                                                  *)

CacheTypeOK ==
    /\ rtp_first \in Slots
    /\ rtp_seq \in [Slots -> 0 .. SeqRange - 1]
    /\ rtp_pkt \in [Slots -> 0 .. Packets]
    /\ tries \in 0 .. MaxPackets - 3
    /\ given \in Seq(1 .. Packets)

NetTypeOK ==
    /\ wire \subseteq [n : 1 .. Packets, seq : 0 .. SeqRange - 1]
    /\ sent \in 0 .. Packets /\ base \in 0 .. SeqRange - 1
    /\ faults \in 0 .. MaxFaults

FlagTypeOK == is_first \in BOOLEAN /\ astray \in BOOLEAN

(* TypeOK in three parts.                                                  *)
LEMMA TypeParts == TypeOK <=> CacheTypeOK /\ NetTypeOK /\ FlagTypeOK
  BY Zenon DEF TypeOK, CacheTypeOK, NetTypeOK, FlagTypeOK

(* Sequence numbers keep to their range,                                   *)
LEMMA SeqOfAny ==
    ASSUME NEW x \in Int
    PROVE  x % SeqRange \in 0 .. SeqRange - 1
  BY SeqAssumption, SlotsAssumption

(* and slots to theirs.                                                    *)
LEMMA SlotOfAny ==
    ASSUME NEW x \in Int
    PROVE  x % MaxPackets \in Slots
  BY SlotsAssumption DEF Slots

(* The packet at hand, while is_first and astray are left out of account.  *)
LEMMA PacketType ==
    ASSUME CacheTypeOK, NetTypeOK, NEW p \in wire
    PROVE  /\ p.n \in 1 .. Packets /\ p.seq \in 0 .. SeqRange - 1
           /\ Expected \in 0 .. SeqRange - 1 /\ NewSeq(p) \in Int
<1>1. p.n \in 1 .. Packets /\ p.seq \in 0 .. SeqRange - 1
  BY DEF NetTypeOK
<1>2. Expected \in 0 .. SeqRange - 1
  BY DEF CacheTypeOK, Expected
<1>3. NewSeq(p) \in Int
  BY <1>1, <1>2 DEF NewSeq
<1> QED  BY <1>1, <1>2, <1>3

(* Every step keeps the types of the network,                              *)
LEMMA NetType ==
    ASSUME NetTypeOK, Next
    PROVE  NetTypeOK'
<1> USE DEF NetTypeOK
<1>1. CASE Send
  <2>1. sent' \in 1 .. Packets
    BY <1>1, NetworkAssumption DEF Send
  <2>2. (base + sent') % SeqRange \in 0 .. SeqRange - 1
    <3>1. base + sent' \in Int
      BY <2>1, NetworkAssumption, SeqAssumption
    <3> QED  BY <3>1, SeqOfAny
  <2> QED  BY <1>1, <2>1, <2>2 DEF Send
<1>2. CASE Lose
  BY <1>2, NetworkAssumption DEF Lose
<1>3. CASE Restart
  <2>1. base' \in 0 .. SeqRange - 1
    <3>1. PICK j \in Jumps : base' = (base + j) % SeqRange
      BY <1>3 DEF Restart
    <3>2. base + j \in Int
      BY SeqAssumption
    <3> QED  BY <3>1, <3>2, SeqOfAny
  <2> QED  BY <1>3, <2>1, NetworkAssumption DEF Restart
<1>4. CASE InSequence \/ Overrun \/ Underrun \/ DropOld \/ OutOfSequence
  <2>1. PICK p \in wire : Arrives(p)
    BY <1>4 DEF InSequence, Overrun, Underrun, DropOld, OutOfSequence, Reads
  <2> QED  BY <2>1, NetworkAssumption DEF Arrives
<1>5. CASE Damaged
  BY <1>5, NetworkAssumption DEF Damaged
<1>6. CASE TakeNext
  BY <1>6 DEF TakeNext, netVars
<1> QED
  BY <1>1, <1>2, <1>3, <1>4, <1>5, <1>6 DEF Next, Network, GetNext

(* of the flags,                                                           *)
LEMMA FlagType ==
    ASSUME FlagTypeOK, Next
    PROVE  FlagTypeOK'
<1> USE DEF FlagTypeOK
<1>1. CASE Network
  BY <1>1, Zenon DEF Network, Send, Lose, Restart, cacheVars
<1>2. CASE InSequence \/ Overrun \/ Underrun
  <2>1. PICK p \in wire : Reads(p) /\ Feed(p)
    BY <1>2, Zenon DEF InSequence, Overrun, Underrun
  <2> QED  BY <2>1, Zenon DEF Reads, Feed
<1>3. CASE DropOld \/ OutOfSequence
  <2>1. PICK p \in wire : Reads(p) /\ NoPacket
    BY <1>3, Zenon DEF DropOld, OutOfSequence
  <2> QED  BY <2>1, Zenon DEF Reads, NoPacket
<1>4. CASE Damaged
  BY <1>4, Zenon DEF Damaged, NoPacket
<1>5. CASE TakeNext
  BY <1>5, Zenon DEF TakeNext
<1> QED  BY <1>1, <1>2, <1>3, <1>4, <1>5, Zenon DEF Next, GetNext

(* and of the cache.                                                       *)
LEMMA CacheType ==
    ASSUME CacheTypeOK, NetTypeOK, Next
    PROVE  CacheTypeOK'
<1>0. /\ MaxPackets \in Nat /\ MaxPackets > 3 /\ 0 \in Slots
      /\ SeqRange \in Nat /\ SeqRange > 6 * MaxPackets /\ Packets \in Nat
  BY SlotsAssumption, SeqAssumption, NetworkAssumption DEF Slots
<1>1. rtp_first \in Int /\ SlotAt(1) \in Slots
  <2>1. rtp_first \in Int /\ rtp_first + 1 \in Int
    BY <1>0 DEF CacheTypeOK, Slots
  <2> QED  BY <2>1, SlotOfAny DEF SlotAt
<1>2. \A x \in 0 .. SeqRange - 1 : Succ(x) \in 0 .. SeqRange - 1
  BY <1>0, SeqOfAny DEF Succ
<1>3. ASSUME Looping PROVE tries + 1 \in 0 .. MaxPackets - 3
  BY <1>0, <1>3 DEF Looping, CacheTypeOK
<1>4. CASE Network
  BY <1>4 DEF CacheTypeOK, Network, Send, Lose, Restart, cacheVars
<1>5. CASE InSequence
  <2>1. PICK p \in wire :
            /\ rtp_first' = SlotAt(1) /\ rtp_pkt' = rtp_pkt /\ Feed(p)
            /\ rtp_seq' = [rtp_seq EXCEPT ![SlotAt(1)] = Succ(p.seq)]
    BY <1>5 DEF InSequence
  <2>2. p.n \in 1 .. Packets /\ Succ(p.seq) \in 0 .. SeqRange - 1
    BY <1>2, PacketType
  <2> QED  BY <1>0, <1>1, <2>1, <2>2 DEF CacheTypeOK, Feed
<1>6. CASE Overrun \/ Underrun
  <2>1. PICK p \in wire : CacheReset(p.seq) /\ Feed(p)
    BY <1>6 DEF Overrun, Underrun
  <2>2. p.n \in 1 .. Packets /\ Succ(p.seq) \in 0 .. SeqRange - 1
    BY <1>2, PacketType
  <2> QED  BY <1>0, <2>1, <2>2 DEF CacheTypeOK, Feed, CacheReset
<1>7. CASE DropOld
  <2>1. Looping /\ NoPacket /\ UNCHANGED <<rtp_first, rtp_seq, rtp_pkt>>
    BY <1>7 DEF DropOld, Reads
  <2> QED  BY <1>3, <2>1 DEF CacheTypeOK, NoPacket
<1>8. CASE Damaged
  <2>1. Looping /\ NoPacket /\ UNCHANGED <<rtp_first, rtp_seq, rtp_pkt>>
    BY <1>8 DEF Damaged
  <2> QED  BY <1>3, <2>1 DEF CacheTypeOK, NoPacket
<1>9. CASE OutOfSequence
  <2>1. PICK p \in wire :
            /\ Looping /\ NoPacket /\ rtp_first' = rtp_first
            /\ rtp_pkt' = [rtp_pkt EXCEPT ![SlotAt(NewSeq(p))] = p.n]
            /\ rtp_seq' = [rtp_seq EXCEPT ![SlotAt(NewSeq(p))] = p.seq]
    BY <1>9 DEF OutOfSequence, Reads
  <2>2. p.n \in 1 .. Packets /\ p.seq \in 0 .. SeqRange - 1
    BY PacketType
  <2>3. p.n \in 0 .. Packets
    BY <2>2
  <2> QED  BY <1>3, <2>1, <2>2, <2>3 DEF CacheTypeOK, NoPacket
<1>10. CASE TakeNext
  <2>1. PICK k \in Slots : Takes(k)
    BY <1>10 DEF TakeNext
  <2>2. k \in Int /\ SlotAt(k) \in Slots /\ SlotAt(k + 1) \in Slots
    BY <1>1, SlotOfAny DEF SlotAt, Slots
  <2>3. Succ(rtp_seq[SlotAt(k)]) \in 0 .. SeqRange - 1
    BY <1>2, <2>2 DEF CacheTypeOK
  <2>4. given' \in Seq(1 .. Packets)
    <3>1. CASE Empty(k)
      BY <2>1, <3>1 DEF Takes, CacheTypeOK
    <3>2. CASE ~Empty(k)
      <4>1. /\ rtp_pkt[SlotAt(k)] \in 0 .. Packets
            /\ rtp_pkt[SlotAt(k)] # 0
        BY <2>2, <3>2, Zenon DEF CacheTypeOK, Empty
      <4>2. \A x \in 0 .. Packets : x # 0 => x \in 1 .. Packets
        BY <1>0
      <4>3. rtp_pkt[SlotAt(k)] \in 1 .. Packets
        BY <4>1, <4>2, Zenon
      <4> QED  BY <2>1, <3>2, <4>3 DEF Takes, CacheTypeOK
    <3> QED  BY <3>1, <3>2
  <2>5. tries' = 0
    BY <1>10 DEF TakeNext
  <2>6. 0 \in 0 .. Packets /\ 0 \in 0 .. MaxPackets - 3
    BY <1>0
  <2> QED  BY <2>1, <2>2, <2>3, <2>4, <2>5, <2>6 DEF CacheTypeOK, Takes
<1> QED
  BY <1>4, <1>5, <1>6, <1>7, <1>8, <1>9, <1>10 DEF Next, GetNext

-----------------------------------------------------------------------------
(* The slots.                                                              *)

(* SlotsHoldTheirs, seen from the first slot.                              *)
LEMMA HoldsIs ==
    ASSUME CacheTypeOK
    PROVE  SlotsHoldTheirs <=> (~astray => Holds(rtp_first, rtp_seq, rtp_pkt))
  BY Zenon DEF SlotsHoldTheirs, Holds, SlotAt, Slot, Expected

(* An empty cache holds what it should.                                    *)
LEMMA EmptyHolds ==
    ASSUME NEW f \in Slots, NEW seqs, NEW pkts, \A i \in Slots : pkts[i] = 0
    PROVE  Holds(f, seqs, pkts)
<1> SUFFICES ASSUME NEW k \in Slots
             PROVE  pkts[Slot(f, k)] = 0
  BY Zenon DEF Holds
<1>1. k \in 0 .. MaxPackets
  BY SlotsAssumption DEF Slots
<1> QED  BY <1>1, SlotIs

(* So does one from which the first slots are taken: the next k0 slots,    *)
(* which are empty now, come last.                                         *)
LEMMA MovedHolds ==
    ASSUME NEW f \in Slots, NEW k0 \in Slots, NEW e \in 0 .. SeqRange - 1,
           NEW seqs, NEW pkts, NEW seqs2, NEW pkts2,
           \A k \in Slots : (k0 < k /\ pkts[Slot(f, k)] # 0)
                                => seqs[Slot(f, k)] = (e + k) % SeqRange,
           \A k \in 0 .. k0 : pkts2[Slot(f, k)] = 0,
           \A k \in Slots : k0 < k => pkts2[Slot(f, k)] = pkts[Slot(f, k)],
           seqs2[Slot(f, k0 + 1)] = (e + (k0 + 1)) % SeqRange,
           \A i \in Slots : i # Slot(f, k0 + 1) => seqs2[i] = seqs[i]
    PROVE  Holds(Slot(f, k0 + 1), seqs2, pkts2)
<1> DEFINE g == Slot(f, k0 + 1)
<1>0. MaxPackets \in Nat /\ MaxPackets > 3 /\ SeqRange \in Nat
  BY SlotsAssumption, SeqAssumption
<1>1. k0 + 1 \in 0 .. MaxPackets /\ k0 \in Nat
  BY <1>0 DEF Slots
<1>2. g \in Slots
  BY <1>1, SlotIs
<1> SUFFICES ASSUME NEW j \in Slots, pkts2[Slot(g, j)] # 0
             PROVE  seqs2[Slot(g, j)] = (seqs2[g] + j) % SeqRange
  BY Zenon DEF Holds
<1>3. j \in 0 .. MaxPackets /\ j \in Nat /\ j < MaxPackets
  BY <1>0 DEF Slots
<1> DEFINE k == k0 + 1 + j
<1>4. CASE k < MaxPackets
  <2>1. Slot(g, j) = Slot(f, k) /\ k \in Slots /\ k0 < k
    BY <1>0, <1>1, <1>4, SlotSum DEF Slots
  <2>2. pkts[Slot(f, k)] # 0
    BY <2>1
  <2>3. seqs[Slot(f, k)] = (e + k) % SeqRange
    BY <2>1, <2>2
  <2>4. (seqs2[g] + j) % SeqRange = (e + k) % SeqRange
    BY <1>1, <1>3, SeqSum
  <2>5. CASE Slot(f, k) = g
    <3>1. j = 0
      BY <1>1, <1>2, <1>3, <2>1, <2>5, SlotZero, SlotsDiffer, <1>0 DEF Slots
    <3> QED  BY <1>1, <2>1, <2>4, <2>5, <3>1
  <2>6. CASE Slot(f, k) # g
    <3>1. Slot(f, k) \in Slots
      BY <1>0, <2>1, SlotIs DEF Slots
    <3> QED  BY <2>1, <2>3, <2>4, <2>6, <3>1
  <2> QED  BY <2>5, <2>6
<1>5. CASE MaxPackets <= k
  <2>1. k - MaxPackets \in 0 .. k0
    BY <1>0, <1>1, <1>3, <1>5
  <2>2. Slot(g, j) = Slot(f, k - MaxPackets)
    BY <1>0, <1>1, <1>3, <1>5, SlotSum
  <2> QED  BY <2>1, <2>2
<1> QED  BY <1>0, <1>1, <1>3, <1>4, <1>5

-----------------------------------------------------------------------------
(* A step of the cache.                                                    *)

(* A packet that is neither misjudged nor due at once is due in its slot.  *)
LEMMA JudgedRight ==
    ASSUME CacheTypeOK, NetTypeOK, NEW p \in wire, ~is_first, ~Misjudged(p),
           NewSeq(p) \in 1 .. MaxPackets
    PROVE  /\ NewSeq(p) \in Slots /\ NewSeq(p) # 0
           /\ p.seq = (Expected + NewSeq(p)) % SeqRange
<1>1. /\ p.seq \in 0 .. SeqRange - 1 /\ Expected \in 0 .. SeqRange - 1
      /\ NewSeq(p) = p.seq - Expected
  BY PacketType DEF NewSeq
<1>2. NewSeq(p) # MaxPackets
  BY DEF Misjudged
<1>3. NewSeq(p) \in Slots /\ NewSeq(p) # 0
  BY <1>2, SlotsAssumption DEF Slots
<1>4. Expected + NewSeq(p) = p.seq
  BY <1>1
<1>5. p.seq % SeqRange = p.seq
  BY <1>1, SeqAssumption, SlotsAssumption, ModSmall
<1> QED  BY <1>3, <1>4, <1>5

(* A packet that is due at once is handed out.                             *)
LEMMA InSequenceKeeps ==
    ASSUME CacheTypeOK, NetTypeOK, Kept, InSequence
    PROVE  Kept'
<1>1. PICK p \in wire :
          /\ Looping /\ astray' = (astray \/ Misjudged(p))
          /\ NewSeq(p) = 0 \/ is_first
          /\ rtp_first' = SlotAt(1) /\ rtp_pkt' = rtp_pkt /\ is_first' = FALSE
          /\ rtp_seq' = [rtp_seq EXCEPT ![SlotAt(1)] = Succ(p.seq)]
  BY DEF InSequence, Reads, Feed
<1>2. NothingYet'
  BY <1>1 DEF NothingYet
<1>3. rtp_first \in Slots /\ 0 \in Slots /\ 1 \in 0 .. MaxPackets /\ 0 + 1 = 1
  BY SlotsAssumption DEF CacheTypeOK, Slots
<1>4. SlotAt(1) = Slot(rtp_first, 1) /\ SlotAt(1) \in Slots
  BY <1>3, SlotIs DEF SlotAt, Slot
<1>5. ~astray' => Holds(rtp_first', rtp_seq', rtp_pkt')
  <2>1. CASE is_first
    <3>1. \A i \in Slots : rtp_pkt'[i] = 0
      BY <1>1, <2>1 DEF Kept, NothingYet
    <3> QED  BY <1>1, <1>4, <3>1, EmptyHolds
  <2>2. CASE ~is_first
    <3> SUFFICES ASSUME ~astray
                 PROVE  Holds(SlotAt(1), rtp_seq', rtp_pkt)
      BY <1>1, Zenon
    <3>1. /\ p.seq \in 0 .. SeqRange - 1 /\ Expected \in 0 .. SeqRange - 1
          /\ p.seq = Expected
      BY <1>1, <2>2, PacketType DEF NewSeq
    <3>2. Holds(rtp_first, rtp_seq, rtp_pkt)
      BY DEF Kept
    <3>3. \A k \in Slots : (0 < k /\ rtp_pkt[Slot(rtp_first, k)] # 0)
              => rtp_seq[Slot(rtp_first, k)] = (Expected + k) % SeqRange
      BY <3>2 DEF Holds, Expected
    <3>4. \A k \in 0 .. 0 : rtp_pkt[Slot(rtp_first, k)] = 0
      BY <1>1, <1>3, SlotZero DEF Looping
    <3>5. rtp_seq'[Slot(rtp_first, 0 + 1)] = (Expected + (0 + 1)) % SeqRange
      BY <1>1, <1>3, <1>4, <3>1 DEF CacheTypeOK, Succ
    <3>6. \A i \in Slots : i # Slot(rtp_first, 0 + 1) => rtp_seq'[i] = rtp_seq[i]
      BY <1>1, <1>3, <1>4 DEF CacheTypeOK
    <3>7. Holds(Slot(rtp_first, 0 + 1), rtp_seq', rtp_pkt)
      BY <1>3, <3>1, <3>3, <3>4, <3>5, <3>6, MovedHolds
    <3> QED  BY <1>3, <1>4, <3>7
  <2> QED  BY <2>1, <2>2
<1> QED  BY <1>2, <1>5, Zenon DEF Kept

(* A packet out of the window empties the cache.                           *)
LEMMA ResetKeeps ==
    ASSUME CacheTypeOK, Overrun \/ Underrun
    PROVE  Kept'
<1>1. PICK p \in wire : CacheReset(p.seq)
  BY DEF Overrun, Underrun
<1>2. \A i \in Slots : rtp_pkt'[i] = 0
  BY <1>1 DEF CacheReset
<1>3. rtp_first' \in Slots
  BY <1>1, SlotsAssumption DEF CacheReset, Slots
<1>4. Holds(rtp_first', rtp_seq', rtp_pkt')
  BY <1>2, <1>3, EmptyHolds
<1> QED  BY <1>2, <1>4, Zenon DEF Kept, NothingYet

(* A packet that comes early is put into its slot.                         *)
LEMMA OutOfSequenceKeeps ==
    ASSUME CacheTypeOK, NetTypeOK, Kept, OutOfSequence
    PROVE  Kept'
<1>1. PICK p \in wire :
          /\ astray' = (astray \/ Misjudged(p)) /\ ~is_first
          /\ NewSeq(p) \in 1 .. MaxPackets
          /\ rtp_pkt' = [rtp_pkt EXCEPT ![SlotAt(NewSeq(p))] = p.n]
          /\ rtp_seq' = [rtp_seq EXCEPT ![SlotAt(NewSeq(p))] = p.seq]
          /\ is_first' = is_first /\ rtp_first' = rtp_first
  BY DEF OutOfSequence, Reads, NoPacket
<1>2. NothingYet'
  BY <1>1 DEF NothingYet
<1>3. ASSUME ~astray, ~Misjudged(p)
      PROVE  Holds(rtp_first, rtp_seq', rtp_pkt')
  <2> DEFINE d == NewSeq(p)
  <2>1. /\ d \in Slots /\ d # 0 /\ p.seq = (Expected + d) % SeqRange
    BY <1>1, <1>3, JudgedRight
  <2>2. rtp_first \in Slots /\ 0 \in Slots
    BY SlotsAssumption DEF CacheTypeOK, Slots
  <2>3. \A k \in Slots : k \in 0 .. MaxPackets
    BY SlotsAssumption DEF Slots
  <2>4. \A k \in Slots : /\ Slot(rtp_first, k) \in Slots
                         /\ Slot(rtp_first, k) = SlotAt(k)
    BY <2>2, <2>3, SlotIs DEF Slot, SlotAt
  <2>5. \A k \in Slots : k # d => Slot(rtp_first, k) # Slot(rtp_first, d)
    BY <2>1, <2>2, SlotsDiffer
  <2>6. /\ rtp_seq'[Slot(rtp_first, d)] = p.seq
        /\ \A k \in Slots : k # d =>
               /\ rtp_seq'[Slot(rtp_first, k)] = rtp_seq[Slot(rtp_first, k)]
               /\ rtp_pkt'[Slot(rtp_first, k)] = rtp_pkt[Slot(rtp_first, k)]
    <3> HIDE DEF d
    <3>1. /\ rtp_pkt' = [rtp_pkt EXCEPT ![Slot(rtp_first, d)] = p.n]
          /\ rtp_seq' = [rtp_seq EXCEPT ![Slot(rtp_first, d)] = p.seq]
      BY <1>1, <2>1, <2>4 DEF d
    <3> QED  BY <2>1, <2>4, <2>5, <3>1 DEF CacheTypeOK
  <2>7. rtp_seq'[rtp_first] = Expected
    BY <2>1, <2>2, <2>6, SlotZero DEF Expected
  <2>8. Holds(rtp_first, rtp_seq, rtp_pkt)
    BY <1>3 DEF Kept
  <2> HIDE DEF d
  <2> SUFFICES ASSUME NEW k \in Slots, rtp_pkt'[Slot(rtp_first, k)] # 0
               PROVE  rtp_seq'[Slot(rtp_first, k)] = (Expected + k) % SeqRange
    BY <2>7, Zenon DEF Holds
  <2>9. CASE k = d
    BY <2>1, <2>6, <2>9
  <2>10. CASE k # d
    BY <2>6, <2>8, <2>10 DEF Holds, Expected
  <2> QED  BY <2>9, <2>10
<1> QED  BY <1>1, <1>2, <1>3, Zenon DEF Kept

(* The next packet is taken from the cache.                                *)
LEMMA TakeNextKeeps ==
    ASSUME CacheTypeOK, Kept, TakeNext
    PROVE  Kept'
<1>1. PICK k \in Slots : Skips(k) /\ Takes(k)
  BY DEF TakeNext
<1>2. is_first' = is_first /\ astray' = astray
  BY Zenon DEF TakeNext
<1>3. /\ rtp_first \in Slots /\ k \in 0 .. MaxPackets /\ k + 1 \in 0 .. MaxPackets
      /\ MaxPackets \in Nat /\ 1 \in 0 .. MaxPackets /\ k \in Nat
  BY SlotsAssumption DEF CacheTypeOK, Slots
<1>4. /\ SlotAt(k) = Slot(rtp_first, k) /\ SlotAt(k) \in Slots
      /\ SlotAt(k + 1) = Slot(rtp_first, k + 1) /\ SlotAt(k + 1) \in Slots
  BY <1>3, SlotIs DEF SlotAt, Slot
<1>5. /\ rtp_first' = Slot(rtp_first, k + 1)
      /\ rtp_seq' = [rtp_seq EXCEPT ![SlotAt(k + 1)] = Succ(rtp_seq[SlotAt(k)])]
      /\ rtp_pkt' = [rtp_pkt EXCEPT ![SlotAt(k)] = 0]
  BY <1>1, <1>4 DEF Takes
<1>6. NothingYet'
  BY <1>2, <1>4, <1>5 DEF Kept, NothingYet, CacheTypeOK
<1>7. CASE \A m \in Slots : Empty(m)
  <2>1. \A i \in Slots : rtp_pkt[i] = 0
    <3> TAKE i \in Slots
    <3>1. PICK m \in Slots : SlotAt(m) = i
      BY <1>3, EverySlot DEF SlotAt, Slot
    <3> QED  BY <1>7, <3>1 DEF Empty
  <2>2. \A i \in Slots : rtp_pkt'[i] = 0
    BY <1>5, <2>1 DEF CacheTypeOK
  <2> QED  BY <1>4, <1>5, <1>6, <2>2, EmptyHolds DEF Kept
<1>8. CASE ~Empty(k)
  <2> SUFFICES ASSUME Holds(rtp_first, rtp_seq, rtp_pkt)
               PROVE  Holds(Slot(rtp_first, k + 1), rtp_seq', rtp_pkt')
    BY <1>2, <1>5, <1>6, Zenon DEF Kept
  <2>1. Expected \in 0 .. SeqRange - 1
    BY <1>3 DEF CacheTypeOK, Expected
  <2>2. \A m \in Slots : (k < m /\ rtp_pkt[Slot(rtp_first, m)] # 0)
            => rtp_seq[Slot(rtp_first, m)] = (Expected + m) % SeqRange
    BY DEF Holds, Expected
  <2>3. \A m \in Slots : Slot(rtp_first, m) \in Slots
    <3> TAKE m \in Slots
    <3>1. m \in 0 .. MaxPackets
      BY <1>3 DEF Slots
    <3> QED  BY <1>3, <3>1, SlotIs
  <2>4. \A m \in 0 .. k : rtp_pkt'[Slot(rtp_first, m)] = 0
    <3> TAKE m \in 0 .. k
    <3>1. m \in Slots
      BY <1>3 DEF Slots
    <3>2. CASE m = k
      BY <1>4, <1>5, <3>2 DEF CacheTypeOK
    <3>3. CASE m # k
      <4>1. m \in 0 .. k - 1
        BY <1>3, <3>3
      <4>2. rtp_pkt[Slot(rtp_first, m)] = 0
        BY <1>1, <4>1 DEF Skips, Empty, SlotAt, Slot
      <4> QED  BY <1>5, <2>3, <3>1, <4>2 DEF CacheTypeOK
    <3> QED  BY <3>2, <3>3
  <2>5. \A m \in Slots :
            k < m => rtp_pkt'[Slot(rtp_first, m)] = rtp_pkt[Slot(rtp_first, m)]
    <3> TAKE m \in Slots
    <3> SUFFICES ASSUME k < m
                 PROVE  rtp_pkt'[Slot(rtp_first, m)] = rtp_pkt[Slot(rtp_first, m)]
      OBVIOUS
    <3>1. Slot(rtp_first, m) # SlotAt(k)
      BY <1>3, <1>4, SlotsDiffer
    <3> QED  BY <1>5, <2>3, <3>1 DEF CacheTypeOK
  <2>6. rtp_seq[SlotAt(k)] = (Expected + k) % SeqRange
    BY <1>4, <1>8 DEF Holds, Expected, Empty
  <2>7. rtp_seq'[Slot(rtp_first, k + 1)] = (Expected + (k + 1)) % SeqRange
    <3>1. (((Expected + k) % SeqRange) + 1) % SeqRange
              = (Expected + (k + 1)) % SeqRange
      BY <1>3, <2>1, SeqSum
    <3>2. rtp_seq'[Slot(rtp_first, k + 1)] = Succ(rtp_seq[SlotAt(k)])
      BY <1>4, <1>5 DEF CacheTypeOK
    <3> QED  BY <2>6, <3>1, <3>2 DEF Succ
  <2>8. \A i \in Slots :
            i # Slot(rtp_first, k + 1) => rtp_seq'[i] = rtp_seq[i]
    BY <1>4, <1>5 DEF CacheTypeOK
  <2>9. k \in Slots /\ rtp_first \in Slots
    BY <1>1, <1>3
  <2> QED
    BY <2>1, <2>2, <2>4, <2>5, <2>7, <2>8, <2>9, MovedHolds, SMTT(30)
<1> QED  BY <1>1, <1>7, <1>8 DEF Skips

-----------------------------------------------------------------------------
(* The invariant holds.                                                    *)

(* The initial states satisfy the invariant.                               *)
LEMMA InitInv == Init => TypeOK /\ Kept
<1> SUFFICES ASSUME Init PROVE TypeOK /\ Kept
  OBVIOUS
<1>1. 0 \in Slots /\ 0 \in 0 .. MaxPackets - 3 /\ 0 \in 0 .. SeqRange - 1
  BY SlotsAssumption, SeqAssumption DEF Slots
<1>2. CacheTypeOK
  BY <1>1, NetworkAssumption DEF Init, CacheTypeOK
<1>3. NetTypeOK
  BY SeqAssumption, NetworkAssumption DEF Init, NetTypeOK
<1>4. FlagTypeOK
  BY Zenon DEF Init, FlagTypeOK
<1>5. \A i \in Slots : rtp_pkt[i] = 0
  BY DEF Init
<1>6. rtp_first \in Slots
  BY <1>1 DEF Init
<1>7. Holds(rtp_first, rtp_seq, rtp_pkt)
  BY <1>5, <1>6, EmptyHolds
<1> QED  BY <1>2, <1>3, <1>4, <1>5, <1>7, TypeParts, Zenon DEF Kept, NothingYet

(* Every step keeps it.                                                    *)
LEMMA NextInv ==
    ASSUME TypeOK, Kept, [Next]_vars
    PROVE  TypeOK' /\ Kept'
<1>1. CacheTypeOK /\ NetTypeOK /\ FlagTypeOK
  BY TypeParts
<1>2. CASE Next
  <2>1. CacheTypeOK' /\ NetTypeOK' /\ FlagTypeOK'
    BY <1>1, <1>2, CacheType, NetType, FlagType
  <2>2. TypeOK'
    BY <2>1, Zenon DEF TypeOK, CacheTypeOK, NetTypeOK, FlagTypeOK
  <2>3. CASE InSequence \/ Overrun \/ Underrun \/ OutOfSequence \/ TakeNext
    BY <1>1, <2>2, <2>3, InSequenceKeeps, ResetKeeps, OutOfSequenceKeeps,
       TakeNextKeeps
  <2>4. CASE Network \/ Damaged \/ DropOld
    <3>1. /\ rtp_first' = rtp_first /\ rtp_seq' = rtp_seq
          /\ rtp_pkt' = rtp_pkt /\ is_first' = is_first
      BY <2>4 DEF Network, Send, Lose, Restart, Damaged, DropOld, NoPacket,
         cacheVars
    <3>2. ~astray' => ~astray
      BY <2>4, Zenon DEF Network, Send, Lose, Restart, Damaged, DropOld, Reads
    <3> QED  BY <2>2, <3>1, <3>2, Zenon DEF Kept, NothingYet
  <2> QED  BY <1>2, <2>3, <2>4 DEF Next, GetNext
<1>3. CASE UNCHANGED vars
  <2>1. TypeOK'
    BY <1>3, Zenon DEF vars, cacheVars, netVars, TypeOK
  <2>2. Kept'
    BY <1>3, Zenon DEF vars, cacheVars, netVars, Kept, NothingYet
  <2> QED  BY <2>1, <2>2
<1> QED  BY <1>2, <1>3

(* The invariant, in every behaviour.                                      *)
THEOREM RtpInv == Spec => [](TypeOK /\ Kept)
<1> QED  BY InitInv, NextInv, PTL DEF Spec

(* Every variable keeps its type: no slot outside the cache is written and *)
(* no sequence number leaves its 16 bits (rtp_cache.cpp:69-134).           *)
THEOREM RtpTypeOK == Spec => []TypeOK
<1> QED  BY RtpInv, PTL

(* Each slot is empty or holds the packet that is due there                *)
(* (rtp_cache.cpp:62-66), whatever the network loses, repeats and delays.  *)
THEOREM RtpSlotsHoldTheirs == Spec => []SlotsHoldTheirs
<1>1. TypeOK /\ Kept => SlotsHoldTheirs
  BY TypeParts, HoldsIs, Zenon DEF Kept
<1> QED  BY <1>1, RtpInv, PTL

-----------------------------------------------------------------------------
(* More about remainders.                                                  *)

(* A number is a multiple of the divisor and its remainder,                *)
LEMMA ModParts ==
    ASSUME NEW B \in Nat \ {0}, NEW x \in Int
    PROVE  x % B \in 0 .. B - 1 /\ \E q \in Int : x = q * B + (x % B)
<1>1. x % B \in 0 .. B - 1
  BY SMT
<1>2. x \div B \in Int
  BY SMT
<1>3. x = (x \div B) * B + (x % B)
  BY SMT
<1> QED  BY <1>1, <1>2, <1>3

(* of which only the remainder counts.                                     *)
LEMMA ModOfParts ==
    ASSUME NEW B \in Nat \ {0}, NEW q \in Int, NEW r \in 0 .. B - 1
    PROVE  (q * B + r) % B = r
  BY SMT

(* Going on from any number.                                               *)
LEMMA ModOn ==
    ASSUME NEW B \in Nat \ {0}, NEW x \in Int, NEW d \in 0 .. B - 1
    PROVE  (x + d) % B = Round((x % B) + d, B)
<1>1. PICK q \in Int : x = q * B + (x % B)
  BY ModParts
<1>2. x % B \in 0 .. B - 1
  BY ModParts
<1>3. CASE (x % B) + d < B
  <2> DEFINE r == (x % B) + d
  <2>0. r \in 0 .. B - 1
    BY <1>2, <1>3
  <2>1. x + d = q * B + r
    BY <1>1, <1>2
  <2>2. (q * B + r) % B = r
    <3> HIDE DEF r
    <3> QED  BY <2>0, ModOfParts
  <2> QED  BY <1>3, <2>1, <2>2 DEF Round
<1>4. CASE B <= (x % B) + d
  <2> DEFINE r == (x % B) + d - B
  <2>0. r \in 0 .. B - 1
    BY <1>2, <1>4
  <2>1. x + d = (q + 1) * B + r
    BY <1>1, <1>2
  <2>2. ((q + 1) * B + r) % B = r
    <3> HIDE DEF r
    <3> QED  BY <2>0, ModOfParts
  <2> QED  BY <1>4, <2>1, <2>2 DEF Round
<1> QED  BY <1>2, <1>3, <1>4

-----------------------------------------------------------------------------
(* The stream without faults.                                              *)

(* The sequence number of packet n.                                        *)
SeqOf(n) == (base + n) % SeqRange

OnWire(n) == \E p \in wire : p.n = n

(* Packets on the wire are as they were sent and not far apart;            *)
WireInv ==
    \A p \in wire :
        p.seq = SeqOf(p.n) /\ p.n <= sent /\ sent - p.n < Window

(* what is cached has been taken off the wire.                             *)
Once == \A i \in Slots : rtp_pkt[i] <= sent /\ ~OnWire(rtp_pkt[i])

(* Before the first packet is given: number 0 is waited for, whatever the  *)
(* stream begins with, and what has come is in the cache.                  *)
Start ==
    /\ rtp_first = 0 /\ rtp_seq[0] = 0 /\ rtp_pkt[0] = 0
    /\ \A k \in Slots : rtp_pkt[k] # 0 => SeqOf(rtp_pkt[k]) = k
    /\ \A n \in 1 .. sent :
          OnWire(n) \/ (SeqOf(n) \in Slots /\ rtp_pkt[SeqOf(n)] = n)
    /\ tries = Cardinality({n \in 1 .. sent : ~OnWire(n)})

(* Afterwards: the packet that is due, *)
Due == given[Len(given)] + 1

(* the packets that get_next may have read while it waits for that one,    *)
Others ==
    (given[1] - Window + 1 .. given[1] - 1) \cup (Due + 1 .. Due + Window - 1)
Tried == {n \in Others : n <= sent /\ ~OnWire(n)}

(* and where all packets from the due one on are.                          *)
Running ==
    /\ ~is_first /\ Expected = SeqOf(Due)
    /\ given[1] < Due /\ Due <= sent + 1
    /\ \A k \in Slots : rtp_pkt[Slot(rtp_first, k)] \in {0, Due + k}
    /\ \A n \in Due .. sent :
          OnWire(n) \/ (/\ n - Due \in Slots
                        /\ rtp_pkt[Slot(rtp_first, n - Due)] = n)
    /\ \A n \in given[1] .. Due - 1 : ~OnWire(n)
    /\ tries <= Cardinality(Tried)
    /\ \A i \in 1 .. Len(given) - 1 : given[i + 1] = given[i] + 1

Calm == faults = 0 /\ (~astray \/ NoWrap)
CalmInv ==
    Calm => /\ WireInv /\ Once
            /\ given = <<>> => Start
            /\ given # <<>> => Running

-----------------------------------------------------------------------------
(* Sequence numbers go up by one,                                          *)
LEMMA SeqOfNext ==
    ASSUME NetTypeOK, NEW n \in Int
    PROVE  SeqOf(n + 1) = Succ(SeqOf(n)) /\ SeqOf(n) \in 0 .. SeqRange - 1
<1>1. /\ SeqRange \in Nat \ {0} /\ base + n \in Int /\ 1 \in 0 .. SeqRange - 1
      /\ base + (n + 1) = (base + n) + 1
  BY SeqAssumption, SlotsAssumption DEF NetTypeOK
<1>2. (base + (n + 1)) % SeqRange = Round(SeqOf(n) + 1, SeqRange)
  BY <1>1, ModOn DEF SeqOf
<1>3. SeqOf(n) \in 0 .. SeqRange - 1
  BY <1>1, ModParts DEF SeqOf
<1>4. (SeqOf(n) + 1) % SeqRange = Round(SeqOf(n) + 1, SeqRange)
  <2>1. SeqOf(n) + 1 \in Nat /\ SeqOf(n) + 1 < 2 * SeqRange
    BY <1>1, <1>3
  <2> QED  BY <1>1, <2>1, RoundIs
<1> QED  BY <1>2, <1>3, <1>4 DEF SeqOf, Succ

(* and differ as the packets do, or go once round.                         *)
LEMMA SeqOfFurther ==
    ASSUME NetTypeOK, NEW m \in Int, NEW n \in Int, m <= n, n - m < SeqRange
    PROVE  SeqOf(n) - SeqOf(m) \in {n - m, n - m - SeqRange}
<1>1. /\ SeqRange \in Nat \ {0} /\ base + m \in Int
      /\ n - m \in 0 .. SeqRange - 1 /\ base + n = (base + m) + (n - m)
  BY SeqAssumption, SlotsAssumption DEF NetTypeOK
<1>2. (base + n) % SeqRange = Round(SeqOf(m) + (n - m), SeqRange)
  BY <1>1, ModOn DEF SeqOf
<1>3. SeqOf(m) \in 0 .. SeqRange - 1
  BY SeqOfNext
<1> QED  BY <1>1, <1>2, <1>3 DEF SeqOf, Round

(* What is not misjudged is as far ahead, or behind, as it seems.          *)
LEMMA JudgedNear ==
    ASSUME CacheTypeOK, NetTypeOK, NEW p \in wire, ~is_first, ~Misjudged(p),
           NEW m \in Int, Expected = SeqOf(m), p.seq = SeqOf(p.n),
           2 * (p.n - m) < SeqRange, 2 * (m - p.n) < SeqRange
    PROVE  NewSeq(p) = p.n - m
<1>1. /\ SeqRange \in Nat /\ SeqRange > 0 /\ p.n \in Nat
      /\ SeqOf(p.n) \in 0 .. SeqRange - 1 /\ SeqOf(m) \in 0 .. SeqRange - 1
  <2>1. p.n \in Nat
    BY PacketType, NetworkAssumption
  <2> QED  BY <2>1, SeqAssumption, SlotsAssumption, SeqOfNext
<1>2. NewSeq(p) = SeqOf(p.n) - SeqOf(m) /\ NewSeq(p) = TrueDistance(p)
  BY DEF NewSeq, Misjudged
<1>3. /\ TrueDistance(p) \in Int
      /\ 2 * TrueDistance(p) < SeqRange /\ -SeqRange <= 2 * TrueDistance(p)
  <2> DEFINE d == NewSeq(p) % SeqRange
  <2>1. d \in 0 .. SeqRange - 1
    BY <1>1, <1>2, SeqOfAny
  <2>2. TrueDistance(p) = IF 2 * d < SeqRange THEN d ELSE d - SeqRange
    BY DEF TrueDistance
  <2> HIDE DEF d
  <2> QED  BY <1>1, <2>1, <2>2
<1>4. CASE m <= p.n
  <2>1. p.n - m < SeqRange
    BY <1>1, <1>4
  <2>2. SeqOf(p.n) - SeqOf(m) \in {p.n - m, p.n - m - SeqRange}
    BY <1>1, <1>4, <2>1, SeqOfFurther
  <2> QED  BY <1>1, <1>2, <1>3, <1>4, <2>2
<1>5. CASE p.n < m
  <2>1. m - p.n < SeqRange
    BY <1>1, <1>5
  <2>2. SeqOf(m) - SeqOf(p.n) \in {m - p.n, m - p.n - SeqRange}
    BY <1>1, <1>5, <2>1, SeqOfFurther
  <2> QED  BY <1>1, <1>2, <1>3, <1>5, <2>2
<1> QED  BY <1>1, <1>4, <1>5

-----------------------------------------------------------------------------
(* Far from the wrap the numbers are those of the packets, moved by base.   *)
LEMMA UnwrappedNumbers ==
    ASSUME NetTypeOK, NoWrap, NEW n \in Nat, n <= sent + 1
    PROVE  SeqOf(n) = base + n
<1>1. /\ SeqRange \in Nat \ {0} /\ base \in Nat /\ sent \in Nat
      /\ base + sent + 1 < SeqRange
  BY SeqAssumption, SlotsAssumption, NetworkAssumption DEF NetTypeOK, NoWrap
<1>2. base + n \in Int /\ 0 <= base + n /\ base + n < SeqRange
  BY <1>1
<1> QED  BY <1>1, <1>2, ModSmall DEF SeqOf

(* One packet less on the wire.                                            *)
LEMMA ReadsOne ==
    ASSUME CacheTypeOK, NetTypeOK, WireInv, NEW p \in wire, Reads(p), Calm'
    PROVE  /\ Calm /\ (~Misjudged(p) \/ NoWrap) /\ Looping
           /\ sent' = sent /\ base' = base
           /\ p.n \in 1 .. Packets /\ p.seq = SeqOf(p.n)
           /\ p.n <= sent /\ sent - p.n < Window
           /\ \A n : OnWire(n)' <=> OnWire(n) /\ n # p.n
           /\ WireInv'
<1>1. wire' = wire \ {p} /\ faults' = faults
  BY NetworkAssumption DEF Reads, Arrives, Calm, NetTypeOK
<1>2. Calm /\ (~Misjudged(p) \/ NoWrap)
  <2>1. astray' = (astray \/ Misjudged(p)) /\ sent' = sent /\ base' = base
    BY Zenon DEF Reads, Arrives
  <2>2. NoWrap' <=> NoWrap
    BY <2>1, Zenon DEF NoWrap
  <2>3. faults' = 0 /\ (~astray' \/ NoWrap')
    BY Zenon DEF Calm
  <2> QED  BY <1>1, <2>1, <2>2, <2>3, Zenon DEF Calm
<1>3. Looping /\ sent' = sent /\ base' = base
  BY Zenon DEF Reads, Arrives
<1>4. /\ p.n \in 1 .. Packets /\ p.seq = SeqOf(p.n)
      /\ p.n <= sent /\ sent - p.n < Window
  BY PacketType DEF WireInv
<1>5. \A n : OnWire(n)' <=> OnWire(n) /\ n # p.n
  <2>1. ASSUME NEW q \in wire, q.n = p.n PROVE q = p
    <3>1. q.seq = SeqOf(q.n)
      BY DEF WireInv
    <3>2. q \in [n : 1 .. Packets, seq : 0 .. SeqRange - 1]
      BY DEF NetTypeOK
    <3>3. p \in [n : 1 .. Packets, seq : 0 .. SeqRange - 1]
      BY DEF NetTypeOK
    <3>4. q.seq = p.seq
      BY <1>4, <2>1, <3>1
    <3> QED  BY <2>1, <3>2, <3>3, <3>4
  <2> QED  BY <1>1, <2>1, Zenon DEF OnWire
<1>6. WireInv'
  BY <1>1, <1>3, Zenon DEF WireInv, SeqOf
<1> QED  BY <1>2, <1>3, <1>4, <1>5, <1>6

(* The numbers that were tried are finitely many, at most those that are   *)
(* near the first one given and the due one.                               *)
LEMMA TriedFew ==
    ASSUME NEW a \in Int, NEW b \in Int, NEW w \in Nat \ {0}, NEW T,
           T \subseteq (a - w + 1 .. a - 1) \cup (b + 1 .. b + w - 1)
    PROVE  /\ IsFiniteSet(T) /\ Cardinality(T) \in Nat
           /\ Cardinality(T) <= 2 * (w - 1)
<1> DEFINE A == a - w + 1 .. a - 1
           B == b + 1 .. b + w - 1
<1>1. IsFiniteSet(A) /\ Cardinality(A) = w - 1
  <2>1. a - w + 1 \in Int /\ a - 1 \in Int
    OBVIOUS
  <2> QED  BY <2>1, FS_Interval
<1>2. IsFiniteSet(B) /\ Cardinality(B) = w - 1
  <2>1. b + 1 \in Int /\ b + w - 1 \in Int
    OBVIOUS
  <2> QED  BY <2>1, FS_Interval
<1> HIDE DEF A, B
<1>3. /\ IsFiniteSet(A \cup B)
      /\ Cardinality(A \cup B)
             = Cardinality(A) + Cardinality(B) - Cardinality(A \cap B)
  BY <1>1, <1>2, FS_Union
<1>4. IsFiniteSet(A \cap B) /\ Cardinality(A \cap B) \in Nat
  BY <1>1, FS_Subset, FS_CardinalityType, A \cap B \subseteq A
<1>5. /\ IsFiniteSet(T) /\ Cardinality(T) <= Cardinality(A \cup B)
      /\ Cardinality(T) \in Nat
  BY <1>3, FS_Subset, FS_CardinalityType DEF A, B
<1> QED  BY <1>1, <1>2, <1>3, <1>4, <1>5

(* One more that was tried.                                                *)
LEMMA TriedMore ==
    ASSUME NEW T, IsFiniteSet(T), NEW n, n \notin T, NEW t \in Int,
           t <= Cardinality(T)
    PROVE  t + 1 <= Cardinality(T \cup {n})
<1>1. Cardinality(T \cup {n}) = Cardinality(T) + 1
  BY FS_AddElement
<1>2. Cardinality(T) \in Nat
  BY FS_CardinalityType
<1> QED  BY <1>1, <1>2

(* When the first packet has been given, all is set for the rest.          *)
LEMMA FirstGiven ==
    ASSUME Window \in Nat \ {0}, TypeOK', NEW n \in 1 .. Packets,
           n <= sent', given' = <<n>>, is_first' = FALSE, tries' = 0,
           rtp_seq'[rtp_first'] = SeqOf(n + 1)',
           \A k \in Slots :
               rtp_pkt'[Slot(rtp_first', k)] \in {0, n + 1 + k},
           \A j \in n + 1 .. sent' :
               OnWire(j)' \/ (/\ j - (n + 1) \in Slots
                              /\ rtp_pkt'[Slot(rtp_first', j - (n + 1))] = j),
           ~OnWire(n)'
    PROVE  Running'
<1>1. n \in Nat /\ Due' = n + 1 /\ given'[1] = n /\ sent' \in Nat
      /\ Len(given') = 1
  BY NetworkAssumption DEF Due, TypeOK
<1>2. 0 <= Cardinality(Tried')
  <2>1. Tried' \subseteq (n - Window + 1 .. n - 1)
                             \cup (n + 1 + 1 .. n + 1 + Window - 1)
    BY <1>1 DEF Tried, Others
  <2>2. n \in Int /\ n + 1 \in Int /\ \A x \in Nat : 0 <= x
    BY <1>1
  <2>3. Cardinality(Tried') \in Nat
    BY <2>1, <2>2, TriedFew, Zenon
  <2> QED  BY <2>2, <2>3, Zenon
<1>3. \A j \in given'[1] .. Due' - 1 : ~OnWire(j)'
  <2> TAKE j \in given'[1] .. Due' - 1
  <2>1. j = n
    BY <1>1
  <2> QED  BY <2>1
<1>4. given'[1] < Due' /\ Due' <= sent' + 1
  <2>1. n < n + 1 /\ n + 1 <= sent' + 1
    <3>1. \A x, y \in Nat : x <= y => x < x + 1 /\ x + 1 <= y + 1
      BY SMT
    <3> QED  BY <1>1, <3>1, Zenon
  <2> QED  BY <1>1, <2>1, Zenon
<1>5. Expected' = SeqOf(Due)'
  BY <1>1 DEF Expected, SeqOf
<1>6. \A i \in 1 .. Len(given') - 1 : given'[i + 1] = given'[i] + 1
  BY <1>1
<1>7. \A k \in Slots : rtp_pkt'[Slot(rtp_first', k)] \in {0, Due' + k}
  BY <1>1
<1>8. \A j \in Due' .. sent' :
          OnWire(j)' \/ (/\ j - Due' \in Slots
                         /\ rtp_pkt'[Slot(rtp_first', j - Due')] = j)
  BY <1>1
<1>9. tries' <= Cardinality(Tried')
  BY <1>2
<1> QED  BY <1>3, <1>4, <1>5, <1>6, <1>7, <1>8, <1>9, Zenon DEF Running

-----------------------------------------------------------------------------
(* Until the first packet is given.                                        *)

(* Packets overtake each other by less than half the reads that get_next   *)
(* makes while it waits for one: with the code's 32 slots by less than 15  *)
(* places.                                                                 *)
Overtaking == Window \in Nat \ {0} /\ 2 * Window < MaxPackets - 1

(* What was sent is on the wire, and near the end, or has been read.       *)
LEMMA StartBound ==
    ASSUME CacheTypeOK, NetTypeOK, Overtaking, WireInv, Start
    PROVE  sent < 2 * MaxPackets
<1> DEFINE R == {n \in 1 .. sent : ~OnWire(n)}
<1>1. /\ sent \in Nat /\ Window \in Nat /\ MaxPackets \in Nat
      /\ tries \in Int /\ tries <= MaxPackets - 3
      /\ 2 * Window < MaxPackets - 1
  BY NetworkAssumption, SlotsAssumption
     DEF NetTypeOK, CacheTypeOK, Overtaking
<1>2. IsFiniteSet(R)
  <2>1. IsFiniteSet(1 .. sent)
    BY <1>1, FS_Interval
  <2> QED  BY <2>1, FS_Subset, R \subseteq 1 .. sent
<1>3. CASE sent <= Window
  BY <1>1, <1>3
<1>4. CASE Window < sent
  <2>1. 1 .. sent - Window \subseteq R
    <3> SUFFICES ASSUME NEW n \in 1 .. sent - Window, OnWire(n)
                 PROVE  FALSE
      BY <1>1
    <3>1. PICK p \in wire : p.n = n
      BY DEF OnWire
    <3>2. sent - p.n < Window
      BY DEF WireInv
    <3> QED  BY <1>1, <3>1, <3>2
  <2>2. Cardinality(1 .. sent - Window) = sent - Window
    <3>1. 1 \in Int /\ sent - Window \in Int /\ sent - Window >= 1
      BY <1>1, <1>4
    <3> QED  BY <3>1, FS_Interval
  <2>3. Cardinality(1 .. sent - Window) <= Cardinality(R)
    BY <1>2, <2>1, FS_Subset
  <2>4. Cardinality(R) = tries
    BY DEF Start
  <2> QED  BY <1>1, <2>2, <2>3, <2>4
<1> QED  BY <1>1, <1>3, <1>4

(* Near packets in the cache are as far apart as their slots.              *)
LEMMA NearSlots ==
    ASSUME NetTypeOK, NEW m \in Nat, NEW n \in Nat,
           m < 2 * MaxPackets, n < 2 * MaxPackets,
           SeqOf(m) \in Slots, SeqOf(n) \in Slots
    PROVE  SeqOf(n) - SeqOf(m) = n - m
<1>1. /\ MaxPackets \in Nat /\ MaxPackets > 3
      /\ SeqRange \in Nat /\ SeqRange > 6 * MaxPackets
      /\ SeqOf(m) \in 0 .. MaxPackets - 1 /\ SeqOf(n) \in 0 .. MaxPackets - 1
  BY SeqAssumption, SlotsAssumption DEF Slots
<1>2. CASE m <= n
  <2>1. n - m < SeqRange
    BY <1>1
  <2>2. SeqOf(n) - SeqOf(m) \in {n - m, n - m - SeqRange}
    BY <1>2, <2>1, SeqOfFurther
  <2> QED  BY <1>1, <2>2
<1>3. CASE n < m
  <2>1. m - n < SeqRange
    BY <1>1
  <2>2. SeqOf(m) - SeqOf(n) \in {m - n, m - n - SeqRange}
    BY <1>3, <2>1, SeqOfFurther
  <2> QED  BY <1>1, <2>2
<1> QED  BY <1>2, <1>3

(* The first packet given is the first in the cache, or would be.          *)
LEMMA StartTakes ==
    ASSUME CacheTypeOK, NetTypeOK, TypeOK', Overtaking, WireInv, Once, Start,
           NEW k \in Slots, NEW n \in 1 .. sent, SeqOf(n) = k,
           \A j \in Slots : j < k => rtp_pkt[j] = 0,
           sent' = sent, base' = base, ~OnWire(n)',
           \A j : OnWire(j) /\ j # n => OnWire(j)',
           rtp_first' = Slot(0, k + 1),
           rtp_seq' = [rtp_seq EXCEPT ![Slot(0, k + 1)] = Succ(k)],
           rtp_pkt' = [rtp_pkt EXCEPT ![k] = 0],
           given' = <<n>>, is_first' = FALSE, tries' = 0
    PROVE  Running'
<1>0. /\ MaxPackets \in Nat /\ MaxPackets > 3 /\ sent \in Nat
      /\ sent < 2 * MaxPackets /\ sent <= Packets /\ Packets \in Nat
      /\ k \in 0 .. MaxPackets - 1 /\ 0 \in Slots /\ n \in Nat /\ n <= sent
  BY StartBound, SlotsAssumption, NetworkAssumption DEF NetTypeOK, Slots
<1>1. k + 1 \in 0 .. MaxPackets
  BY <1>0
<1>2. /\ Slot(0, k + 1) \in Slots
      /\ \A j \in Slots : Slot(Slot(0, k + 1), j)
             = IF k + 1 + j < MaxPackets THEN k + 1 + j
                                         ELSE k + 1 + j - MaxPackets
  <2>1. Slot(0, k + 1) \in Slots
    BY <1>0, <1>1, SlotIs
  <2>2. ASSUME NEW j \in Slots
        PROVE  Slot(Slot(0, k + 1), j)
             = IF k + 1 + j < MaxPackets THEN k + 1 + j
                                         ELSE k + 1 + j - MaxPackets
    <3> DEFINE c == IF k + 1 + j < MaxPackets THEN k + 1 + j
                                              ELSE k + 1 + j - MaxPackets
    <3>1. c \in 0 .. MaxPackets - 1
      BY <1>0 DEF Slots
    <3>2. Slot(Slot(0, k + 1), j) = Slot(0, c)
      BY <1>0, <1>1, SlotSum
    <3> HIDE DEF c
    <3>3. Slot(0, c) = c
      <4>1. c \in 0 .. MaxPackets
        BY <1>0, <3>1
      <4>2. Slot(0, c) = Round(0 + c, MaxPackets)
        BY <1>0, <4>1, SlotIs
      <4> QED  BY <1>0, <3>1, <4>2 DEF Round
    <3> QED  BY <3>2, <3>3 DEF c
  <2> QED  BY <2>1, <2>2
<1>3. \A i \in Slots : rtp_pkt[i] # 0 => rtp_pkt[i] - n = i - k
  <2> TAKE i \in Slots
  <2> HAVE rtp_pkt[i] # 0
  <2>1. rtp_pkt[i] \in Nat /\ rtp_pkt[i] < 2 * MaxPackets
    BY <1>0 DEF CacheTypeOK, Once
  <2>2. SeqOf(rtp_pkt[i]) = i
    BY DEF Start
  <2>3. n < 2 * MaxPackets
    BY <1>0
  <2> QED  BY <1>0, <2>1, <2>2, <2>3, NearSlots
<1>4. \A i \in Slots : rtp_pkt'[i] = IF i = k THEN 0 ELSE rtp_pkt[i]
  BY DEF CacheTypeOK
<1>5. \A j \in Slots : rtp_pkt'[Slot(rtp_first', j)] \in {0, n + 1 + j}
  <2> TAKE j \in Slots
  <2>1. CASE k + 1 + j < MaxPackets
    <3>1. /\ Slot(rtp_first', j) = k + 1 + j /\ k + 1 + j \in Slots
          /\ k + 1 + j # k /\ j \in Nat
      BY <1>0, <1>2, <2>1 DEF Slots
    <3>2. rtp_pkt'[Slot(rtp_first', j)] = rtp_pkt[k + 1 + j]
      BY <1>4, <3>1
    <3>3. rtp_pkt[k + 1 + j] # 0 => rtp_pkt[k + 1 + j] - n = j + 1
      BY <1>0, <1>3, <3>1
    <3>4. rtp_pkt[k + 1 + j] \in Nat
      BY <1>0, <3>1 DEF CacheTypeOK
    <3> QED  BY <1>0, <3>1, <3>2, <3>3, <3>4
  <2>2. CASE MaxPackets <= k + 1 + j
    <3>1. /\ Slot(rtp_first', j) = k + 1 + j - MaxPackets
          /\ k + 1 + j - MaxPackets \in Slots /\ k + 1 + j - MaxPackets <= k
      BY <1>0, <1>2, <2>2 DEF Slots
    <3>2. rtp_pkt'[k + 1 + j - MaxPackets] = 0
      BY <1>0, <1>4, <3>1
    <3> QED  BY <3>1, <3>2
  <2> QED  BY <1>0, <2>1, <2>2 DEF Slots
<1>6. \A j \in n + 1 .. sent' :
          OnWire(j)' \/ (/\ j - (n + 1) \in Slots
                         /\ rtp_pkt'[Slot(rtp_first', j - (n + 1))] = j)
  <2> SUFFICES ASSUME NEW j \in n + 1 .. sent, ~OnWire(j)
               PROVE  /\ j - (n + 1) \in Slots
                      /\ rtp_pkt'[Slot(rtp_first', j - (n + 1))] = j
    BY <1>0
  <2>1. j \in 1 .. sent /\ j \in Nat /\ j # n
    BY <1>0
  <2>2. SeqOf(j) \in Slots /\ rtp_pkt[SeqOf(j)] = j
    BY <2>1 DEF Start
  <2>3. j - n = SeqOf(j) - k /\ SeqOf(j) \in 0 .. MaxPackets - 1
    BY <1>0, <1>3, <2>1, <2>2 DEF Slots
  <2>4. j - (n + 1) \in Slots /\ k + 1 + (j - (n + 1)) = SeqOf(j)
    BY <1>0, <2>3 DEF Slots
  <2>5. Slot(rtp_first', j - (n + 1)) = SeqOf(j)
    BY <1>0, <1>2, <2>3, <2>4
  <2> QED  BY <1>0, <1>4, <2>2, <2>3, <2>4, <2>5
<1>7. rtp_seq'[rtp_first'] = SeqOf(n + 1)'
  <2>1. SeqOf(n + 1)' = SeqOf(n + 1)
    BY DEF SeqOf
  <2>2. SeqOf(n + 1) = Succ(k)
    BY <1>0, SeqOfNext
  <2> QED  BY <1>2, <2>1, <2>2 DEF CacheTypeOK
<1>8. n \in 1 .. Packets /\ n <= sent' /\ Window \in Nat \ {0}
  BY <1>0 DEF Overtaking
<1> QED  BY <1>5, <1>6, <1>7, <1>8, FirstGiven

(* Nothing of what was read is left in the cache.                          *)
LEMMA FreshRunning ==
    ASSUME CacheTypeOK, NetTypeOK, TypeOK', Overtaking, NEW n \in 1 .. sent,
           sent' = sent, base' = base, ~OnWire(n)',
           \A j \in n + 1 .. sent : OnWire(j)',
           rtp_first' \in Slots, \A i \in Slots : rtp_pkt'[i] = 0,
           rtp_seq'[rtp_first'] = Succ(SeqOf(n)),
           given' = <<n>>, is_first' = FALSE, tries' = 0
    PROVE  Running'
<1>1. /\ n \in Nat /\ sent <= Packets /\ sent \in Nat /\ Packets \in Nat
      /\ Window \in Nat \ {0}
  BY NetworkAssumption DEF NetTypeOK, Overtaking
<1>2. n \in 1 .. Packets /\ n <= sent'
  BY <1>1
<1>3. rtp_seq'[rtp_first'] = SeqOf(n + 1)'
  <2>1. SeqOf(n + 1)' = SeqOf(n + 1)
    BY DEF SeqOf
  <2> QED  BY <1>1, <2>1, SeqOfNext
<1>4. \A k \in Slots : rtp_pkt'[Slot(rtp_first', k)] \in {0, n + 1 + k}
  <2> TAKE k \in Slots
  <2>1. k \in 0 .. MaxPackets
    BY SlotsAssumption DEF Slots
  <2> QED  BY <2>1, SlotIs
<1>5. \A j \in n + 1 .. sent' :
          OnWire(j)' \/ (/\ j - (n + 1) \in Slots
                         /\ rtp_pkt'[Slot(rtp_first', j - (n + 1))] = j)
  BY Zenon
<1> QED  BY <1>1, <1>2, <1>3, <1>4, <1>5, FirstGiven

(* The first packet is in sequence, or the first of all.                   *)
LEMMA StartInSequence ==
    ASSUME TypeOK, TypeOK', Kept, Overtaking, WireInv, Once, Start,
           given = <<>>, InSequence, Calm'
    PROVE  WireInv' /\ Once' /\ given' # <<>> /\ Running'
<1>1. CacheTypeOK /\ NetTypeOK
  BY TypeParts
<1>2. PICK p \in wire :
          /\ Reads(p) /\ (NewSeq(p) = 0 \/ is_first) /\ Feed(p)
          /\ rtp_first' = SlotAt(1) /\ rtp_pkt' = rtp_pkt
          /\ rtp_seq' = [rtp_seq EXCEPT ![SlotAt(1)] = Succ(p.seq)]
  BY Zenon DEF InSequence
<1>3. /\ Calm /\ (~Misjudged(p) \/ NoWrap) /\ sent' = sent /\ base' = base
      /\ p.n \in 1 .. Packets /\ p.seq = SeqOf(p.n) /\ p.n <= sent
      /\ \A n : OnWire(n)' <=> OnWire(n) /\ n # p.n
      /\ WireInv'
  BY <1>1, <1>2, ReadsOne, Zenon
<1>4. Once'
  BY <1>2, <1>3, Zenon DEF Once
<1>5. /\ rtp_first = 0 /\ rtp_seq[0] = 0 /\ rtp_pkt[0] = 0 /\ 0 \in Slots
      /\ SlotAt(1) = Slot(0, 0 + 1) /\ SlotAt(1) \in Slots
  <2>1. 0 \in Slots /\ 1 \in 0 .. MaxPackets
    BY SlotsAssumption DEF Slots
  <2>2. rtp_first = 0 /\ rtp_seq[0] = 0 /\ rtp_pkt[0] = 0
    BY Zenon DEF Start
  <2>3. Slot(0, 1) \in Slots
    BY <2>1, SlotIs
  <2> QED  BY <2>1, <2>2, <2>3 DEF SlotAt, Slot
<1>6. /\ given' = <<p.n>> /\ is_first' = FALSE /\ tries' = 0
      /\ given' # <<>>
  BY <1>2 DEF Feed
<1>7. p.n \in 1 .. sent
  BY <1>1, <1>3, NetworkAssumption DEF NetTypeOK
<1>8. CASE is_first
  <2>1. \A i \in Slots : rtp_pkt[i] = 0
    BY <1>8 DEF Kept, NothingYet
  <2>2. \A j \in p.n + 1 .. sent : OnWire(j)'
    <3> TAKE j \in p.n + 1 .. sent
    <3>1. j \in 1 .. sent /\ j # 0 /\ j # p.n
      BY <1>1, <1>7, NetworkAssumption DEF NetTypeOK
    <3>2. OnWire(j)
      BY <2>1, <3>1 DEF Start
    <3> QED  BY <1>3, <3>1, <3>2, Zenon
  <2>3. rtp_seq'[rtp_first'] = Succ(SeqOf(p.n))
    BY <1>1, <1>2, <1>3, <1>5 DEF CacheTypeOK
  <2>4. /\ ~OnWire(p.n)' /\ rtp_first' \in Slots
        /\ \A i \in Slots : rtp_pkt'[i] = 0
    BY <1>2, <1>3, <1>5, <2>1, Zenon
  <2>5. Running'
    BY <1>1, <1>3, <1>6, <1>7, <2>2, <2>3, <2>4, FreshRunning, Zenon
  <2> QED  BY <1>3, <1>4, <1>6, <2>5
<1>9. CASE ~is_first
  <2>1. p.seq = 0
    BY <1>1, <1>2, <1>5, <1>9, PacketType DEF NewSeq, Expected
  <2>2. SeqOf(p.n) = 0 /\ \A j \in Slots : j < 0 => rtp_pkt[j] = 0
    BY <1>3, <2>1, SlotsAssumption DEF Slots
  <2>3. rtp_pkt' = [rtp_pkt EXCEPT ![0] = 0]
    BY <1>1, <1>2, <1>5 DEF CacheTypeOK
  <2>4. rtp_seq' = [rtp_seq EXCEPT ![Slot(0, 0 + 1)] = Succ(0)]
    BY <1>2, <1>5, <2>1, Zenon
  <2>5. rtp_first' = Slot(0, 0 + 1)
    BY <1>2, <1>5, Zenon
  <2>6. ~OnWire(p.n)' /\ \A j : OnWire(j) /\ j # p.n => OnWire(j)'
    BY <1>3, Zenon
  <2>7. Running'
    BY <1>1, <1>3, <1>5, <1>6, <1>7, <2>2, <2>3, <2>4, <2>5, <2>6, StartTakes,
       Zenon
  <2> QED  BY <1>3, <1>4, <1>6, <2>7
<1> QED  BY <1>8, <1>9

(* A stream that begins far from the wrap has nothing in the slots from    *)
(* number 0 on.                                                            *)
LEMMA StartUnslotted ==
    ASSUME NetTypeOK, NoWrap, NEW n \in Nat, n # 0, n <= sent + 1
    PROVE  SeqOf(n) \notin Slots /\ SeqOf(n) > MaxPackets
<1>1. SeqOf(n) = base + n
  BY UnwrappedNumbers
<1>2. base \in Nat /\ MaxPackets \in Nat /\ MaxPackets <= base
  BY SeqAssumption, SlotsAssumption DEF NetTypeOK, NoWrap
<1> QED  BY <1>1, <1>2 DEF Slots

(* The stream begins far ahead of number 0.                                *)
LEMMA StartOverrun ==
    ASSUME TypeOK, TypeOK', Overtaking, WireInv, Once, Start,
           given = <<>>, Overrun, Calm'
    PROVE  WireInv' /\ Once' /\ given' # <<>> /\ Running'
<1>1. CacheTypeOK /\ NetTypeOK
  BY TypeParts
<1>2. PICK p \in wire :
          /\ Reads(p) /\ ~is_first /\ NewSeq(p) > MaxPackets
          /\ CacheReset(p.seq) /\ Feed(p)
  BY Zenon DEF Overrun
<1>3. /\ Calm /\ (~Misjudged(p) \/ NoWrap) /\ sent' = sent /\ base' = base
      /\ p.n \in 1 .. Packets /\ p.seq = SeqOf(p.n) /\ p.n <= sent
      /\ \A n : OnWire(n)' <=> OnWire(n) /\ n # p.n
      /\ WireInv'
  BY <1>1, <1>2, ReadsOne, Zenon
<1>4. /\ rtp_first' = 0 /\ \A i \in Slots : rtp_pkt'[i] = 0
      /\ rtp_seq' = [rtp_seq EXCEPT ![0] = Succ(p.seq)]
  BY <1>2 DEF CacheReset
<1>5. /\ MaxPackets \in Nat /\ MaxPackets > 3 /\ sent \in Nat
      /\ SeqRange \in Nat /\ SeqRange > 6 * MaxPackets
      /\ 0 \in Slots /\ p.n \in Nat /\ p.n \in 1 .. sent
      /\ sent < 2 * MaxPackets
  BY <1>1, <1>3, StartBound, SlotsAssumption, SeqAssumption, NetworkAssumption
     DEF NetTypeOK, Slots
<1>6. Once'
  <2>1. ~OnWire(0)'
    <3>1. ~OnWire(0)
      BY <1>1 DEF OnWire, NetTypeOK
    <3> QED  BY <1>3, <3>1, Zenon
  <2>2. 0 <= sent'
    BY <1>3, <1>5
  <2> QED  BY <1>4, <2>1, <2>2, Zenon DEF Once
<1>7. ASSUME ~Misjudged(p)
      PROVE  2 * p.seq < SeqRange /\ p.seq > MaxPackets /\ p.seq \in Nat
  <2>1. NewSeq(p) = p.seq
    BY <1>1, PacketType DEF NewSeq, Expected, Start
  <2>2. TrueDistance(p) = p.seq
    BY <1>2, <1>7, <2>1 DEF Misjudged
  <2>3. p.seq \in 0 .. SeqRange - 1
    BY <1>1, PacketType
  <2>4. p.seq % SeqRange = p.seq
    BY <1>5, <2>3, ModSmall
  <2>5. p.seq = IF 2 * p.seq < SeqRange THEN p.seq ELSE p.seq - SeqRange
    BY <2>1, <2>2, <2>4 DEF TrueDistance
  <2> QED  BY <1>2, <1>5, <2>1, <2>3, <2>5
<1>8. \A j \in p.n + 1 .. sent : OnWire(j)'
  <2> TAKE j \in p.n + 1 .. sent
  <2>1. j \in 1 .. sent /\ j \in Nat /\ j # p.n /\ p.n <= j
    BY <1>5
  <2>2. CASE SeqOf(j) \in Slots /\ ~Misjudged(p)
    <3>1. SeqOf(j) - SeqOf(p.n) \in {j - p.n, j - p.n - SeqRange}
      <4>1. j - p.n < SeqRange
        BY <1>5, <2>1
      <4> QED  BY <1>1, <1>5, <2>1, <4>1, SeqOfFurther
    <3>2. SeqOf(j) \in 0 .. MaxPackets - 1
      BY <2>2 DEF Slots
    <3>3. j <= sent /\ p.n < j /\ SeqOf(p.n) = p.seq
      BY <1>3, <1>5
    <3>4. 2 * p.seq < SeqRange /\ p.seq > MaxPackets /\ p.seq \in Nat
      BY <1>7, <2>2, Zenon
    <3> QED  BY <1>5, <2>1, <3>1, <3>2, <3>3, <3>4
  <2>3. CASE SeqOf(j) \notin Slots
    BY <1>3, <2>1, <2>3, Zenon DEF Start
  <2>4. NoWrap => SeqOf(j) \notin Slots
    BY <1>1, <1>5, <2>1, StartUnslotted
  <2> QED  BY <1>3, <2>2, <2>3, <2>4
<1>9. rtp_seq'[rtp_first'] = Succ(SeqOf(p.n))
  BY <1>1, <1>3, <1>4, <1>5 DEF CacheTypeOK
<1>10. /\ given' = <<p.n>> /\ is_first' = FALSE /\ tries' = 0
       /\ given' # <<>>
  BY <1>2 DEF Feed
<1>11. ~OnWire(p.n)' /\ rtp_first' \in Slots
  BY <1>3, <1>4, <1>5, Zenon
<1>12. Running'
  BY <1>1, <1>3, <1>4, <1>5, <1>8, <1>9, <1>10, <1>11, FreshRunning, Zenon
<1> QED  BY <1>3, <1>6, <1>10, <1>12

(* A packet further on is kept.                                            *)
LEMMA StartOutOfSequence ==
    ASSUME TypeOK, Overtaking, WireInv, Once, Start,
           given = <<>>, OutOfSequence, Calm'
    PROVE  WireInv' /\ Once' /\ Start' /\ given' = <<>>
<1>1. CacheTypeOK /\ NetTypeOK
  BY TypeParts
<1>2. PICK p \in wire :
          /\ Reads(p) /\ ~is_first /\ NewSeq(p) \in 1 .. MaxPackets
          /\ rtp_pkt' = [rtp_pkt EXCEPT ![SlotAt(NewSeq(p))] = p.n]
          /\ rtp_seq' = [rtp_seq EXCEPT ![SlotAt(NewSeq(p))] = p.seq]
          /\ NoPacket /\ rtp_first' = rtp_first
  BY Zenon DEF OutOfSequence
<1>3. /\ Calm /\ (~Misjudged(p) \/ NoWrap) /\ sent' = sent /\ base' = base
      /\ p.n \in 1 .. Packets /\ p.seq = SeqOf(p.n) /\ p.n <= sent
      /\ \A n : OnWire(n)' <=> OnWire(n) /\ n # p.n
      /\ WireInv'
  BY <1>1, <1>2, ReadsOne, Zenon
<1>4. /\ MaxPackets \in Nat /\ MaxPackets > 3 /\ sent \in Nat
      /\ 0 \in Slots /\ p.n \in Nat /\ p.n \in 1 .. sent
      /\ sent < 2 * MaxPackets /\ tries \in Nat
  BY <1>1, <1>3, StartBound, SlotsAssumption, NetworkAssumption
     DEF NetTypeOK, CacheTypeOK, Slots
<1>5. /\ NewSeq(p) = p.seq /\ p.seq \in Slots /\ p.seq # 0
      /\ SlotAt(p.seq) = p.seq
  <2>1. NewSeq(p) = p.seq
    BY <1>1, PacketType DEF NewSeq, Expected, Start
  <2>0. ~Misjudged(p)
    <3>1. p.n <= sent + 1
      BY <1>3, <1>4
    <3>2. NoWrap => p.seq > MaxPackets
      BY <1>1, <1>3, <1>4, <3>1, StartUnslotted
    <3>3. p.seq <= MaxPackets
      BY <1>2, <2>1
    <3>4. p.seq \in Int /\ MaxPackets \in Int
      BY <1>2, <1>4, <2>1
    <3> QED  BY <1>3, <3>2, <3>3, <3>4
  <2>2. p.seq \in Slots /\ p.seq # 0
    BY <1>1, <1>2, <2>0, <2>1, JudgedRight
  <2>3. p.seq \in 0 .. MaxPackets /\ p.seq < MaxPackets /\ p.seq \in Nat
    BY <1>4, <2>2 DEF Slots
  <2>4. Slot(0, p.seq) = Round(0 + p.seq, MaxPackets)
    BY <1>4, <2>3, SlotIs
  <2>5. SlotAt(p.seq) = p.seq
    BY <2>3, <2>4 DEF SlotAt, Slot, Start, Round
  <2> QED  BY <2>1, <2>2, <2>5
<1>6. /\ rtp_pkt' = [rtp_pkt EXCEPT ![p.seq] = p.n]
      /\ rtp_seq' = [rtp_seq EXCEPT ![p.seq] = p.seq]
      /\ rtp_first' = rtp_first /\ given' = given /\ tries' = tries + 1
  BY <1>2, <1>5 DEF NoPacket
<1>7. /\ \A i \in Slots : rtp_pkt'[i] = IF i = p.seq THEN p.n ELSE rtp_pkt[i]
      /\ \A i \in Slots : rtp_seq'[i] = IF i = p.seq THEN p.seq ELSE rtp_seq[i]
  BY <1>1, <1>6 DEF CacheTypeOK
<1>8. Once'
  BY <1>3, <1>7, Zenon DEF Once
<1>9. \A n : SeqOf(n)' = SeqOf(n)
  BY <1>3, Zenon DEF SeqOf
<1>10. Start'
  <2>1. rtp_first' = 0 /\ rtp_seq'[0] = 0 /\ rtp_pkt'[0] = 0
    BY <1>4, <1>5, <1>6, <1>7 DEF Start
  <2>2. \A k \in Slots : rtp_pkt'[k] # 0 => SeqOf(rtp_pkt'[k]) = k
    BY <1>3, <1>7, Zenon DEF Start
  <2>3. ASSUME NEW n \in 1 .. sent, ~OnWire(n)'
        PROVE  SeqOf(n) \in Slots /\ rtp_pkt'[SeqOf(n)] = n
    <3>1. CASE n = p.n
      BY <1>3, <1>5, <1>7, <3>1, Zenon
    <3>2. CASE n # p.n
      <4>1. ~OnWire(n) /\ SeqOf(n) \in Slots /\ rtp_pkt[SeqOf(n)] = n
        BY <1>3, <2>3, <3>2, Zenon DEF Start
      <4>2. n \in Nat /\ n < 2 * MaxPackets /\ p.n < 2 * MaxPackets
        BY <1>3, <1>4
      <4>3. SeqOf(n) # p.seq
        <5>1. SeqOf(n) - SeqOf(p.n) = n - p.n
          BY <1>1, <1>3, <1>4, <1>5, <4>1, <4>2, NearSlots
        <5>2. SeqOf(n) \in Int /\ SeqOf(p.n) \in Int
          <6>1. SeqOf(n) \in 0 .. SeqRange - 1
            BY <1>1, <4>2, SeqOfNext
          <6>2. p.n \in Int
            BY <1>4
          <6>3. SeqOf(p.n) \in 0 .. SeqRange - 1
            BY <1>1, <6>2, SeqOfNext, Zenon
          <6> QED  BY <6>1, <6>3, SeqAssumption
        <5> QED  BY <1>3, <1>4, <3>2, <4>2, <5>1, <5>2
      <4> QED  BY <1>7, <4>1, <4>3
    <3> QED  BY <3>1, <3>2
  <2>4. tries' = Cardinality({n \in 1 .. sent : ~OnWire(n)'})
    <3> DEFINE R == {n \in 1 .. sent : ~OnWire(n)}
    <3>1. {n \in 1 .. sent : ~OnWire(n)'} = R \cup {p.n}
      BY <1>3, <1>4, Zenon
    <3>2. p.n \notin R
      BY Zenon DEF OnWire
    <3>3. IsFiniteSet(R)
      <4>1. IsFiniteSet(1 .. sent)
        BY <1>4, FS_Interval
      <4> QED  BY <4>1, FS_Subset, R \subseteq 1 .. sent
    <3>4. tries = Cardinality(R)
      BY Zenon DEF Start
    <3> HIDE DEF R
    <3>5. Cardinality(R \cup {p.n}) = Cardinality(R) + 1
      BY <3>2, <3>3, FS_AddElement
    <3> QED  BY <1>6, <3>1, <3>4, <3>5
  <2>5. \A n \in 1 .. sent' :
            OnWire(n)' \/ (SeqOf(n)' \in Slots /\ rtp_pkt'[SeqOf(n)'] = n)
    BY <1>3, <1>9, <2>3, Zenon
  <2>6. tries' = Cardinality({n \in 1 .. sent' : ~OnWire(n)'})
    BY <1>3, <2>4, Zenon
  <2>7. \A k \in Slots : rtp_pkt'[k] # 0 => SeqOf(rtp_pkt[k])' = k
    BY <1>9, <2>2, Zenon DEF SeqOf
  <2> QED  BY <2>1, <2>5, <2>6, <2>7, Zenon DEF Start
<1> QED  BY <1>3, <1>6, <1>8, <1>10

(* Nothing looks older than number 0.                                      *)
LEMMA StartNoneOld ==
    ASSUME TypeOK, Start, Underrun \/ DropOld
    PROVE  FALSE
<1>1. CacheTypeOK /\ NetTypeOK
  BY TypeParts
<1>2. PICK p \in wire : NewSeq(p) < 0
  BY Zenon DEF Underrun, DropOld
<1>3. NewSeq(p) = p.seq /\ p.seq \in 0 .. SeqRange - 1
  BY <1>1, PacketType DEF NewSeq, Expected, Start
<1> QED  BY <1>2, <1>3, SeqAssumption, SlotsAssumption

(* get_next does without number 0 and gives the first packet it has.       *)
LEMMA StartTakeNext ==
    ASSUME TypeOK, TypeOK', Kept, Overtaking, WireInv, Once, Start,
           given = <<>>, TakeNext, Calm'
    PROVE  WireInv' /\ Once' /\ given' # <<>> /\ Running'
<1>1. CacheTypeOK /\ NetTypeOK
  BY TypeParts
<1>2. PICK k \in Slots : Skips(k) /\ Takes(k)
  BY Zenon DEF TakeNext
<1>3. /\ wire' = wire /\ sent' = sent /\ base' = base /\ faults' = faults
      /\ astray' = astray /\ is_first' = is_first /\ tries' = 0 /\ ~Looping
  BY Zenon DEF TakeNext, netVars
<1>4. /\ MaxPackets \in Nat /\ MaxPackets > 3 /\ sent \in Nat
      /\ 0 \in Slots /\ tries \in Nat /\ k \in 0 .. MaxPackets - 1
  BY <1>1, SlotsAssumption, NetworkAssumption
     DEF NetTypeOK, CacheTypeOK, Slots
<1>5. /\ WireInv' /\ (\A n : OnWire(n)' <=> OnWire(n))
      /\ \A n : SeqOf(n)' = SeqOf(n)
  BY <1>3, Zenon DEF WireInv, SeqOf, OnWire
<1>6. /\ \A j \in 0 .. MaxPackets : Slot(0, j) = Round(j, MaxPackets)
      /\ \A j \in Slots : SlotAt(j) = j
      /\ SlotAt(k + 1) = Slot(0, k + 1) /\ Slot(0, k + 1) \in Slots
  <2>1. ASSUME NEW j \in 0 .. MaxPackets
        PROVE  Slot(0, j) = Round(j, MaxPackets) /\ Slot(0, j) \in Slots
    <3>1. Slot(0, j) = Round(0 + j, MaxPackets) /\ Slot(0, j) \in Slots
      BY <1>4, SlotIs
    <3> QED  BY <1>4, <3>1
  <2>2. ASSUME NEW j \in Slots PROVE SlotAt(j) = j
    <3>1. j \in 0 .. MaxPackets /\ j < MaxPackets
      BY <1>4, <2>2 DEF Slots
    <3>2. SlotAt(j) = Slot(0, j)
      BY DEF SlotAt, Slot, Start
    <3> QED  BY <2>1, <3>1, <3>2 DEF Round
  <2>3. k + 1 \in 0 .. MaxPackets
    BY <1>4
  <2> QED  BY <2>1, <2>2, <2>3 DEF SlotAt, Slot, Start
<1>7. \E i \in Slots : rtp_pkt[i] # 0
  <2> DEFINE R == {n \in 1 .. sent : ~OnWire(n)}
  <2>1. tries # 0
    BY <1>3, <1>4 DEF Looping, Start
  <2>2. R # {}
    <3>1. tries = Cardinality(R)
      BY Zenon DEF Start
    <3> HIDE DEF R
    <3> QED  BY <2>1, <3>1, FS_EmptySet
  <2>3. PICK n \in R : TRUE
    BY <2>2
  <2>4. n \in 1 .. sent /\ n # 0
    BY <1>4, <2>3
  <2> QED  BY <2>3, <2>4 DEF Start
<1>8. /\ rtp_pkt[k] # 0 /\ \A j \in Slots : j < k => rtp_pkt[j] = 0
  <2>1. ~(\A m \in Slots : Empty(m))
    BY <1>6, <1>7 DEF Empty
  <2>2. ~Empty(k) /\ \A m \in 0 .. k - 1 : Empty(m)
    BY <1>2, <2>1, Zenon DEF Skips
  <2>3. \A j \in Slots : j < k => j \in 0 .. k - 1
    BY <1>4 DEF Slots
  <2> QED  BY <1>2, <1>6, <2>2, <2>3 DEF Empty
<1>9. rtp_seq[k] = k /\ rtp_pkt[k] \in 1 .. sent /\ SeqOf(rtp_pkt[k]) = k
  <2>5. ~NoWrap
    <3>1. SeqOf(rtp_pkt[k]) = k /\ k \in Slots
      BY <1>2, <1>8 DEF Start
    <3>2. rtp_pkt[k] \in Nat /\ rtp_pkt[k] # 0 /\ rtp_pkt[k] <= sent + 1
      BY <1>1, <1>2, <1>4, <1>8, NetworkAssumption DEF CacheTypeOK, Once
    <3> QED  BY <1>1, <3>1, <3>2, StartUnslotted
  <2>1. Slot(0, k) = k
    BY <1>4, <1>6 DEF Round
  <2>2. rtp_seq[k] = (0 + k) % SeqRange
    <3>1. ~astray
      <4>1. NoWrap' <=> NoWrap
        BY <1>3, Zenon DEF NoWrap
      <4> QED  BY <1>3, <2>5, <4>1, Zenon DEF Calm
    <3>2. Holds(0, rtp_seq, rtp_pkt) /\ rtp_seq[0] = 0
      BY <3>1 DEF Kept, Start
    <3> QED  BY <1>2, <1>8, <2>1, <3>2 DEF Holds
  <2>3. (0 + k) % SeqRange = k
    <3>1. SeqRange \in Nat \ {0} /\ k \in Int /\ 0 <= k /\ k < SeqRange
      BY <1>4, SeqAssumption, SlotsAssumption
    <3> QED  BY <3>1, ModSmall
  <2>4. rtp_pkt[k] \in 0 .. Packets /\ rtp_pkt[k] <= sent
    BY <1>1, <1>2 DEF CacheTypeOK, Once
  <2> QED
    BY <1>2, <1>4, <1>8, <2>2, <2>3, <2>4, NetworkAssumption DEF Start
<1>a. PICK n \in 1 .. sent : n = rtp_pkt[k]
  BY <1>9, Zenon
<1>10. /\ rtp_first' = Slot(0, k + 1)
       /\ rtp_seq' = [rtp_seq EXCEPT ![Slot(0, k + 1)] = Succ(k)]
       /\ rtp_pkt' = [rtp_pkt EXCEPT ![k] = 0]
       /\ given' = <<n>> /\ given' # <<>>
  <2>1. ~Empty(k) /\ SlotAt(k) = k
    BY <1>2, <1>6, <1>8 DEF Empty
  <2>2. given' = Append(given, n)
    BY <1>2, <1>a, <2>1, Zenon DEF Takes
  <2>3. given' = <<n>> /\ given' # <<>>
    BY <2>2
  <2> QED  BY <1>2, <1>6, <1>9, <2>1, <2>3, Zenon DEF Takes
<1>11. ~OnWire(n)'
  BY <1>2, <1>5, <1>a, Zenon DEF Once
<1>12. is_first' = FALSE
  BY <1>2, <1>3, <1>8, TypeParts DEF Kept, NothingYet, FlagTypeOK
<1>13. Once'
  <2>1. ~OnWire(0)
    BY <1>1 DEF OnWire, NetTypeOK
  <2>2. \A i \in Slots : rtp_pkt'[i] = 0 \/ rtp_pkt'[i] = rtp_pkt[i]
    BY <1>1, <1>10 DEF CacheTypeOK
  <2>3. 0 <= sent
    BY <1>4
  <2> QED  BY <1>3, <1>5, <2>1, <2>2, <2>3, Zenon DEF Once
<1>14. \A j : OnWire(j) /\ j # n => OnWire(j)'
  BY <1>5, Zenon
<1>15. Running'
  BY <1>1, <1>2, <1>3, <1>8, <1>9, <1>a, <1>10, <1>11, <1>12, <1>14,
     StartTakes,
     Zenon
<1> QED  BY <1>5, <1>10, <1>13, <1>15

-----------------------------------------------------------------------------
(* Once the first packet has been given.                                   *)

(* The packet at hand has a number,                                        *)
LEMMA PacketNumber ==
    ASSUME CacheTypeOK, NetTypeOK, NEW p \in wire
    PROVE  p.n \in Nat
  BY PacketType, NetworkAssumption

(* and so has the due one; indices stay in the cache.                      *)
LEMMA RunBasics ==
    ASSUME CacheTypeOK, NetTypeOK, given # <<>>
    PROVE  /\ Len(given) \in Nat \ {0} /\ given[1] \in 1 .. Packets
           /\ Due \in Nat /\ Due > 1 /\ given[1] \in Nat
           /\ rtp_first \in Slots /\ 0 \in Slots /\ 1 \in 0 .. MaxPackets
           /\ Slot(rtp_first, 0) = rtp_first
           /\ \A k \in Slots : Slot(rtp_first, k) \in Slots
           /\ sent \in Nat /\ MaxPackets \in Nat /\ MaxPackets > 3
           /\ SeqRange \in Nat /\ SeqRange > 6 * MaxPackets
<1>1. given \in Seq(1 .. Packets) /\ Packets \in Nat
  BY NetworkAssumption DEF CacheTypeOK
<1>2. /\ Len(given) \in Nat \ {0} /\ given[1] \in 1 .. Packets
      /\ given[Len(given)] \in 1 .. Packets
  BY <1>1
<1>3. Due \in Nat /\ Due > 1 /\ given[1] \in Nat
  BY <1>1, <1>2 DEF Due
<1>4. rtp_first \in Slots /\ 0 \in Slots /\ 1 \in 0 .. MaxPackets
  BY SlotsAssumption DEF CacheTypeOK, Slots
<1>5. \A k \in Slots : Slot(rtp_first, k) \in Slots
  <2> TAKE k \in Slots
  <2>1. k \in 0 .. MaxPackets
    BY SlotsAssumption DEF Slots
  <2> QED  BY <1>4, <2>1, SlotIs
<1>6. sent \in Nat /\ MaxPackets \in Nat /\ MaxPackets > 3
  BY SlotsAssumption, NetworkAssumption DEF NetTypeOK
<1>7. SeqRange \in Nat /\ SeqRange > 6 * MaxPackets
  BY SeqAssumption
<1> QED  BY <1>2, <1>3, <1>4, <1>5, <1>6, <1>7, SlotZero, Zenon

(* What arrives is near the due packet and judged rightly; it is either    *)
(* the due one, one after it, or one from before the first given.          *)
LEMMA RunReads ==
    ASSUME CacheTypeOK, NetTypeOK, Overtaking, WireInv, Running,
           given # <<>>, NEW p \in wire, Reads(p), Calm'
    PROVE  /\ NewSeq(p) = p.n - Due
           /\ p.n - Due < Window /\ given[1] - p.n < Window
           /\ Due - p.n <= Window
           /\ p.n >= Due \/ p.n < given[1]
<1>1. /\ (~Misjudged(p) \/ NoWrap) /\ Looping
      /\ p.n \in 1 .. Packets /\ p.seq = SeqOf(p.n)
      /\ p.n <= sent /\ sent - p.n < Window
  BY ReadsOne, Zenon
<1>2. /\ Due \in Nat /\ given[1] \in Nat /\ sent \in Nat /\ p.n \in Nat
      /\ Window \in Nat /\ MaxPackets \in Nat /\ SeqRange \in Nat
      /\ 2 * Window < MaxPackets - 1 /\ SeqRange > 6 * MaxPackets
      /\ Slot(rtp_first, 0) = rtp_first
  BY <1>1, RunBasics, NetworkAssumption DEF Overtaking
<1>3. sent < Due + Window
  <2>1. CASE Due <= sent
    <3>1. OnWire(Due)
      <4>1. Due \in Due .. sent
        BY <1>2, <2>1
      <4>2. rtp_pkt[rtp_first] = 0 /\ Due # 0 /\ Due - Due = 0
        BY <1>1, <1>2, RunBasics DEF Looping
      <4> QED  BY <1>2, <4>1, <4>2, Zenon DEF Running
    <3>2. PICK q \in wire : q.n = Due
      BY <3>1 DEF OnWire
    <3>3. sent - q.n < Window
      BY DEF WireInv
    <3> QED  BY <1>2, <3>2, <3>3
  <2>2. CASE sent < Due
    BY <1>2, <2>2 DEF Overtaking
  <2> QED  BY <1>2, <2>1, <2>2
<1>4. given[1] < Due /\ Due <= sent + 1
  BY Zenon DEF Running
<1>5. /\ p.n - Due < Window /\ given[1] - p.n < Window
      /\ Due - p.n <= Window
  BY <1>1, <1>2, <1>3, <1>4
<1>6. p.n >= Due \/ p.n < given[1]
  <2>1. OnWire(p.n)
    BY DEF OnWire
  <2>2. p.n \notin given[1] .. Due - 1
    BY <2>1, Zenon DEF Running
  <2> QED  BY <1>2, <2>2
<1>7. NewSeq(p) = p.n - Due
  <2>1. 2 * (p.n - Due) < SeqRange /\ 2 * (Due - p.n) < SeqRange
    BY <1>2, <1>5
  <2>2. ~is_first /\ Expected = SeqOf(Due)
    BY Zenon DEF Running
  <2>3. CASE ~Misjudged(p)
    BY <1>1, <1>2, <2>1, <2>2, <2>3, JudgedNear
  <2>4. CASE NoWrap
    <3>1. p.n <= sent + 1 /\ Due <= sent + 1
      BY <1>1, <1>2, <1>4
    <3>2. SeqOf(p.n) = base + p.n /\ SeqOf(Due) = base + Due
      BY <1>2, <2>4, <3>1, UnwrappedNumbers
    <3>3. base \in Nat
      BY SeqAssumption, SlotsAssumption DEF NetTypeOK
    <3> QED  BY <1>1, <1>2, <2>2, <3>2, <3>3 DEF NewSeq
  <2> QED  BY <1>1, <2>3, <2>4
<1> QED  BY <1>5, <1>6, <1>7

(* No packet empties the cache.                                            *)
LEMMA RunNoReset ==
    ASSUME CacheTypeOK, NetTypeOK, Overtaking, WireInv, Running,
           given # <<>>, Overrun \/ Underrun, Calm'
    PROVE  FALSE
<1>1. PICK p \in wire : /\ Reads(p)
                        /\ \/ NewSeq(p) > MaxPackets
                           \/ ~TooOld(p)
  BY Zenon DEF Overrun, Underrun
<1>2. /\ NewSeq(p) = p.n - Due /\ p.n - Due < Window
      /\ Due - p.n <= Window
  BY <1>1, RunReads
<1>3. /\ Due \in Nat /\ p.n \in Nat /\ Window \in Nat
      /\ MaxPackets \in Nat /\ 2 * Window < MaxPackets - 1
  <2>1. Due \in Nat /\ p.n \in Nat /\ MaxPackets \in Nat
    BY RunBasics, PacketNumber, Zenon
  <2> QED  BY <2>1 DEF Overtaking
<1> QED  BY <1>1, <1>2, <1>3 DEF TooOld

(* The due packet is given, and the next one is due.                       *)
LEMMA RunGives ==
    ASSUME CacheTypeOK, NetTypeOK, TypeOK', Overtaking, Running,
           given # <<>>, Due <= sent,
           sent' = sent, base' = base, is_first' = FALSE, tries' = 0,
           \A j : OnWire(j)' <=> OnWire(j) /\ j # Due,
           rtp_first' = Slot(rtp_first, 1),
           rtp_seq' = [rtp_seq EXCEPT ![Slot(rtp_first, 1)] = Succ(Expected)],
           rtp_pkt' = [rtp_pkt EXCEPT ![rtp_first] = 0],
           given' = Append(given, Due)
    PROVE  Running'
<1> DEFINE m == Due
<1>0. /\ Len(given) \in Nat \ {0} /\ given \in Seq(1 .. Packets)
      /\ Due \in Nat /\ given[1] \in Nat
      /\ rtp_first \in Slots /\ 0 \in Slots /\ 1 \in 0 .. MaxPackets
      /\ Slot(rtp_first, 0) = rtp_first
      /\ \A k \in Slots : Slot(rtp_first, k) \in Slots
      /\ sent \in Nat /\ MaxPackets \in Nat /\ MaxPackets > 3
  BY RunBasics, Zenon DEF CacheTypeOK
<1>1. /\ Len(given') = Len(given) + 1 /\ given'[1] = given[1]
      /\ given'[Len(given')] = Due
      /\ \A i \in 1 .. Len(given) : given'[i] = given[i]
  BY <1>0
<1>2. Due' = Due + 1
  BY <1>1, Zenon DEF Due
<1>3. \A i \in 1 .. Len(given') - 1 : given'[i + 1] = given'[i] + 1
  <2> TAKE i \in 1 .. Len(given') - 1
  <2>1. CASE i = Len(given)
    BY <1>0, <1>1, <2>1 DEF Due
  <2>2. CASE i # Len(given)
    <3>1. /\ i \in 1 .. Len(given) - 1 /\ i \in 1 .. Len(given)
          /\ i + 1 \in 1 .. Len(given)
      BY <1>0, <1>1, <2>2
    <3> QED  BY <1>1, <3>1 DEF Running
  <2> QED  BY <2>1, <2>2
<1>4. \A k \in Slots : Slot(rtp_first', k)
          = IF k + 1 < MaxPackets THEN Slot(rtp_first, k + 1) ELSE rtp_first
  <2> TAKE k \in Slots
  <2>1. Slot(Slot(rtp_first, 1), k)
            = Slot(rtp_first, IF 1 + k < MaxPackets THEN 1 + k
                                                    ELSE 1 + k - MaxPackets)
    BY <1>0, SlotSum
  <2>2. (IF 1 + k < MaxPackets THEN 1 + k ELSE 1 + k - MaxPackets)
            = IF k + 1 < MaxPackets THEN k + 1 ELSE 0
    BY <1>0 DEF Slots
  <2>3. CASE k + 1 < MaxPackets
    BY <2>1, <2>2, <2>3, Zenon
  <2>4. CASE ~(k + 1 < MaxPackets)
    BY <1>0, <2>1, <2>2, <2>4, Zenon
  <2> QED  BY <2>3, <2>4, Zenon
<1>5. \A i \in Slots : rtp_pkt'[i] = IF i = rtp_first THEN 0 ELSE rtp_pkt[i]
  BY DEF CacheTypeOK
<1>6. \A k \in Slots : k + 1 < MaxPackets =>
          /\ k + 1 \in Slots /\ Slot(rtp_first, k + 1) # rtp_first
          /\ rtp_pkt'[Slot(rtp_first', k)] = rtp_pkt[Slot(rtp_first, k + 1)]
  <2> TAKE k \in Slots
  <2> HAVE k + 1 < MaxPackets
  <2>1. k + 1 \in Slots /\ k + 1 # 0
    BY <1>0 DEF Slots
  <2>2. Slot(rtp_first, k + 1) # rtp_first
    BY <1>0, <2>1, SlotsDiffer
  <2> QED  BY <1>0, <1>4, <1>5, <2>1, <2>2
<1>7. \A k \in Slots : rtp_pkt'[Slot(rtp_first', k)] \in {0, Due' + k}
  <2> TAKE k \in Slots
  <2>1. CASE k + 1 < MaxPackets
    <3>1. rtp_pkt[Slot(rtp_first, k + 1)] \in {0, Due + (k + 1)}
      BY <1>6, <2>1 DEF Running
    <3>2. Due + (k + 1) = Due' + k
      BY <1>0, <1>2 DEF Slots
    <3> QED  BY <1>6, <2>1, <3>1, <3>2
  <2>2. CASE ~(k + 1 < MaxPackets)
    BY <1>0, <1>4, <1>5, <2>2
  <2> QED  BY <2>1, <2>2
<1>8. \A n \in Due' .. sent' :
          OnWire(n)' \/ (/\ n - Due' \in Slots
                         /\ rtp_pkt'[Slot(rtp_first', n - Due')] = n)
  <2> SUFFICES ASSUME NEW n \in Due + 1 .. sent, ~OnWire(n)
               PROVE  /\ n - Due' \in Slots
                      /\ rtp_pkt'[Slot(rtp_first', n - Due')] = n
    BY <1>0, <1>2
  <2>1. n \in Due .. sent /\ n \in Nat
    BY <1>0
  <2>2. n - Due \in Slots /\ rtp_pkt[Slot(rtp_first, n - Due)] = n
    BY <2>1, Zenon DEF Running
  <2>3. /\ n - Due' \in Slots /\ n - Due' + 1 = n - Due
        /\ n - Due' + 1 < MaxPackets
    BY <1>0, <1>2, <2>1, <2>2 DEF Slots
  <2> QED  BY <1>6, <2>2, <2>3
<1>9. \A n \in given'[1] .. Due' - 1 : ~OnWire(n)'
  <2> TAKE n \in given'[1] .. Due' - 1
  <2>1. n = Due \/ n \in given[1] .. Due - 1
    BY <1>0, <1>1, <1>2
  <2> QED  BY <2>1, Zenon DEF Running
<1>10. Expected' = SeqOf(Due)'
  <2>1. Expected' = Succ(Expected)
    <3>1. Slot(rtp_first, 1) \in Slots
      BY <1>0, SlotIs
    <3>2. rtp_seq'[Slot(rtp_first, 1)] = Succ(Expected)
      BY <3>1 DEF CacheTypeOK
    <3> QED  BY <3>2, Zenon DEF Expected
  <2>2. SeqOf(Due + 1) = Succ(SeqOf(Due))
    BY <1>0, SeqOfNext
  <2>3. SeqOf(Due)' = SeqOf(Due + 1)
    BY <1>2, Zenon DEF SeqOf
  <2> QED  BY <2>1, <2>2, <2>3, Zenon DEF Running
<1>11. tries' <= Cardinality(Tried')
  <2>1. Cardinality(Tried') \in Nat
    <3>1. Tried' \subseteq (given[1] - Window + 1 .. given[1] - 1)
                               \cup (Due + 1 + 1 .. Due + 1 + Window - 1)
      BY <1>1, <1>2, Zenon DEF Tried, Others
    <3>2. given[1] \in Int /\ Due + 1 \in Int /\ Window \in Nat \ {0}
      BY <1>0 DEF Overtaking
    <3> QED  BY <3>1, <3>2, TriedFew, Zenon
  <2> QED  BY <2>1
<1>12. given'[1] < Due' /\ Due' <= sent' + 1
  <2>1. given[1] < Due
    BY Zenon DEF Running
  <2> QED  BY <1>0, <1>1, <1>2, <2>1
<1> QED
  BY <1>3, <1>7, <1>8, <1>9, <1>10, <1>11, <1>12, Zenon DEF Running

(* The due packet arrives,                                                 *)
LEMMA RunInSequence ==
    ASSUME TypeOK, TypeOK', Overtaking, WireInv, Once, Running,
           given # <<>>, InSequence, Calm'
    PROVE  WireInv' /\ Once' /\ given' # <<>> /\ Running'
<1>1. CacheTypeOK /\ NetTypeOK
  BY TypeParts
<1>2. PICK p \in wire :
          /\ Reads(p) /\ (NewSeq(p) = 0 \/ is_first) /\ Feed(p)
          /\ rtp_first' = SlotAt(1) /\ rtp_pkt' = rtp_pkt
          /\ rtp_seq' = [rtp_seq EXCEPT ![SlotAt(1)] = Succ(p.seq)]
  BY Zenon DEF InSequence
<1>3. /\ Looping /\ sent' = sent /\ base' = base
      /\ p.seq = SeqOf(p.n) /\ p.n <= sent
      /\ \A n : OnWire(n)' <=> OnWire(n) /\ n # p.n
      /\ WireInv'
  BY <1>1, <1>2, ReadsOne, Zenon
<1>4. p.n = Due
  <2>1. NewSeq(p) = 0 /\ NewSeq(p) = p.n - Due
    BY <1>1, <1>2, RunReads, Zenon DEF Running
  <2>2. p.n \in Nat /\ Due \in Nat
    BY <1>1, PacketType, RunBasics, NetworkAssumption
  <2> QED  BY <2>1, <2>2
<1>5. Once'
  BY <1>2, <1>3, Zenon DEF Once
<1>6. given' = Append(given, Due) /\ is_first' = FALSE /\ tries' = 0
  BY <1>2, <1>4 DEF Feed
<1>7. given' # <<>>
  <2>1. given \in Seq(1 .. Packets)
    BY <1>1 DEF CacheTypeOK
  <2> QED  BY <1>6, <2>1
<1>8. rtp_pkt' = [rtp_pkt EXCEPT ![rtp_first] = 0]
  BY <1>1, <1>2, <1>3 DEF CacheTypeOK, Looping
<1>9. /\ rtp_first' = Slot(rtp_first, 1)
      /\ rtp_seq' = [rtp_seq EXCEPT ![Slot(rtp_first, 1)] = Succ(Expected)]
  BY <1>2, <1>3, <1>4, Zenon DEF SlotAt, Slot, Running
<1>10. Running'
  BY <1>1, <1>3, <1>4, <1>6, <1>8, <1>9, RunGives, Zenon
<1> QED  BY <1>3, <1>5, <1>7, <1>10

(* or is taken from the cache: before it has come, get_next has not yet    *)
(* read often enough to go on without it.                                  *)
LEMMA RunTakeNext ==
    ASSUME TypeOK, TypeOK', Overtaking, WireInv, Once, Running,
           given # <<>>, TakeNext, Calm'
    PROVE  WireInv' /\ Once' /\ given' # <<>> /\ Running'
<1>1. CacheTypeOK /\ NetTypeOK
  BY TypeParts
<1>2. PICK k \in Slots : Skips(k) /\ Takes(k)
  BY Zenon DEF TakeNext
<1>3. /\ wire' = wire /\ sent' = sent /\ base' = base /\ is_first' = is_first
      /\ tries' = 0 /\ ~Looping
  BY Zenon DEF TakeNext, netVars
<1>4. /\ MaxPackets \in Nat /\ rtp_first \in Slots
      /\ Slot(rtp_first, 0) = rtp_first /\ 0 \in Slots
      /\ Due \in Nat /\ given[1] \in Int
      /\ tries \in Nat /\ tries <= MaxPackets - 3
      /\ k \in Nat
  <2>1. /\ MaxPackets \in Nat /\ rtp_first \in Slots
        /\ Slot(rtp_first, 0) = rtp_first /\ 0 \in Slots
        /\ Due \in Nat /\ given[1] \in Nat
    BY <1>1, RunBasics, Zenon
  <2>2. tries \in 0 .. MaxPackets - 3 /\ k \in 0 .. MaxPackets - 1
    BY <1>1 DEF CacheTypeOK, Slots
  <2> QED  BY <2>1, <2>2
<1>5. WireInv' /\ (\A n : OnWire(n)' <=> OnWire(n))
  BY <1>3, Zenon DEF WireInv, SeqOf, OnWire
<1>6. rtp_pkt[rtp_first] # 0
  <2> SUFFICES ASSUME rtp_pkt[rtp_first] = 0
               PROVE  FALSE
    OBVIOUS
  <2>1. tries >= MaxPackets - 3
    BY <1>3, <1>4 DEF Looping
  <2>2. /\ Cardinality(Tried) \in Nat
        /\ Cardinality(Tried) <= 2 * (Window - 1)
    <3>1. Tried \subseteq (given[1] - Window + 1 .. given[1] - 1)
                              \cup (Due + 1 .. Due + Window - 1)
      BY Zenon DEF Tried, Others
    <3>2. Due \in Int /\ Window \in Nat \ {0}
      BY <1>4 DEF Overtaking
    <3> QED  BY <1>4, <3>1, <3>2, TriedFew, Zenon
  <2>3. tries <= Cardinality(Tried)
    BY Zenon DEF Running
  <2> QED  BY <1>4, <2>1, <2>2, <2>3 DEF Overtaking
<1>7. rtp_pkt[rtp_first] = Due /\ Due <= sent /\ ~OnWire(Due)
  <2>1. rtp_pkt[rtp_first] \in {0, Due + 0}
    BY <1>4, Zenon DEF Running
  <2>2. rtp_pkt[rtp_first] = Due
    BY <1>4, <1>6, <2>1
  <2> QED  BY <1>4, <2>2, Zenon DEF Once
<1>8. SlotAt(0) = rtp_first /\ ~Empty(0)
  <2>1. SlotAt(0) = rtp_first
    BY <1>4 DEF SlotAt, Slot
  <2> QED  BY <1>6, <2>1 DEF Empty
<1>9. k = 0
  <2>1. \A m \in 0 .. k - 1 : Empty(m)
    BY <1>2, Zenon DEF Skips
  <2>2. CASE k # 0
    <3>1. 0 \in 0 .. k - 1
      BY <1>4, <2>2
    <3> QED  BY <1>8, <2>1, <3>1
  <2> QED  BY <2>2
<1>10. /\ rtp_first' = Slot(rtp_first, 1)
       /\ rtp_seq' = [rtp_seq EXCEPT ![Slot(rtp_first, 1)] = Succ(Expected)]
       /\ rtp_pkt' = [rtp_pkt EXCEPT ![rtp_first] = 0]
       /\ given' = Append(given, Due)
  <2>1. SlotAt(0 + 1) = Slot(rtp_first, 1)
    BY DEF SlotAt, Slot
  <2>2. Takes(0)
    BY <1>2, <1>9
  <2> QED  BY <1>7, <1>8, <2>1, <2>2, Zenon DEF Takes, Expected
<1>11. given' # <<>>
  <2>1. given \in Seq(1 .. Packets)
    BY <1>1 DEF CacheTypeOK
  <2> QED  BY <1>10, <2>1
<1>12. Once'
  <2>1. ~OnWire(0)
    BY <1>1 DEF OnWire, NetTypeOK
  <2>2. \A i \in Slots : rtp_pkt'[i] = 0 \/ rtp_pkt'[i] = rtp_pkt[i]
    BY <1>1, <1>10 DEF CacheTypeOK
  <2>3. 0 <= sent
    BY <1>1, RunBasics
  <2> QED  BY <1>3, <1>5, <2>1, <2>2, <2>3, Zenon DEF Once
<1>13. \A j : OnWire(j)' <=> OnWire(j) /\ j # Due
  BY <1>5, <1>7, Zenon
<1>14. is_first' = FALSE
  BY <1>3, TypeParts, Zenon DEF Running, FlagTypeOK
<1>15. Running'
  BY <1>1, <1>3, <1>7, <1>10, <1>13, <1>14, RunGives, Zenon
<1> QED  BY <1>5, <1>11, <1>12, <1>15

(* While the due packet is waited for, each that is read is one more of    *)
(* those that were tried.                                                  *)
LEMMA RunTries ==
    ASSUME CacheTypeOK, NetTypeOK, Overtaking, WireInv, Running,
           given # <<>>, NEW p \in wire, Reads(p), Calm', NewSeq(p) # 0,
           given' = given, tries' = tries + 1
    PROVE  tries' <= Cardinality(Tried')
<1>1. /\ sent' = sent /\ p.n <= sent
      /\ \A n : OnWire(n)' <=> OnWire(n) /\ n # p.n
  BY ReadsOne, Zenon
<1>2. /\ NewSeq(p) = p.n - Due
      /\ p.n - Due < Window /\ given[1] - p.n < Window
      /\ p.n >= Due \/ p.n < given[1]
  BY RunReads, Zenon
<1>3. /\ p.n \in Nat /\ Due \in Nat /\ given[1] \in Nat
      /\ Window \in Nat \ {0} /\ tries \in Int
  <2>1. p.n \in Nat /\ Due \in Nat /\ given[1] \in Nat
    BY PacketNumber, RunBasics, Zenon
  <2>2. tries \in Int
    BY SlotsAssumption DEF CacheTypeOK
  <2> QED  BY <2>1, <2>2 DEF Overtaking
<1>4. p.n \in Others
  BY <1>2, <1>3 DEF Others
<1>5. Due' = Due /\ Others' = Others
  BY Zenon DEF Due, Others
<1>6. Tried' = Tried \cup {p.n}
  BY <1>1, <1>4, <1>5, Zenon DEF Tried
<1>7. p.n \notin Tried
  BY Zenon DEF Tried, OnWire
<1>8. IsFiniteSet(Tried)
  <2>1. Tried \subseteq (given[1] - Window + 1 .. given[1] - 1)
                            \cup (Due + 1 .. Due + Window - 1)
    BY Zenon DEF Tried, Others
  <2>2. given[1] \in Int /\ Due \in Int
    BY <1>3
  <2> QED  BY <1>3, <2>1, <2>2, TriedFew, Zenon
<1>9. tries <= Cardinality(Tried) /\ tries \in Int
  BY <1>3, Zenon DEF Running
<1> QED  BY <1>6, <1>7, <1>8, <1>9, TriedMore, Zenon

(* A packet from before the first one given is dropped.                    *)
LEMMA RunDropOld ==
    ASSUME TypeOK, Overtaking, WireInv, Once, Running,
           given # <<>>, DropOld, Calm'
    PROVE  WireInv' /\ Once' /\ given' # <<>> /\ Running'
<1>1. CacheTypeOK /\ NetTypeOK
  BY TypeParts
<1>2. PICK p \in wire :
          /\ Reads(p) /\ NewSeq(p) < 0 /\ NoPacket
          /\ UNCHANGED <<rtp_first, rtp_seq, rtp_pkt>>
  BY Zenon DEF DropOld
<1>3. /\ sent' = sent /\ base' = base
      /\ \A n : OnWire(n)' <=> OnWire(n) /\ n # p.n
      /\ WireInv'
  BY <1>1, <1>2, ReadsOne, Zenon
<1>4. /\ rtp_first' = rtp_first /\ rtp_seq' = rtp_seq /\ rtp_pkt' = rtp_pkt
      /\ given' = given /\ is_first' = is_first /\ tries' = tries + 1
  BY <1>2 DEF NoPacket
<1>5. NewSeq(p) # 0 /\ NewSeq(p) = p.n - Due /\ p.n \in Nat /\ Due \in Nat
  BY <1>1, <1>2, RunReads, RunBasics, PacketType, NetworkAssumption
<1>6. tries' <= Cardinality(Tried')
  BY <1>1, <1>2, <1>4, <1>5, RunTries, Zenon
<1>7. Once'
  BY <1>3, <1>4, Zenon DEF Once
<1>8. Due' = Due /\ Expected' = Expected /\ SeqOf(Due)' = SeqOf(Due)
  BY <1>3, <1>4, Zenon DEF Due, Expected, SeqOf
<1>9. \A n \in Due .. sent : n # p.n
  BY <1>1, <1>2, <1>5, RunBasics
<1>10. Running'
  BY <1>3, <1>4, <1>6, <1>8, <1>9, Zenon DEF Running
<1> QED  BY <1>3, <1>4, <1>7, <1>10, Zenon

(* One from after the due one is cached.                                   *)
LEMMA RunOutOfSequence ==
    ASSUME TypeOK, Overtaking, WireInv, Once, Running,
           given # <<>>, OutOfSequence, Calm'
    PROVE  WireInv' /\ Once' /\ given' # <<>> /\ Running'
<1>1. CacheTypeOK /\ NetTypeOK
  BY TypeParts
<1>2. PICK p \in wire :
          /\ Reads(p) /\ NewSeq(p) \in 1 .. MaxPackets
          /\ rtp_pkt' = [rtp_pkt EXCEPT ![SlotAt(NewSeq(p))] = p.n]
          /\ rtp_seq' = [rtp_seq EXCEPT ![SlotAt(NewSeq(p))] = p.seq]
          /\ NoPacket /\ rtp_first' = rtp_first
  BY Zenon DEF OutOfSequence
<1>3. /\ sent' = sent /\ base' = base /\ p.n <= sent
      /\ \A n : OnWire(n)' <=> OnWire(n) /\ n # p.n
      /\ WireInv'
  BY <1>1, <1>2, ReadsOne, Zenon
<1>4. /\ Due \in Nat /\ rtp_first \in Slots /\ 0 \in Slots
      /\ Slot(rtp_first, 0) = rtp_first
      /\ \A k \in Slots : Slot(rtp_first, k) \in Slots
      /\ MaxPackets \in Nat /\ sent \in Nat /\ p.n \in Nat
      /\ Window \in Nat /\ 2 * Window < MaxPackets - 1
  <2>1. Window \in Nat /\ 2 * Window < MaxPackets - 1
    BY DEF Overtaking
  <2> QED  BY <1>1, <2>1, RunBasics, PacketNumber, Zenon
<1>5. PICK d \in Slots : d = NewSeq(p) /\ d = p.n - Due /\ d # 0
  <2>1. NewSeq(p) = p.n - Due /\ p.n - Due < Window
    BY <1>1, <1>2, RunReads, Zenon
  <2>2. \A x \in 1 .. MaxPackets : x < Window => x \in Slots /\ x # 0
    BY <1>4 DEF Slots
  <2>3. NewSeq(p) \in Slots /\ NewSeq(p) # 0
    BY <1>2, <2>1, <2>2
  <2> QED  BY <2>1, <2>3, Zenon
<1>6. /\ given' = given /\ is_first' = is_first /\ tries' = tries + 1
      /\ rtp_first' = rtp_first
  BY <1>2, Zenon DEF NoPacket
<1>7. tries' <= Cardinality(Tried')
  BY <1>1, <1>2, <1>5, <1>6, RunTries, Zenon
<1>8. /\ \A k \in Slots : rtp_pkt'[Slot(rtp_first, k)]
                = IF k = d THEN p.n ELSE rtp_pkt[Slot(rtp_first, k)]
      /\ rtp_seq'[rtp_first] = rtp_seq[rtp_first]
      /\ \A i \in Slots : rtp_pkt'[i] = p.n \/ rtp_pkt'[i] = rtp_pkt[i]
  <2>1. SlotAt(NewSeq(p)) = Slot(rtp_first, d)
    BY <1>5 DEF SlotAt, Slot
  <2>2. \A k \in Slots : k # d => Slot(rtp_first, k) # Slot(rtp_first, d)
    BY <1>4, SlotsDiffer
  <2>3. /\ rtp_pkt' = [rtp_pkt EXCEPT ![Slot(rtp_first, d)] = p.n]
        /\ rtp_seq' = [rtp_seq EXCEPT ![Slot(rtp_first, d)] = p.seq]
    BY <1>2, <2>1, Zenon
  <2>4. rtp_first # Slot(rtp_first, d)
    BY <1>4, <1>5, <2>2
  <2>5. \A i \in Slots :
            /\ rtp_pkt'[i] = IF i = Slot(rtp_first, d) THEN p.n ELSE rtp_pkt[i]
            /\ i # Slot(rtp_first, d) => rtp_seq'[i] = rtp_seq[i]
    BY <1>1, <2>3 DEF CacheTypeOK
  <2> QED  BY <1>4, <2>2, <2>4, <2>5, Zenon
<1>9. Once'
  BY <1>3, <1>8, Zenon DEF Once
<1>10. Due' = Due /\ Expected' = Expected /\ SeqOf(Due)' = SeqOf(Due)
  BY <1>3, <1>6, <1>8, Zenon DEF Due, Expected, SeqOf
<1>11. \A k \in Slots : rtp_pkt'[Slot(rtp_first, k)] \in {0, Due + k}
  <2> TAKE k \in Slots
  <2>1. CASE k = d
    <3>1. p.n = Due + k
      <4>1. k \in Int /\ k = p.n - Due
        BY <1>4, <1>5, <2>1 DEF Slots
      <4> QED  BY <1>4, <4>1
    <3> QED  BY <1>8, <2>1, <3>1
  <2>2. CASE k # d
    BY <1>8, <2>2, Zenon DEF Running
  <2> QED  BY <2>1, <2>2
<1>12. \A n \in Due .. sent :
           OnWire(n)' \/ (/\ n - Due \in Slots
                          /\ rtp_pkt'[Slot(rtp_first, n - Due)] = n)
  <2> SUFFICES ASSUME NEW n \in Due .. sent, ~OnWire(n)'
               PROVE  /\ n - Due \in Slots
                      /\ rtp_pkt'[Slot(rtp_first, n - Due)] = n
    OBVIOUS
  <2>1. CASE n = p.n
    BY <1>5, <1>8, <2>1, Zenon
  <2>2. CASE n # p.n
    <3>1. n - Due \in Slots /\ rtp_pkt[Slot(rtp_first, n - Due)] = n
      BY <1>3, <2>2, Zenon DEF Running
    <3>2. n - Due # d
      BY <1>4, <1>5, <2>2
    <3> QED  BY <1>8, <3>1, <3>2, Zenon
  <2> QED  BY <2>1, <2>2
<1>13. Running'
  BY <1>3, <1>6, <1>7, <1>10, <1>11, <1>12, Zenon DEF Running
<1> QED  BY <1>3, <1>6, <1>9, <1>13, Zenon

-----------------------------------------------------------------------------
(* The stream without faults, in every behaviour.                          *)

(* One packet more on the wire.                                            *)
LEMMA SendCalm ==
    ASSUME TypeOK, Overtaking, CalmInv, Send
    PROVE  CalmInv'
<1>1. CacheTypeOK /\ NetTypeOK
  BY TypeParts
<1>2. /\ sent' = sent + 1 /\ \A p \in wire : sent + 1 - p.n < Window
      /\ wire' = wire \cup {[n |-> sent + 1,
                             seq |-> (base + (sent + 1)) % SeqRange]}
      /\ rtp_first' = rtp_first /\ rtp_seq' = rtp_seq /\ rtp_pkt' = rtp_pkt
      /\ is_first' = is_first /\ tries' = tries /\ base' = base
      /\ faults' = faults /\ given' = given /\ astray' = astray
  BY DEF Send, cacheVars
<1> SUFFICES ASSUME Calm'
             PROVE  /\ WireInv' /\ Once'
                    /\ given' = <<>> => Start'
                    /\ given' # <<>> => Running'
  BY Zenon DEF CalmInv
<1>0. NoWrap' => NoWrap
  <2>1. {sent, base, MaxPackets, SeqRange} \subseteq Int
    BY <1>1, SeqAssumption, SlotsAssumption, NetworkAssumption DEF NetTypeOK
  <2> QED  BY <1>2, <2>1 DEF NoWrap
<1>3. Calm /\ WireInv /\ Once
  BY <1>0, <1>2, Zenon DEF Calm, CalmInv
<1>4. sent \in Nat /\ Window \in Nat \ {0} /\ 0 < Window
  BY <1>1, NetworkAssumption DEF NetTypeOK, Overtaking
<1>5. \A n : SeqOf(n)' = SeqOf(n)
  BY <1>2, Zenon DEF SeqOf
<1> DEFINE q == [n |-> sent + 1, seq |-> (base + (sent + 1)) % SeqRange]
<1>6. q.n = sent + 1 /\ q.seq = SeqOf(sent + 1)
  BY DEF SeqOf
<1>7. wire' = wire \cup {q}
  BY <1>2
<1> HIDE DEF q
<1>8. \A n : OnWire(n)' <=> (OnWire(n) \/ n = sent + 1)
  BY <1>6, <1>7, Zenon DEF OnWire
<1>9. WireInv'
  <2> SUFFICES ASSUME NEW p \in wire'
               PROVE  /\ p.seq = (base' + p.n) % SeqRange /\ p.n <= sent'
                      /\ sent' - p.n < Window
    BY Zenon DEF WireInv, SeqOf
  <2>1. CASE p = q
    BY <1>2, <1>4, <1>6, <2>1 DEF SeqOf
  <2>2. CASE p \in wire
    <3>1. p.seq = SeqOf(p.n) /\ p.n <= sent /\ p.n \in Nat
      BY <1>1, <1>3, <2>2, PacketType, NetworkAssumption DEF WireInv
    <3> QED  BY <1>2, <1>4, <2>2, <3>1 DEF SeqOf
  <2> QED  BY <1>7, <2>1, <2>2
<1>10. Once'
  <2> SUFFICES ASSUME NEW i \in Slots, NEW x, x = rtp_pkt[i]
               PROVE  x <= sent + 1 /\ ~OnWire(x)'
    BY <1>2, Zenon DEF Once, OnWire
  <2>1. x <= sent /\ x \in Int /\ ~OnWire(x)
    BY <1>1, <1>3, NetworkAssumption DEF Once, CacheTypeOK
  <2>2. x <= sent + 1 /\ x # sent + 1
    BY <1>4, <2>1
  <2> QED  BY <1>8, <2>1, <2>2, Zenon
<1>12. ASSUME given' = <<>>
       PROVE  Start'
  <2>1. Start
    BY <1>2, <1>3, <1>12, Zenon DEF CalmInv
  <2>2. {n \in 1 .. sent' : ~OnWire(n)'} = {n \in 1 .. sent : ~OnWire(n)}
    <3>1. \A n : n \in 1 .. sent + 1 <=> n \in 1 .. sent \/ n = sent + 1
      BY <1>4
    <3>2. sent + 1 \notin 1 .. sent
      BY <1>4
    <3> QED  BY <1>2, <1>8, <3>1, <3>2, Zenon
  <2>3. \A n \in 1 .. sent' :
            OnWire(n)' \/ (SeqOf(n)' \in Slots /\ rtp_pkt'[SeqOf(n)'] = n)
    <3> TAKE n \in 1 .. sent'
    <3>1. n \in 1 .. sent \/ n = sent + 1
      BY <1>2, <1>4
    <3> QED  BY <1>2, <1>5, <1>8, <2>1, <3>1, Zenon DEF Start
  <2>4. \A k \in Slots : rtp_pkt'[k] # 0 => SeqOf(rtp_pkt[k])' = k
    BY <1>2, <2>1, Zenon DEF Start, SeqOf
  <2> QED  BY <1>2, <2>1, <2>2, <2>3, <2>4, Zenon DEF Start
<1>13. ASSUME given' # <<>>
       PROVE  Running'
  <2>1. given # <<>> /\ Running
    BY <1>2, <1>3, <1>13, Zenon DEF CalmInv
  <2>2. Due \in Nat /\ given[1] \in Nat /\ Due <= sent + 1 /\ given[1] < Due
    BY <1>1, <2>1, RunBasics, Zenon DEF Running
  <2>3. /\ Due' = Due /\ Expected' = Expected /\ SeqOf(Due)' = SeqOf(Due)
        /\ Others' = Others
    BY <1>2, Zenon DEF Due, Expected, SeqOf, Others
  <2>4. \A n \in Due' .. sent' :
            OnWire(n)' \/ (/\ n - Due' \in Slots
                           /\ rtp_pkt'[Slot(rtp_first', n - Due')] = n)
    <3> TAKE n \in Due' .. sent'
    <3>1. n \in Due .. sent \/ n = sent + 1
      BY <1>2, <1>4, <2>2, <2>3
    <3> QED  BY <1>2, <1>8, <2>1, <2>3, <3>1, Zenon DEF Running
  <2>5. \A n \in given'[1] .. Due' - 1 : ~OnWire(n)'
    <3> TAKE n \in given'[1] .. Due' - 1
    <3>1. n \in given[1] .. Due - 1 /\ n # sent + 1
      BY <1>2, <1>4, <2>2, <2>3
    <3> QED  BY <1>8, <2>1, <3>1, Zenon DEF Running
  <2>6. Tried' = Tried
    <3>1. \A n \in Others : n \in Int
      BY <1>4, <2>2 DEF Others
    <3>2. \A n \in Int : n <= sent + 1 /\ n # sent + 1 <=> n <= sent
      BY <1>4
    <3> QED  BY <1>2, <1>8, <2>3, <3>1, <3>2, Zenon DEF Tried
  <2>7. Due' <= sent' + 1
    BY <1>2, <1>4, <2>2, <2>3
  <2> QED  BY <1>2, <2>1, <2>3, <2>4, <2>5, <2>6, <2>7, Zenon DEF Running
<1> QED  BY <1>9, <1>10, <1>12, <1>13

(* A fault ends the calm.                                                  *)
LEMMA FaultsAreFaults ==
    ASSUME NetTypeOK, Lose \/ Restart \/ Damaged
    PROVE  ~Calm'
  BY NetworkAssumption DEF NetTypeOK, Lose, Restart, Damaged, Calm

(* At first nothing has been sent.                                         *)
LEMMA InitCalm ==
    ASSUME Init
    PROVE  CalmInv
<1>1. /\ rtp_first = 0 /\ tries = 0 /\ wire = {} /\ sent = 0 /\ given = <<>>
      /\ \A i \in Slots : rtp_pkt[i] = 0 /\ rtp_seq[i] = 0
  BY DEF Init
<1>2. 0 \in Slots /\ 1 .. 0 = {}
  BY SlotsAssumption DEF Slots
<1>3. WireInv
  BY <1>1 DEF WireInv
<1>4. Once
  BY <1>1 DEF Once, OnWire
<1>5. Start
  <2>1. {n \in 1 .. sent : ~OnWire(n)} = {}
    BY <1>1, <1>2
  <2>2. tries = Cardinality({n \in 1 .. sent : ~OnWire(n)})
    BY <1>1, <2>1, FS_EmptySet
  <2>3. \A n \in 1 .. sent :
            OnWire(n) \/ (SeqOf(n) \in Slots /\ rtp_pkt[SeqOf(n)] = n)
    BY <1>1, <1>2
  <2> QED  BY <1>1, <1>2, <2>2, <2>3, Zenon DEF Start
<1> QED  BY <1>1, <1>3, <1>4, <1>5 DEF CalmInv

(* Every step keeps what is known of the calm stream.                      *)
LEMMA NextCalm ==
    ASSUME TypeOK, TypeOK', Kept, Overtaking, CalmInv, [Next]_vars
    PROVE  CalmInv'
<1>1. CacheTypeOK /\ NetTypeOK
  BY TypeParts
<1>2. CASE UNCHANGED vars
  BY <1>2, Zenon DEF vars, cacheVars, netVars, CalmInv, Calm, NoWrap, WireInv,
     Once, Start, Running, Due, Tried, Others, Expected, SeqOf, OnWire
<1>3. CASE Send
  BY <1>3, SendCalm
<1>4. CASE Lose \/ Restart \/ Damaged
  BY <1>1, <1>4, FaultsAreFaults, Zenon DEF CalmInv
<1>5. CASE InSequence \/ Overrun \/ Underrun \/ DropOld \/ OutOfSequence
           \/ TakeNext
  <2> SUFFICES ASSUME Calm'
               PROVE  /\ WireInv' /\ Once'
                      /\ given' = <<>> => Start'
                      /\ given' # <<>> => Running'
    BY Zenon DEF CalmInv
  <2>1. Calm
    <3>1. faults' = faults \/ faults' = faults + 1
      BY <1>5, Zenon DEF InSequence, Overrun, Underrun, DropOld,
         OutOfSequence, TakeNext, Reads, Arrives, netVars
    <3>2. ~astray' => ~astray
      BY <1>5, Zenon DEF InSequence, Overrun, Underrun, DropOld,
         OutOfSequence, TakeNext, Reads
    <3>3. faults = 0
      BY <1>1, <3>1, NetworkAssumption DEF NetTypeOK, Calm
    <3>4. sent' = sent /\ base' = base
      BY <1>5, Zenon DEF InSequence, Overrun, Underrun, DropOld,
         OutOfSequence, TakeNext, Reads, Arrives, netVars
    <3>5. NoWrap' <=> NoWrap
      BY <3>4, Zenon DEF NoWrap
    <3> QED  BY <3>2, <3>3, <3>5, Zenon DEF Calm
  <2>2. /\ WireInv /\ Once
        /\ given = <<>> => Start
        /\ given # <<>> => Running
    BY <2>1, Zenon DEF CalmInv
  <2>3. CASE given = <<>>
    BY <1>5, <2>2, <2>3, StartInSequence, StartOverrun, StartNoneOld,
       StartOutOfSequence, StartTakeNext, Zenon
  <2>4. CASE given # <<>>
    BY <1>1, <1>5, <2>2, <2>4, RunInSequence, RunTakeNext, RunDropOld,
       RunOutOfSequence, RunNoReset, Zenon
  <2> QED  BY <2>3, <2>4
<1> QED  BY <1>2, <1>3, <1>4, <1>5, Zenon DEF Next, Network, GetNext

(* As long as packets overtake each other by less than half the reads that *)
(* get_next makes, it waits for each of them: without faults of the        *)
(* network none is missing (rtp_cache.cpp:153-194), as long as the numbers *)
(* do not wrap or, where they do, no packet is misjudged for it.           *)
THEOREM RtpCalmIsComplete ==
    ASSUME Overtaking
    PROVE  Spec => []CalmIsComplete
<1>1. TypeOK /\ CalmInv => CalmIsComplete
  <2> SUFFICES ASSUME TypeOK, CalmInv, Calm
               PROVE  \A i \in 1 .. Len(given) - 1 :
                          given[i + 1] = given[i] + 1
    BY Zenon DEF CalmIsComplete, Calm
  <2>1. CASE given = <<>>
    BY <2>1
  <2>2. CASE given # <<>>
    BY <2>2, Zenon DEF CalmInv, Running
  <2> QED  BY <2>1, <2>2
<1>2. /\ TypeOK /\ Kept /\ CalmInv /\ [Next]_vars
          => TypeOK' /\ Kept' /\ CalmInv'
  BY NextInv, NextCalm
<1>3. Init => TypeOK /\ Kept /\ CalmInv
  BY InitInv, InitCalm
<1> QED  BY <1>1, <1>2, <1>3, PTL DEF Spec

-----------------------------------------------------------------------------
(* The stream with faults.                                                 *)

(* The server keeps its numbers, and the faults of the network are too few *)
(* to run get_next that far ahead of the stream, with the reads it makes   *)
(* for each packet, that a packet looks too old to it, or to leave it so   *)
(* far behind that half the sequence numbers have gone by: with the code's *)
(* 32 slots and packets that overtake each other by less than 16 places,   *)
(* 2303 faults.                                                            *)
FewFaults ==
    /\ Jumps = {} /\ Window > 0
    /\ MaxFaults + Window < (MaxPackets - 3) * (3 * MaxPackets - Window)
    /\ 2 * (MaxFaults + Window + MaxPackets) < SeqRange

(* The packets on the wire; those that have been lost or were dropped,     *)
(* from packet m on.                                                       *)
Waiting == {n \in 1 .. sent : OnWire(n)}
Cached(n) == \E i \in Slots : rtp_pkt[i] = n
Missing(m) == {n \in 1 .. sent : m <= n /\ ~OnWire(n) /\ ~Cached(n)}

(* None is missing without a fault.                                        *)
FewMissing(m) == Cardinality(Missing(m)) <= faults

(* Each number that get_next does without, after those that were sent,     *)
(* takes reads of packets, all of them repeated or still under way.        *)
NotFarAhead(m) ==
    m <= sent \/ (m - sent - 1) * (MaxPackets - 3) + tries + Cardinality(Waiting)
                     <= faults + Window

(* What was given is in order and before packet m.                         *)
Ascending(m) ==
    /\ \A i \in 1 .. Len(given) - 1 : given[i] < given[i + 1]
    /\ given # <<>> => given[Len(given)] < m

(* Nothing has come but what was damaged.                                  *)
Untouched ==
    /\ given = <<>> /\ \A i \in Slots : rtp_pkt[i] = 0
    /\ FewMissing(1)
    /\ is_first \/ Expected * (MaxPackets - 3) + tries <= faults

(* Packet m is waited for, which need not exist: what is cached are        *)
(* packets from m on, each in its place.                                   *)
Awaits(m) ==
    /\ ~is_first /\ Expected = SeqOf(m) /\ -MaxPackets < m
    /\ \A k \in Slots : rtp_pkt[Slot(rtp_first, k)] \in {0, m + k}
    /\ \A i \in Slots : rtp_pkt[i] <= sent
    /\ FewMissing(m) /\ NotFarAhead(m) /\ Ascending(m)

OrderInv ==
    ~astray => WireInv /\ (Untouched \/ \E m \in Int : Awaits(m))

-----------------------------------------------------------------------------
(* The larger of two numbers, as often.                                    *)
LEMMA MoreTimes ==
    ASSUME NEW x \in Int, NEW y \in Int, NEW k \in Nat, x <= y
    PROVE  x * k <= y * k /\ x * k \in Int /\ y * k \in Int
  BY SMT

(* Numbers of this module.                                                 *)
LEMMA OrderBasics ==
    ASSUME CacheTypeOK, NetTypeOK, FewFaults
    PROVE  /\ MaxPackets \in Nat /\ MaxPackets > 3 /\ MaxPackets - 3 \in Nat
           /\ SeqRange \in Nat /\ SeqRange > 6 * MaxPackets
           /\ Packets \in Nat /\ Window \in Nat /\ MaxFaults \in Nat
           /\ sent \in Nat /\ faults \in Nat /\ faults <= MaxFaults
           /\ tries \in Nat /\ tries <= MaxPackets - 3
           /\ rtp_first \in Slots /\ 0 \in Slots /\ Slot(rtp_first, 0) = rtp_first
           /\ \A k \in Slots : Slot(rtp_first, k) \in Slots
           /\ \A k \in Slots : k \in 0 .. MaxPackets - 1
           /\ \A i \in Slots : rtp_pkt[i] \in Nat
<1>1. /\ MaxPackets \in Nat /\ MaxPackets > 3 /\ MaxPackets - 3 \in Nat
      /\ SeqRange \in Nat /\ SeqRange > 6 * MaxPackets
      /\ Packets \in Nat /\ Window \in Nat /\ MaxFaults \in Nat
  BY SlotsAssumption, SeqAssumption, NetworkAssumption
<1>2. /\ sent \in Nat /\ faults \in Nat /\ faults <= MaxFaults
      /\ tries \in Nat /\ tries <= MaxPackets - 3
      /\ rtp_first \in Slots /\ 0 \in Slots
      /\ \A k \in Slots : k \in 0 .. MaxPackets - 1
      /\ \A k \in Slots : k \in 0 .. MaxPackets
  BY <1>1 DEF CacheTypeOK, NetTypeOK, Slots
<1>3. \A k \in Slots : Slot(rtp_first, k) \in Slots
  BY <1>2, SlotIs
<1>4. \A i \in Slots : rtp_pkt[i] \in Nat
  BY <1>1 DEF CacheTypeOK
<1> QED  BY <1>1, <1>2, <1>3, <1>4, SlotZero, Zenon

(* Both sets are finite,                                                   *)
LEMMA SetsFinite ==
    ASSUME NetTypeOK
    PROVE  /\ IsFiniteSet(Waiting) /\ Cardinality(Waiting) \in Nat
           /\ \A m : /\ IsFiniteSet(Missing(m))
                     /\ Cardinality(Missing(m)) \in Nat
<1>1. sent \in Nat
  BY NetworkAssumption DEF NetTypeOK
<1>2. IsFiniteSet(1 .. sent)
  BY <1>1, FS_Interval
<1>3. \A S : S \subseteq 1 .. sent => IsFiniteSet(S) /\ Cardinality(S) \in Nat
  BY <1>2, FS_Subset, FS_CardinalityType
<1>4. Waiting \subseteq 1 .. sent /\ \A m : Missing(m) \subseteq 1 .. sent
  BY Zenon DEF Waiting, Missing
<1> QED  BY <1>3, <1>4, Zenon

(* before and after a step,                                                *)
LEMMA WaitingCounts ==
    ASSUME NetTypeOK, NetTypeOK'
    PROVE  Cardinality(Waiting) \in Nat /\ Cardinality(Waiting') \in Nat
<1>1. sent' \in Nat
  BY NetworkAssumption DEF NetTypeOK
<1>2. Waiting' \subseteq 1 .. sent' /\ IsFiniteSet(1 .. sent')
  BY <1>1, FS_Interval DEF Waiting
<1> QED  BY <1>2, SetsFinite, FS_Subset, FS_CardinalityType

(* and the wire holds no more than the window.                             *)
LEMMA WaitingFew ==
    ASSUME NetTypeOK, WireInv
    PROVE  Cardinality(Waiting) <= Window
<1>1. sent \in Nat /\ Window \in Nat
  BY NetworkAssumption DEF NetTypeOK
<1> DEFINE W == sent - Window + 1 .. sent
<1>2. Waiting \subseteq W
  <2> SUFFICES ASSUME NEW p \in wire
               PROVE  p.n \in W
    BY DEF Waiting, OnWire
  <2>1. p.n <= sent /\ sent - p.n < Window /\ p.n \in Int
    BY NetworkAssumption DEF WireInv, NetTypeOK
  <2> QED  BY <1>1, <2>1
<1>3. IsFiniteSet(W) /\ Cardinality(W) = Window
  <2>1. sent - Window + 1 \in Int /\ sent \in Int
    BY <1>1
  <2>2. Cardinality(W)
            = IF sent - Window + 1 > sent THEN 0
              ELSE sent - (sent - Window + 1) + 1
    BY <2>1, FS_Interval
  <2> QED  BY <1>1, <2>1, <2>2, FS_Interval
<1> HIDE DEF W
<1> QED  BY <1>2, <1>3, FS_Subset

(* What is missing is no more than before,                                 *)
LEMMA MissingNoMore ==
    ASSUME NetTypeOK, NetTypeOK', NEW m, NEW m2, FewMissing(m),
           Missing(m2)' \subseteq Missing(m), faults <= faults'
    PROVE  FewMissing(m2)'
<1>1. Cardinality(Missing(m2)') <= Cardinality(Missing(m))
  BY SetsFinite, FS_Subset
<1>2. Cardinality(Missing(m2)') \in Nat /\ Cardinality(Missing(m)) \in Nat
  BY SetsFinite, FS_Subset, FS_CardinalityType
<1>3. faults \in Int /\ faults' \in Int
  BY NetworkAssumption DEF NetTypeOK
<1> QED  BY <1>1, <1>2, <1>3 DEF FewMissing

(* or by one, for a fault.                                                 *)
LEMMA MissingOneMore ==
    ASSUME NetTypeOK, NetTypeOK', NEW m, FewMissing(m), NEW n,
           Missing(m)' \subseteq Missing(m) \cup {n}, faults' = faults + 1
    PROVE  FewMissing(m)'
<1>1. /\ IsFiniteSet(Missing(m) \cup {n})
      /\ Cardinality(Missing(m) \cup {n}) <= Cardinality(Missing(m)) + 1
  <2>1. IsFiniteSet(Missing(m)) /\ Cardinality(Missing(m)) \in Nat
    BY SetsFinite
  <2>2. CASE n \in Missing(m)
    <3>1. Missing(m) \cup {n} = Missing(m)
      BY <2>2
    <3> QED  BY <2>1, <3>1
  <2>3. CASE n \notin Missing(m)
    BY <2>1, <2>3, FS_AddElement
  <2> QED  BY <2>2, <2>3
<1>2. /\ Cardinality(Missing(m)') <= Cardinality(Missing(m) \cup {n})
      /\ Cardinality(Missing(m)') \in Nat
      /\ Cardinality(Missing(m) \cup {n}) \in Nat
  BY <1>1, FS_Subset, FS_CardinalityType
<1>3. faults \in Int /\ faults' \in Int /\ Cardinality(Missing(m)) \in Nat
  BY SetsFinite, NetworkAssumption DEF NetTypeOK
<1> QED  BY <1>1, <1>2, <1>3 DEF FewMissing

-----------------------------------------------------------------------------
(* Packets that arrive.                                                    *)

(* A packet is read: the wire holds one less, or there is one fault more.  *)
LEMMA ReadsAny ==
    ASSUME CacheTypeOK, NetTypeOK, WireInv, NEW p \in wire, Reads(p), ~astray'
    PROVE  /\ ~astray /\ ~Misjudged(p) /\ Looping
           /\ sent' = sent /\ base' = base /\ faults <= faults'
           /\ p.n \in 1 .. Packets /\ p.seq = SeqOf(p.n)
           /\ p.n <= sent /\ sent - p.n < Window /\ p.n \in Nat
           /\ \A n : OnWire(n)' => OnWire(n)
           /\ \A n : OnWire(n) /\ n # p.n => OnWire(n)'
           /\ Cardinality(Waiting') + 1 + faults <= Cardinality(Waiting) + faults'
           /\ WireInv'
<1>1. ~astray /\ ~Misjudged(p)
  BY Zenon DEF Reads
<1>2. Looping /\ sent' = sent /\ base' = base
  BY Zenon DEF Reads, Arrives
<1>3. /\ p.n \in 1 .. Packets /\ p.seq = SeqOf(p.n)
      /\ p.n <= sent /\ sent - p.n < Window /\ p.n \in Nat
  BY PacketType, PacketNumber DEF WireInv
<1>4. faults \in Nat
  BY NetworkAssumption DEF NetTypeOK
<1>5. CASE wire' = wire /\ faults' = faults + 1
  <2>1. \A n : OnWire(n)' <=> OnWire(n)
    BY <1>5, Zenon DEF OnWire
  <2>2. Waiting' = Waiting
    BY <1>2, <2>1, Zenon DEF Waiting
  <2>3. WireInv'
    BY <1>2, <1>5, Zenon DEF WireInv, SeqOf
  <2>4. Cardinality(Waiting) \in Nat
    BY SetsFinite
  <2>5. /\ faults <= faults'
        /\ Cardinality(Waiting') + 1 + faults <= Cardinality(Waiting) + faults'
    BY <1>4, <1>5, <2>2, <2>4
  <2> QED  BY <1>1, <1>2, <1>3, <2>1, <2>3, <2>5, Zenon
<1>6. CASE wire' = wire \ {p} /\ faults' = faults
  <2>1. \A n : OnWire(n)' <=> OnWire(n) /\ n # p.n
    <3>1. ASSUME NEW q \in wire, q.n = p.n PROVE q = p
      <4>1. q.seq = SeqOf(q.n)
        BY DEF WireInv
      <4>2. /\ q \in [n : 1 .. Packets, seq : 0 .. SeqRange - 1]
            /\ p \in [n : 1 .. Packets, seq : 0 .. SeqRange - 1]
        BY DEF NetTypeOK
      <4>3. q.seq = p.seq
        BY <1>3, <3>1, <4>1
      <4> QED  BY <3>1, <4>2, <4>3
    <3> QED  BY <1>6, <3>1, Zenon DEF OnWire
  <2>2. Waiting' = Waiting \ {p.n} /\ p.n \in Waiting
    <3>1. OnWire(p.n)
      BY Zenon DEF OnWire
    <3>2. p.n \in 1 .. sent
      BY <1>3, NetworkAssumption DEF NetTypeOK
    <3> QED  BY <1>2, <2>1, <3>1, <3>2, Zenon DEF Waiting
  <2>3. WireInv'
    BY <1>2, <1>6, Zenon DEF WireInv, SeqOf
  <2>4. /\ Cardinality(Waiting') = Cardinality(Waiting) - 1
        /\ Cardinality(Waiting) \in Nat
    BY <2>2, SetsFinite, FS_RemoveElement
  <2>5. /\ faults <= faults'
        /\ Cardinality(Waiting') + 1 + faults <= Cardinality(Waiting) + faults'
    BY <1>4, <1>6, <2>4
  <2> QED  BY <1>1, <1>2, <1>3, <2>1, <2>3, <2>5, Zenon
<1> QED  BY <1>5, <1>6, Zenon DEF Reads, Arrives

(* What is cached of the packets before sent - Window has come and is near *)
(* the one waited for; the others are missing. So get_next is not far      *)
(* behind.                                                                 *)
LEMMA NotFarBehind ==
    ASSUME CacheTypeOK, NetTypeOK, FewFaults, WireInv, NEW m \in Int, Awaits(m)
    PROVE  sent - m < MaxFaults + Window + MaxPackets
<1>1. /\ MaxPackets \in Nat /\ Window \in Nat /\ MaxFaults \in Nat
      /\ sent \in Nat /\ faults \in Nat /\ faults <= MaxFaults
      /\ MaxPackets > 3 /\ -MaxPackets < m
  BY OrderBasics, Zenon DEF Awaits
<1> DEFINE a == m + MaxPackets
           b == sent - Window
<1>2. CASE b < a
  BY <1>1, <1>2
<1>3. CASE a <= b
  <2>1. a .. b \subseteq Missing(m)
    <3> SUFFICES ASSUME NEW n \in a .. b
                 PROVE  n \in Missing(m)
      OBVIOUS
    <3>1. n \in 1 .. sent /\ m <= n /\ n \in Nat /\ n # 0
      BY <1>1
    <3>2. ~OnWire(n)
      <4> SUFFICES ASSUME NEW p \in wire, p.n = n
                   PROVE  FALSE
        BY Zenon DEF OnWire
      <4>1. sent - p.n < Window
        BY DEF WireInv
      <4> QED  BY <1>1, <3>1, <4>1
    <3>3. ~Cached(n)
      <4> SUFFICES ASSUME NEW i \in Slots, rtp_pkt[i] = n
                   PROVE  FALSE
        BY Zenon DEF Cached
      <4>1. PICK k \in Slots : Slot(rtp_first, k) = i
        BY EverySlot, OrderBasics, Zenon
      <4>2. n \in {0, m + k}
        BY <4>1, Zenon DEF Awaits
      <4>3. k \in 0 .. MaxPackets - 1
        BY OrderBasics, Zenon
      <4> QED  BY <1>1, <3>1, <4>2, <4>3
    <3> QED  BY <3>1, <3>2, <3>3, Zenon DEF Missing
  <2>2. Cardinality(a .. b) = b - a + 1
    <3>1. a \in Int /\ b \in Int
      BY <1>1
    <3> HIDE DEF a, b
    <3> QED  BY <1>3, <3>1, FS_Interval
  <2>3. Cardinality(a .. b) <= Cardinality(Missing(m))
    BY <2>1, SetsFinite, FS_Subset
  <2>4. Cardinality(Missing(m)) <= faults /\ Cardinality(Missing(m)) \in Nat
    BY SetsFinite DEF Awaits, FewMissing
  <2> QED  BY <1>1, <2>2, <2>3, <2>4
<1> QED  BY <1>1, <1>2, <1>3

(* Nor is it far ahead.                                                    *)
LEMMA NotFarFrom ==
    ASSUME CacheTypeOK, NetTypeOK, FewFaults, WireInv, NEW m \in Int, Awaits(m)
    PROVE  m - sent - 1 < 3 * MaxPackets - Window /\ Window < 3 * MaxPackets
<1>1. /\ MaxPackets \in Nat /\ MaxPackets > 3 /\ MaxPackets - 3 \in Nat
      /\ Window \in Nat /\ MaxFaults \in Nat
      /\ sent \in Nat /\ faults \in Nat /\ faults <= MaxFaults /\ tries \in Nat
  BY OrderBasics, Zenon
<1> DEFINE z == 3 * MaxPackets - Window
           K == MaxPackets - 3
           a == m - sent - 1
<1>2. MaxFaults + Window < K * z /\ K \in Nat /\ z \in Int /\ a \in Int
  BY <1>1 DEF FewFaults
<1>3. 0 < z
  <2> SUFFICES ASSUME z <= 0 PROVE FALSE
    BY <1>2
  <2>1. K * z <= 0
    <3> HIDE DEF K, z
    <3>1. z * K <= 0 * K
      BY <1>2, MoreTimes
    <3> QED  BY <1>2, <3>1
  <2> HIDE DEF K, z
  <2> QED  BY <1>1, <1>2, <2>1
<1>4. a < z
  <2>1. CASE m <= sent
    BY <1>1, <1>3, <2>1
  <2>2. CASE ~(m <= sent)
    <3> SUFFICES ASSUME z <= a PROVE FALSE
      BY <1>2
    <3>1. Cardinality(Waiting) \in Nat
      BY SetsFinite
    <3>2. a * K + tries + Cardinality(Waiting) <= faults + Window
      BY <2>2, Zenon DEF Awaits, NotFarAhead
    <3> HIDE DEF a, z, K
    <3>3. z * K <= a * K /\ z * K \in Int /\ a * K \in Int
      BY <1>2, MoreTimes
    <3>4. z * K = K * z
      BY <1>2
    <3> QED  BY <1>1, <1>2, <3>1, <3>2, <3>3, <3>4
  <2> QED  BY <2>1, <2>2
<1> QED  BY <1>1, <1>3, <1>4

(* So what arrives is judged rightly and not found too old.                *)
LEMMA AwaitsReads ==
    ASSUME CacheTypeOK, NetTypeOK, FewFaults, WireInv, NEW m \in Int, Awaits(m),
           NEW p \in wire, ~Misjudged(p)
    PROVE  NewSeq(p) = p.n - m /\ m - p.n < 3 * MaxPackets
<1>1. /\ MaxPackets \in Nat /\ MaxPackets > 3
      /\ SeqRange \in Nat /\ SeqRange > 6 * MaxPackets
      /\ Window \in Nat /\ MaxFaults \in Nat /\ sent \in Nat
  BY OrderBasics, Zenon
<1>2. /\ p.n \in Nat /\ p.seq = SeqOf(p.n)
      /\ p.n <= sent /\ sent - p.n < Window
  BY PacketNumber DEF WireInv
<1>3. /\ sent - m < MaxFaults + Window + MaxPackets
      /\ m - sent - 1 < 3 * MaxPackets - Window
  BY NotFarBehind, NotFarFrom, Zenon
<1>4. 2 * (MaxFaults + Window + MaxPackets) < SeqRange
  BY Zenon DEF FewFaults
<1>5. m - p.n < 3 * MaxPackets /\ 2 * (m - p.n) < SeqRange
  BY <1>1, <1>2, <1>3
<1>6. 2 * (p.n - m) < SeqRange
  BY <1>1, <1>2, <1>3, <1>4
<1>7. ~is_first /\ Expected = SeqOf(m)
  BY Zenon DEF Awaits
<1> QED  BY <1>2, <1>5, <1>6, <1>7, JudgedNear

-----------------------------------------------------------------------------
(* Steps that leave the cache alone.                                       *)

(* It still awaits the same packet.                                        *)
LEMMA AwaitsStays ==
    ASSUME CacheTypeOK, NetTypeOK, NetTypeOK', NEW m \in Int, Awaits(m),
           rtp_first' = rtp_first, rtp_seq' = rtp_seq, rtp_pkt' = rtp_pkt,
           is_first' = is_first, given' = given, base' = base, sent <= sent',
           FewMissing(m)', NotFarAhead(m)'
    PROVE  Awaits(m)'
<1>1. \A i \in Slots : rtp_pkt[i] <= sent'
  <2> TAKE i \in Slots
  <2>1. /\ rtp_pkt[i] \in Int /\ sent \in Int /\ sent' \in Int
        /\ rtp_pkt[i] <= sent
    BY NetworkAssumption DEF Awaits, CacheTypeOK, NetTypeOK
  <2> QED  BY <2>1
<1>2. Expected' = Expected /\ SeqOf(m)' = SeqOf(m) /\ Ascending(m)' = Ascending(m)
  BY Zenon DEF Expected, SeqOf, Ascending
<1> QED  BY <1>1, <1>2, Zenon DEF Awaits

(* A read that gives nothing takes a packet off the wire or a fault.       *)
LEMMA StaysNear ==
    ASSUME CacheTypeOK, CacheTypeOK', NetTypeOK, NetTypeOK',
           NEW m \in Int, NotFarAhead(m), sent' = sent,
           tries' + Cardinality(Waiting') + faults
               <= tries + Cardinality(Waiting) + faults'
    PROVE  NotFarAhead(m)'
<1>1. /\ Cardinality(Waiting) \in Int /\ Cardinality(Waiting') \in Int
      /\ faults \in Int /\ faults' \in Int /\ Window \in Int
      /\ tries \in Int /\ tries' \in Int /\ sent \in Int
  BY WaitingCounts, NetworkAssumption, SlotsAssumption DEF CacheTypeOK, NetTypeOK
<1> DEFINE x == (m - sent - 1) * (MaxPackets - 3)
<1>2. x \in Int
  BY <1>1, SlotsAssumption
<1>3. m <= sent \/ x + tries + Cardinality(Waiting) <= faults + Window
  BY Zenon DEF NotFarAhead
<1>4. m <= sent' \/ x + tries' + Cardinality(Waiting') <= faults' + Window
  <2> HIDE DEF x
  <2> QED  BY <1>1, <1>2, <1>3
<1> QED  BY <1>4, Zenon DEF NotFarAhead

(* One more packet is missing at most when one is taken off the wire.      *)
LEMMA LostOne ==
    ASSUME NetTypeOK, NetTypeOK', WireInv, NEW p \in wire, wire' = wire \ {p},
           faults' = faults + 1, sent' = sent, base' = base, rtp_pkt' = rtp_pkt
    PROVE  /\ \A m : FewMissing(m) => FewMissing(m)'
           /\ Cardinality(Waiting') <= Cardinality(Waiting)
           /\ WireInv'
<1>1. ASSUME NEW m, FewMissing(m) PROVE FewMissing(m)'
  <2>1. \A n : OnWire(n) /\ n # p.n => OnWire(n)'
    BY Zenon DEF OnWire
  <2>2. \A n : Cached(n)' <=> Cached(n)
    BY Zenon DEF Cached
  <2>3. Missing(m)' \subseteq Missing(m) \cup {p.n}
    BY <2>1, <2>2, Zenon DEF Missing
  <2> QED  BY <1>1, <2>3, MissingOneMore
<1>2. Cardinality(Waiting') <= Cardinality(Waiting)
  <2>1. Waiting' \subseteq Waiting
    BY Zenon DEF Waiting, OnWire
  <2> QED  BY <2>1, SetsFinite, FS_Subset
<1>3. WireInv'
  BY Zenon DEF WireInv, SeqOf
<1> QED  BY <1>1, <1>2, <1>3

(* A packet is lost, or comes damaged.                                     *)
LEMMA FaultOrder ==
    ASSUME CacheTypeOK, CacheTypeOK', NetTypeOK, NetTypeOK', FewFaults,
           OrderInv, Lose \/ Damaged
    PROVE  OrderInv'
<1> SUFFICES ASSUME ~astray'
             PROVE  WireInv' /\ (Untouched' \/ \E m \in Int : Awaits(m)')
  BY Zenon DEF OrderInv
<1>1. PICK p \in wire : wire' = wire \ {p}
  BY Zenon DEF Lose, Damaged
<1>2. /\ faults' = faults + 1 /\ sent' = sent /\ base' = base
      /\ rtp_first' = rtp_first /\ rtp_seq' = rtp_seq /\ rtp_pkt' = rtp_pkt
      /\ is_first' = is_first /\ given' = given /\ ~astray
      /\ (tries' = tries \/ tries' = tries + 1)
  <2>1. CASE Lose
    BY <2>1, Zenon DEF Lose, cacheVars
  <2>2. CASE Damaged
    BY <2>2, Zenon DEF Damaged, NoPacket
  <2> QED  BY <2>1, <2>2
<1>3. WireInv /\ (Untouched \/ \E m \in Int : Awaits(m))
  BY <1>2, Zenon DEF OrderInv
<1>4. /\ \A m : FewMissing(m) => FewMissing(m)'
      /\ Cardinality(Waiting') <= Cardinality(Waiting)
      /\ WireInv'
  BY <1>1, <1>2, <1>3, LostOne, Zenon
<1>5. /\ faults \in Int /\ tries \in Int /\ tries' <= tries + 1 /\ tries' \in Int
      /\ sent \in Int /\ sent <= sent'
  BY <1>2, NetworkAssumption, SlotsAssumption DEF CacheTypeOK, NetTypeOK
<1>6. CASE Untouched
  <2>1. Expected' = Expected
    BY <1>2, Zenon DEF Expected
  <2>2. is_first \/ Expected' * (MaxPackets - 3) + tries' <= faults'
    <3>1. Expected * (MaxPackets - 3) \in Int
      BY SlotsAssumption, SeqAssumption DEF CacheTypeOK, Expected
    <3>2. is_first \/ Expected * (MaxPackets - 3) + tries <= faults
      BY <1>6, Zenon DEF Untouched
    <3> DEFINE x == Expected * (MaxPackets - 3)
    <3> HIDE DEF x
    <3>3. x + tries <= faults => x + tries' <= faults'
      BY <1>2, <1>5, <3>1 DEF x
    <3> QED  BY <2>1, <3>2, <3>3 DEF x
  <2>3. Untouched'
    BY <1>2, <1>4, <1>6, <2>2, Zenon DEF Untouched
  <2> QED  BY <1>4, <2>3
<1>7. ASSUME NEW m \in Int, Awaits(m)
      PROVE  Awaits(m)'
  <2>1. FewMissing(m)'
    BY <1>4, <1>7, Zenon DEF Awaits
  <2>2. NotFarAhead(m)'
    <3>1. Cardinality(Waiting) \in Int /\ Cardinality(Waiting') \in Int
      BY WaitingCounts
    <3>2. tries' + Cardinality(Waiting') + faults
              <= tries + Cardinality(Waiting) + faults'
      BY <1>2, <1>4, <1>5, <3>1
    <3>3. NotFarAhead(m)
      BY <1>7, Zenon DEF Awaits
    <3> QED  BY <1>2, <3>2, <3>3, StaysNear, Zenon
  <2> QED  BY <1>2, <1>5, <1>7, <2>1, <2>2, AwaitsStays, Zenon
<1> QED  BY <1>3, <1>4, <1>6, <1>7

(* One more is sent.                                                       *)
LEMMA SendOrder ==
    ASSUME CacheTypeOK, CacheTypeOK', NetTypeOK, NetTypeOK', FewFaults,
           OrderInv, Send
    PROVE  OrderInv'
<1> SUFFICES ASSUME ~astray'
             PROVE  WireInv' /\ (Untouched' \/ \E m \in Int : Awaits(m)')
  BY Zenon DEF OrderInv
<1> DEFINE q == [n |-> sent + 1, seq |-> (base + (sent + 1)) % SeqRange]
<1>1. /\ sent' = sent + 1 /\ \A p \in wire : sent + 1 - p.n < Window
      /\ wire' = wire \cup {q}
      /\ rtp_first' = rtp_first /\ rtp_seq' = rtp_seq /\ rtp_pkt' = rtp_pkt
      /\ is_first' = is_first /\ tries' = tries /\ base' = base
      /\ faults' = faults /\ given' = given /\ ~astray
  BY DEF Send, cacheVars
<1>2. q.n = sent + 1 /\ q.seq = SeqOf(sent + 1)
  BY DEF SeqOf
<1> HIDE DEF q
<1>3. WireInv /\ (Untouched \/ \E m \in Int : Awaits(m))
  BY <1>1, Zenon DEF OrderInv
<1>4. /\ sent \in Nat /\ Window \in Nat /\ faults \in Nat
      /\ Window > 0 /\ tries \in Nat
      /\ MaxPackets \in Nat /\ MaxPackets > 3
  BY OrderBasics, Zenon DEF FewFaults
<1>5. \A n : OnWire(n)' <=> OnWire(n) \/ n = sent + 1
  BY <1>1, <1>2, Zenon DEF OnWire
<1>6. \A m : Missing(m)' \subseteq Missing(m)
  <2>1. \A n : n \in 1 .. sent + 1 /\ n # sent + 1 => n \in 1 .. sent
    BY <1>4
  <2>2. \A n : Cached(n)' <=> Cached(n)
    BY <1>1, Zenon DEF Cached
  <2> QED  BY <1>1, <1>5, <2>1, <2>2, Zenon DEF Missing
<1>7. \A m : FewMissing(m) => FewMissing(m)'
  <2>1. faults <= faults'
    BY <1>1, <1>4
  <2> QED  BY <1>6, <2>1, MissingNoMore, Zenon
<1>8. Cardinality(Waiting') <= Cardinality(Waiting) + 1
  <2>1. Waiting' \subseteq Waiting \cup {sent + 1} /\ sent + 1 \notin Waiting
    <3>1. \A n : n \in 1 .. sent + 1 => n \in 1 .. sent \/ n = sent + 1
      BY <1>4
    <3>2. sent + 1 \notin 1 .. sent
      BY <1>4
    <3> QED  BY <1>1, <1>5, <3>1, <3>2, Zenon DEF Waiting
  <2>2. /\ IsFiniteSet(Waiting \cup {sent + 1})
        /\ Cardinality(Waiting \cup {sent + 1}) = Cardinality(Waiting) + 1
    BY <2>1, SetsFinite, FS_AddElement
  <2> QED  BY <2>1, <2>2, FS_Subset
<1>9. WireInv'
  <2> SUFFICES ASSUME NEW p \in wire'
               PROVE  /\ p.seq = (base' + p.n) % SeqRange /\ p.n <= sent'
                      /\ sent' - p.n < Window
    BY Zenon DEF WireInv, SeqOf
  <2>1. CASE p \in wire
    <3>1. p.n \in Nat /\ p.n <= sent /\ p.seq = SeqOf(p.n)
      BY <1>3, <2>1, PacketNumber, Zenon DEF WireInv
    <3> QED  BY <1>1, <1>4, <2>1, <3>1 DEF SeqOf
  <2>2. CASE p = q
    BY <1>1, <1>2, <1>4, <2>2 DEF SeqOf
  <2> QED  BY <1>1, <2>1, <2>2
<1>10. CASE Untouched
  <2>1. FewMissing(1)' /\ Expected' = Expected
    BY <1>1, <1>7, <1>10, Zenon DEF Untouched, Expected
  <2>2. Untouched'
    BY <1>1, <1>10, <2>1, Zenon DEF Untouched
  <2> QED  BY <1>9, <2>2
<1>11. ASSUME NEW m \in Int, Awaits(m)
       PROVE  Awaits(m)'
  <2>1. FewMissing(m)'
    BY <1>7, <1>11, Zenon DEF Awaits
  <2>2. NotFarAhead(m)'
    <3>1. Cardinality(Waiting) \in Int /\ Cardinality(Waiting') \in Int
      BY WaitingCounts
    <3> DEFINE K == MaxPackets - 3
               a == m - (sent + 1) - 1
    <3>2. m <= sent \/ (m - sent - 1) * K + tries + Cardinality(Waiting)
                          <= faults + Window
      BY <1>11, Zenon DEF Awaits, NotFarAhead
    <3>3. /\ (m - sent - 1) * K = a * K + K
          /\ a * K \in Int /\ K \in Int /\ K >= 1
      <4>1. a \in Int /\ m - sent - 1 = a + 1 /\ K \in Int /\ K >= 1
        BY <1>4
      <4> HIDE DEF a, K
      <4> QED  BY <4>1
    <3>4. m <= sent + 1 \/ a * K + tries + Cardinality(Waiting')
                               <= faults + Window
      <4> DEFINE x == a * K
      <4>1. m <= sent \/ x + K + tries + Cardinality(Waiting)
                             <= faults + Window
        BY <3>2, <3>3
      <4> HIDE DEF x, a, K
      <4>2. x \in Int /\ K \in Int /\ K >= 1
        BY <3>3 DEF x
      <4>3. m <= sent + 1 \/ x + tries + Cardinality(Waiting')
                                 <= faults + Window
        BY <1>4, <1>8, <3>1, <4>1, <4>2
      <4> QED  BY <4>3 DEF x
    <3> QED  BY <1>1, <3>4 DEF NotFarAhead
  <2>3. sent <= sent'
    BY <1>1, <1>4
  <2> QED  BY <1>1, <1>11, <2>1, <2>2, <2>3, AwaitsStays, Zenon
<1> QED  BY <1>3, <1>9, <1>10, <1>11

-----------------------------------------------------------------------------
(* Steps that give a packet, or go on without one.                         *)

(* A given packet ends what is known to be in order.                       *)
LEMMA AscendingMore ==
    ASSUME given \in Seq(1 .. Packets), Packets \in Nat,
           NEW m \in Int, Ascending(m), NEW n \in Int, m <= n,
           given' = Append(given, n), NEW m2 \in Int, m2 = n + 1
    PROVE  Ascending(m2)'
<1>1. /\ Len(given) \in Nat /\ Len(given') = Len(given) + 1
      /\ given'[Len(given) + 1] = n
      /\ \A i \in 1 .. Len(given) : given'[i] = given[i] /\ given[i] \in Int
  BY Packets \in Nat
<1>2. \A i \in 1 .. Len(given') - 1 : given'[i] < given'[i + 1]
  <2> TAKE i \in 1 .. Len(given') - 1
  <2>1. i \in 1 .. Len(given)
    BY <1>1
  <2>2. CASE i = Len(given)
    <3>1. given # <<>> /\ given[Len(given)] < m
      BY <2>1, <2>2 DEF Ascending
    <3> QED  BY <1>1, <2>1, <2>2, <3>1
  <2>3. CASE i # Len(given)
    <3>1. i \in 1 .. Len(given) - 1 /\ i + 1 \in 1 .. Len(given)
      BY <1>1, <2>1, <2>3
    <3> QED  BY <1>1, <2>1, <3>1 DEF Ascending
  <2> QED  BY <2>2, <2>3
<1>3. given'[Len(given')] < m2
  BY <1>1
<1> QED  BY <1>2, <1>3, Zenon DEF Ascending

(* At the end of the stream nothing has been read yet.                     *)
LEMMA NearTheEnd ==
    ASSUME CacheTypeOK, NetTypeOK, NetTypeOK', FewFaults, NEW m \in Int,
           m <= sent + 1, sent' = sent, tries' = 0,
           Cardinality(Waiting') <= faults' + Window
    PROVE  NotFarAhead(m)'
<1>1. /\ sent \in Nat /\ MaxPackets - 3 \in Nat
      /\ Cardinality(Waiting') \in Nat
  BY OrderBasics, WaitingCounts
<1>2. CASE m <= sent
  BY <1>2 DEF NotFarAhead
<1>3. CASE ~(m <= sent)
  <2>1. m - sent - 1 = 0
    BY <1>1, <1>3
  <2>2. (m - sent - 1) * (MaxPackets - 3) = 0
    BY <1>1, <2>1
  <2> QED  BY <1>1, <2>2 DEF NotFarAhead
<1> QED  BY <1>2, <1>3

(* A packet is given for which the cache is emptied, or which comes before *)
(* anything is in it.                                                      *)
LEMMA FreshAwaits ==
    ASSUME CacheTypeOK, NetTypeOK, CacheTypeOK', NetTypeOK', FewFaults, WireInv,
           NEW p \in wire, Reads(p), Feed(p), ~astray',
           NEW m \in Int, m <= p.n, FewMissing(m), Ascending(m),
           \A i \in Slots : rtp_pkt[i] <= p.n,
           rtp_seq'[rtp_first'] = Succ(p.seq), \A i \in Slots : rtp_pkt'[i] = 0
    PROVE  WireInv' /\ Awaits(p.n + 1)'
<1>1. /\ sent' = sent /\ base' = base /\ faults <= faults'
      /\ p.n \in 1 .. Packets /\ p.seq = SeqOf(p.n) /\ p.n <= sent
      /\ p.n \in Nat
      /\ \A n : OnWire(n) /\ n # p.n => OnWire(n)'
      /\ Cardinality(Waiting') + 1 + faults <= Cardinality(Waiting) + faults'
      /\ WireInv'
  BY ReadsAny, Zenon
<1>2. /\ MaxPackets \in Nat /\ MaxPackets > 3 /\ sent \in Nat /\ Window \in Nat
      /\ faults \in Nat /\ \A i \in Slots : rtp_pkt[i] \in Nat
  BY OrderBasics, Zenon
<1>3. given' = Append(given, p.n) /\ tries' = 0 /\ is_first' = FALSE
  BY DEF Feed
<1>4. Expected' = SeqOf(p.n + 1)'
  <2>1. SeqOf(p.n + 1) = Succ(SeqOf(p.n))
    BY <1>1, SeqOfNext
  <2> QED  BY <1>1, <2>1, Zenon DEF Expected, SeqOf
<1>5. \A k \in Slots : rtp_pkt'[Slot(rtp_first', k)] = 0
  <2> TAKE k \in Slots
  <2>1. k \in 0 .. MaxPackets /\ rtp_first' \in Slots
    BY <1>2 DEF Slots, CacheTypeOK
  <2> QED  BY <2>1, SlotIs
<1>6. FewMissing(p.n + 1)'
  <2>1. Missing(p.n + 1)' \subseteq Missing(m)
    <3> SUFFICES ASSUME NEW n \in 1 .. sent, p.n + 1 <= n, ~OnWire(n)'
                 PROVE  n \in Missing(m)
      BY <1>1, Zenon DEF Missing
    <3>1. m <= n /\ n # p.n /\ ~(n <= p.n)
      BY <1>1
    <3>2. ~OnWire(n) /\ ~Cached(n)
      BY <1>1, <3>1, Zenon DEF Cached
    <3> QED  BY <3>1, <3>2, Zenon DEF Missing
  <2> QED  BY <1>1, <2>1, MissingNoMore, Zenon
<1>7. NotFarAhead(p.n + 1)'
  <2>1. Cardinality(Waiting') <= faults' + Window
    <3>1. /\ Cardinality(Waiting) <= Window /\ Cardinality(Waiting) \in Nat
          /\ Cardinality(Waiting') \in Nat /\ faults' \in Int
      BY WaitingFew, WaitingCounts, NetworkAssumption DEF NetTypeOK
    <3> QED  BY <1>1, <1>2, <3>1
  <2>2. p.n + 1 <= sent + 1 /\ p.n + 1 \in Int
    BY <1>1, <1>2
  <2> QED  BY <1>1, <1>3, <2>1, <2>2, NearTheEnd, Zenon
<1>8. Ascending(p.n + 1)'
  <2>1. given \in Seq(1 .. Packets) /\ Packets \in Nat
    BY NetworkAssumption DEF CacheTypeOK
  <2>2. p.n \in Int /\ p.n + 1 \in Int
    BY <1>1
  <2> QED  BY <1>3, <2>1, <2>2, AscendingMore, Zenon
<1>9. -MaxPackets < p.n + 1 /\ 0 <= sent'
  BY <1>1, <1>2
<1> QED  BY <1>1, <1>3, <1>4, <1>5, <1>6, <1>7, <1>8, <1>9, Zenon DEF Awaits

(* The cache is left to the slot after the k-th, which is empty then, as   *)
(* those before it are.                                                    *)
LEMMA MovedSlots ==
    ASSUME CacheTypeOK, CacheTypeOK', NetTypeOK, FewFaults,
           NEW m \in Int, Awaits(m),
           NEW k \in Slots, \A j \in 0 .. k - 1 : rtp_pkt[Slot(rtp_first, j)] = 0,
           rtp_first' = Slot(rtp_first, k + 1), sent' = sent,
           rtp_pkt' = [rtp_pkt EXCEPT ![Slot(rtp_first, k)] = 0]
    PROVE  /\ \A j \in Slots :
                  rtp_pkt'[Slot(rtp_first', j)] \in {0, m + k + 1 + j}
           /\ \A i \in Slots : rtp_pkt'[i] <= sent'
           /\ \A n : Cached(n) /\ n # 0 => Cached(n)' \/ n = m + k
<1>1. /\ MaxPackets \in Nat /\ MaxPackets > 3 /\ sent \in Nat
      /\ rtp_first \in Slots /\ k \in 0 .. MaxPackets - 1
      /\ \A j \in Slots : Slot(rtp_first, j) \in Slots
      /\ \A j \in Slots : j \in 0 .. MaxPackets - 1
  BY OrderBasics, Zenon
<1>2. /\ Slot(rtp_first, k) \in Slots /\ k + 1 \in 0 .. MaxPackets /\ k \in Nat
      /\ \A i \in Slots : rtp_pkt'[i] = IF i = Slot(rtp_first, k) THEN 0
                                                                 ELSE rtp_pkt[i]
  BY <1>1 DEF CacheTypeOK
<1>3. \A j \in Slots : rtp_pkt'[Slot(rtp_first', j)] \in {0, m + k + 1 + j}
  <2> TAKE j \in Slots
  <2>0. j \in 0 .. MaxPackets - 1
    BY <1>1
  <2> DEFINE c == k + 1 + j
  <2>1. CASE c < MaxPackets
    <3>1. c \in Slots /\ c # k
      BY <1>1, <2>0, <2>1 DEF Slots
    <3>2. Slot(rtp_first', j) = Slot(rtp_first, c)
      BY <1>1, <1>2, <2>0, <2>1, SlotSum
    <3> HIDE DEF c
    <3>3. rtp_pkt'[Slot(rtp_first, c)] = rtp_pkt[Slot(rtp_first, c)]
      BY <1>1, <1>2, <3>1, SlotsDiffer
    <3>4. rtp_pkt[Slot(rtp_first, c)] \in {0, m + c}
      BY <3>1, Zenon DEF Awaits
    <3>5. m + c = m + k + 1 + j
      BY <1>2, <2>0 DEF c
    <3> QED  BY <3>2, <3>3, <3>4, <3>5, Zenon
  <2>2. CASE ~(c < MaxPackets)
    <3> DEFINE d == c - MaxPackets
    <3>1. d \in Slots /\ (d \in 0 .. k - 1 \/ d = k)
      BY <1>1, <2>0, <2>2 DEF Slots
    <3>2. Slot(rtp_first', j) = Slot(rtp_first, d)
      BY <1>1, <1>2, <2>0, <2>2, SlotSum
    <3> HIDE DEF d
    <3>3. rtp_pkt'[Slot(rtp_first, d)] = 0
      BY <1>1, <1>2, <3>1
    <3> QED  BY <3>2, <3>3
  <2> QED  BY <2>1, <2>2
<1>4. \A i \in Slots : rtp_pkt'[i] <= sent'
  <2>1. 0 <= sent
    BY <1>1
  <2> QED  BY <1>2, <2>1, Zenon DEF Awaits
<1>5. ASSUME NEW n, Cached(n), n # 0, ~Cached(n)'
      PROVE  n = m + k
  <2>1. PICK i \in Slots : rtp_pkt[i] = n
    BY <1>5, Zenon DEF Cached
  <2>2. i = Slot(rtp_first, k)
    BY <1>2, <1>5, <2>1, Zenon DEF Cached
  <2> QED  BY <1>5, <2>1, <2>2, Zenon DEF Awaits
<1> QED  BY <1>3, <1>4, <1>5, Zenon

(* Packet m + k, the first there is, is given.                             *)
LEMMA GivesAwaits ==
    ASSUME CacheTypeOK, NetTypeOK, CacheTypeOK', NetTypeOK', FewFaults,
           NEW m \in Int, Awaits(m),
           NEW k \in Slots, \A j \in 0 .. k - 1 : rtp_pkt[Slot(rtp_first, j)] = 0,
           m + k <= sent, sent' = sent, base' = base, faults <= faults',
           \A n : OnWire(n) /\ n # m + k => OnWire(n)',
           Cardinality(Waiting') <= faults' + Window,
           rtp_first' = Slot(rtp_first, k + 1),
           rtp_pkt' = [rtp_pkt EXCEPT ![Slot(rtp_first, k)] = 0],
           rtp_seq'[rtp_first'] = SeqOf(m + k + 1),
           given' = Append(given, m + k), tries' = 0, is_first' = FALSE
    PROVE  Awaits(m + k + 1)'
<1>1. /\ k \in Nat /\ MaxPackets \in Nat /\ sent \in Nat /\ -MaxPackets < m
  <2>1. k \in 0 .. MaxPackets - 1 /\ MaxPackets \in Nat /\ sent \in Nat
    BY OrderBasics, Zenon
  <2> QED  BY <2>1 DEF Awaits
<1>2. /\ \A j \in Slots :
             rtp_pkt'[Slot(rtp_first', j)] \in {0, m + k + 1 + j}
      /\ \A i \in Slots : rtp_pkt'[i] <= sent'
      /\ \A n : Cached(n) /\ n # 0 => Cached(n)' \/ n = m + k
  BY MovedSlots, Zenon
<1>3. Expected' = SeqOf(m + k + 1)'
  BY Zenon DEF Expected, SeqOf
<1>4. FewMissing(m + k + 1)'
  <2>1. Missing(m + k + 1)' \subseteq Missing(m)
    <3> SUFFICES ASSUME NEW n \in 1 .. sent, m + k + 1 <= n,
                        ~OnWire(n)', ~Cached(n)'
                 PROVE  n \in Missing(m)
      BY Zenon DEF Missing
    <3>1. m <= n /\ n # m + k /\ n # 0
      BY <1>1
    <3> QED  BY <1>2, <3>1, Zenon DEF Missing
  <2>2. FewMissing(m)
    BY Zenon DEF Awaits
  <2> QED  BY <2>1, <2>2, MissingNoMore, Zenon
<1>5. m + k + 1 \in Int /\ m + k + 1 <= sent + 1 /\ -MaxPackets < m + k + 1
      /\ m + k \in Int /\ m <= m + k
  BY <1>1
<1>6. NotFarAhead(m + k + 1)'
  BY <1>5, NearTheEnd, Zenon
<1>7. Ascending(m + k + 1)'
  <2>1. given \in Seq(1 .. Packets) /\ Packets \in Nat
    BY NetworkAssumption DEF CacheTypeOK
  <2>2. Ascending(m)
    BY Zenon DEF Awaits
  <2> QED  BY <1>5, <2>1, <2>2, AscendingMore, Zenon
<1> QED  BY <1>2, <1>3, <1>4, <1>5, <1>6, <1>7, Zenon DEF Awaits

(* There is none, and get_next no longer waits for packet m.               *)
LEMMA SkipsAwaits ==
    ASSUME CacheTypeOK, NetTypeOK, CacheTypeOK', NetTypeOK', FewFaults, WireInv,
           NEW m \in Int, Awaits(m), ~Looping, rtp_pkt[rtp_first] = 0,
           UNCHANGED <<wire, sent, base, faults>>,
           rtp_first' = Slot(rtp_first, 1), rtp_pkt' = rtp_pkt,
           rtp_seq'[rtp_first'] = SeqOf(m + 1),
           given' = given, tries' = 0, is_first' = is_first
    PROVE  Awaits(m + 1)'
<1>1. /\ MaxPackets \in Nat /\ MaxPackets > 3 /\ MaxPackets - 3 \in Nat
      /\ sent \in Nat /\ faults \in Nat /\ Window \in Nat
      /\ tries \in Nat /\ tries <= MaxPackets - 3
      /\ rtp_first \in Slots /\ 0 \in Slots /\ Slot(rtp_first, 0) = rtp_first
      /\ Cardinality(Waiting) \in Nat /\ Cardinality(Waiting) <= Window
  BY OrderBasics, WaitingFew, SetsFinite, Zenon
<1>2. /\ 0 + 1 = 1 /\ m + 0 + 1 = m + 1 /\ m + 0 = m /\ 0 .. 0 - 1 = {}
      /\ \A j \in Slots : m + 0 + 1 + j = m + 1 + j
  BY <1>1 DEF Slots
<1>3. rtp_pkt' = [rtp_pkt EXCEPT ![Slot(rtp_first, 0)] = 0]
  BY <1>1 DEF CacheTypeOK
<1>4. /\ \A j \in Slots :
             rtp_pkt'[Slot(rtp_first', j)] \in {0, m + 0 + 1 + j}
      /\ \A i \in Slots : rtp_pkt'[i] <= sent'
  <2>1. \A j \in 0 .. 0 - 1 : rtp_pkt[Slot(rtp_first, j)] = 0
    BY <1>2
  <2>2. rtp_first' = Slot(rtp_first, 0 + 1)
    BY <1>2
  <2> QED  BY <1>1, <1>3, <2>1, <2>2, MovedSlots, Zenon
<1>5. /\ \A n : OnWire(n)' <=> OnWire(n)
      /\ \A n : Cached(n)' <=> Cached(n)
  BY Zenon DEF OnWire, Cached
<1>6. FewMissing(m + 1)'
  <2>1. Missing(m + 1)' \subseteq Missing(m)
    <3> SUFFICES ASSUME NEW n \in 1 .. sent, m + 1 <= n,
                        ~OnWire(n)', ~Cached(n)'
                 PROVE  n \in Missing(m)
      BY Zenon DEF Missing
    <3>1. m <= n
      BY <1>1
    <3> QED  BY <1>5, <3>1, Zenon DEF Missing
  <2>2. FewMissing(m)
    BY Zenon DEF Awaits
  <2>3. faults <= faults'
    BY <1>1
  <2> QED  BY <2>1, <2>2, <2>3, MissingNoMore, Zenon
<1>7. Waiting' = Waiting
  BY <1>5, Zenon DEF Waiting
<1>8. NotFarAhead(m + 1)'
  <2>1. CASE m <= sent
    <3>1. m + 1 \in Int /\ m + 1 <= sent + 1
      BY <1>1, <2>1
    <3>2. Cardinality(Waiting') <= faults' + Window
      BY <1>1, <1>7
    <3> QED  BY <3>1, <3>2, NearTheEnd, Zenon
  <2>2. CASE ~(m <= sent)
    <3> DEFINE K == MaxPackets - 3
               a == m - sent - 1
    <3>1. a * K + tries + Cardinality(Waiting) <= faults + Window
      BY <2>2, Zenon DEF Awaits, NotFarAhead
    <3>2. tries = K
      BY <1>1 DEF Looping
    <3>3. (m + 1) - sent - 1 = a + 1 /\ a \in Int /\ K \in Int
      BY <1>1
    <3>4. ((m + 1) - sent - 1) * K = a * K + K /\ a * K \in Int
      <4> HIDE DEF a, K
      <4> QED  BY <3>3
    <3>5. ((m + 1) - sent - 1) * K + 0 + Cardinality(Waiting) <= faults + Window
      <4> DEFINE x == a * K
                 y == ((m + 1) - sent - 1) * K
      <4>1. y = x + K /\ x \in Int /\ x + K + Cardinality(Waiting) <= faults + Window
        BY <3>1, <3>2, <3>4
      <4> HIDE DEF x, y, a, K
      <4>2. y + 0 + Cardinality(Waiting) <= faults + Window
        BY <1>1, <3>3, <4>1
      <4> QED  BY <4>2 DEF y
    <3> QED  BY <1>7, <3>5, Zenon DEF NotFarAhead
  <2> QED  BY <2>1, <2>2
<1>9. Ascending(m + 1)'
  <2>1. given \in Seq(1 .. Packets) /\ Packets \in Nat
    BY NetworkAssumption DEF CacheTypeOK
  <2>2. given # <<>> => given[Len(given)] \in Int /\ given[Len(given)] < m
    BY <2>1 DEF Awaits, Ascending
  <2>3. given # <<>> => given[Len(given)] < m + 1
    BY <2>2
  <2> QED  BY <2>3, Zenon DEF Awaits, Ascending
<1>10. Expected' = SeqOf(m + 1)' /\ ~is_first'
  BY Zenon DEF Expected, SeqOf, Awaits
<1>11. -MaxPackets < m + 1
  BY <1>1 DEF Awaits
<1> QED  BY <1>2, <1>4, <1>6, <1>8, <1>9, <1>10, <1>11, Zenon DEF Awaits

-----------------------------------------------------------------------------
(* The cache, whose next packet is known.                                  *)

(* It comes, and is given.                                                 *)
LEMMA AwaitsInSequence ==
    ASSUME CacheTypeOK, NetTypeOK, CacheTypeOK', NetTypeOK', FewFaults, WireInv,
           NEW m \in Int, Awaits(m), InSequence, ~astray'
    PROVE  WireInv' /\ Awaits(m + 1)'
<1>1. PICK p \in wire :
          /\ Reads(p) /\ (NewSeq(p) = 0 \/ is_first) /\ Feed(p)
          /\ rtp_first' = SlotAt(1) /\ rtp_pkt' = rtp_pkt
          /\ rtp_seq' = [rtp_seq EXCEPT ![SlotAt(1)] = Succ(p.seq)]
  BY Zenon DEF InSequence
<1>2. /\ ~Misjudged(p) /\ Looping
      /\ sent' = sent /\ base' = base /\ faults <= faults'
      /\ p.seq = SeqOf(p.n) /\ p.n <= sent /\ p.n \in Nat
      /\ \A n : OnWire(n) /\ n # p.n => OnWire(n)'
      /\ Cardinality(Waiting') + 1 + faults <= Cardinality(Waiting) + faults'
      /\ WireInv'
  BY <1>1, ReadsAny, Zenon
<1>3. /\ MaxPackets \in Nat /\ MaxPackets > 3 /\ Window \in Nat /\ faults \in Nat
      /\ rtp_first \in Slots /\ 0 \in Slots /\ Slot(rtp_first, 0) = rtp_first
      /\ 1 \in 0 .. MaxPackets /\ 0 .. 0 - 1 = {} /\ 0 + 1 = 1
      /\ m + 0 = m /\ m + 0 + 1 = m + 1
  BY OrderBasics
<1>4. p.n = m
  <2>1. NewSeq(p) = p.n - m
    BY <1>2, AwaitsReads, Zenon
  <2>2. NewSeq(p) = 0
    BY <1>1, Zenon DEF Awaits
  <2> QED  BY <1>2, <2>1, <2>2
<1>5. rtp_first' = Slot(rtp_first, 1) /\ Slot(rtp_first, 1) \in Slots
  <2>1. Slot(rtp_first, 1) \in Slots
    BY <1>3, SlotIs
  <2> QED  BY <1>1, <2>1, Zenon DEF SlotAt, Slot
<1>6. rtp_pkt' = [rtp_pkt EXCEPT ![rtp_first] = 0]
  BY <1>1, <1>2 DEF CacheTypeOK, Looping
<1>7. rtp_seq'[rtp_first'] = SeqOf(m + 1)
  <2>1. rtp_seq'[rtp_first'] = Succ(p.seq)
    BY <1>1, <1>5 DEF CacheTypeOK
  <2>2. SeqOf(m + 1) = Succ(SeqOf(m))
    BY SeqOfNext
  <2> QED  BY <1>2, <1>4, <2>1, <2>2
<1>8. Cardinality(Waiting') <= faults' + Window
  <2>1. /\ Cardinality(Waiting) <= Window /\ Cardinality(Waiting) \in Nat
        /\ Cardinality(Waiting') \in Nat /\ faults' \in Int
    BY WaitingFew, WaitingCounts, NetworkAssumption DEF NetTypeOK
  <2> QED  BY <1>2, <1>3, <2>1
<1>9. given' = Append(given, m) /\ tries' = 0 /\ is_first' = FALSE
  BY <1>1, <1>4, Zenon DEF Feed
<1>10. \A j \in 0 .. 0 - 1 : rtp_pkt[Slot(rtp_first, j)] = 0
  BY <1>3
<1>11. Awaits(m + 0 + 1)'
  <2>1. /\ m + 0 <= sent /\ \A n : OnWire(n) /\ n # m + 0 => OnWire(n)'
        /\ rtp_first' = Slot(rtp_first, 0 + 1)
        /\ rtp_pkt' = [rtp_pkt EXCEPT ![Slot(rtp_first, 0)] = 0]
        /\ rtp_seq'[rtp_first'] = SeqOf(m + 0 + 1)
        /\ given' = Append(given, m + 0)
    BY <1>2, <1>3, <1>4, <1>5, <1>6, <1>7, <1>9, Zenon
  <2> QED  BY <1>2, <1>3, <1>8, <1>9, <1>10, <2>1, GivesAwaits, Zenon
<1>12. Awaits(m + 1)'
  BY <1>3, <1>11, Zenon
<1> QED  BY <1>2, <1>12

(* One comes for which the cache has no place.                             *)
LEMMA AwaitsOverrun ==
    ASSUME CacheTypeOK, NetTypeOK, CacheTypeOK', NetTypeOK', FewFaults, WireInv,
           NEW m \in Int, Awaits(m), Overrun, ~astray'
    PROVE  WireInv' /\ \E m2 \in Int : Awaits(m2)'
<1>1. PICK p \in wire :
          /\ Reads(p) /\ NewSeq(p) > MaxPackets /\ CacheReset(p.seq) /\ Feed(p)
  BY Zenon DEF Overrun
<1>2. ~Misjudged(p) /\ p.n \in Nat
  BY <1>1, ReadsAny, Zenon
<1>3. NewSeq(p) = p.n - m
  BY <1>2, AwaitsReads, Zenon
<1>4. /\ MaxPackets \in Nat /\ rtp_first \in Slots
      /\ \A k \in Slots : k \in 0 .. MaxPackets - 1
      /\ \A i \in Slots : rtp_pkt[i] \in Nat
  BY OrderBasics, Zenon
<1>5. m <= p.n
  BY <1>1, <1>2, <1>3, <1>4
<1>6. \A i \in Slots : rtp_pkt[i] <= p.n
  <2> TAKE i \in Slots
  <2>1. PICK k \in Slots : Slot(rtp_first, k) = i
    BY <1>4, EverySlot, Zenon
  <2>2. rtp_pkt[i] = 0 \/ rtp_pkt[i] = m + k
    BY <2>1 DEF Awaits
  <2>3. k \in 0 .. MaxPackets - 1
    BY <1>4
  <2> QED  BY <1>1, <1>2, <1>3, <1>4, <2>2, <2>3
<1>7. /\ rtp_first' = 0 /\ \A i \in Slots : rtp_pkt'[i] = 0
      /\ rtp_seq'[rtp_first'] = Succ(p.seq)
  <2>1. 0 \in Slots
    BY OrderBasics, Zenon
  <2> QED  BY <1>1, <2>1 DEF CacheReset, CacheTypeOK
<1>8. FewMissing(m) /\ Ascending(m)
  BY Zenon DEF Awaits
<1>9. WireInv' /\ Awaits(p.n + 1)'
  BY <1>1, <1>5, <1>6, <1>7, <1>8, FreshAwaits, Zenon
<1>10. p.n + 1 \in Int
  BY <1>2
<1> QED  BY <1>9, <1>10, Zenon

(* None is so old that the stream seems to begin anew.                     *)
LEMMA AwaitsNoUnderrun ==
    ASSUME CacheTypeOK, NetTypeOK, FewFaults, WireInv,
           NEW m \in Int, Awaits(m), Underrun, ~astray'
    PROVE  FALSE
<1>1. PICK p \in wire : Reads(p) /\ ~TooOld(p)
  BY Zenon DEF Underrun
<1>2. ~Misjudged(p) /\ p.n \in Nat
  BY <1>1, ReadsAny, Zenon
<1>3. NewSeq(p) = p.n - m /\ m - p.n < 3 * MaxPackets /\ MaxPackets \in Nat
  BY <1>2, AwaitsReads, OrderBasics, Zenon
<1> QED  BY <1>1, <1>2, <1>3 DEF TooOld

(* One from before comes late.                                             *)
LEMMA AwaitsDropOld ==
    ASSUME CacheTypeOK, NetTypeOK, CacheTypeOK', NetTypeOK', FewFaults, WireInv,
           NEW m \in Int, Awaits(m), DropOld, ~astray'
    PROVE  WireInv' /\ Awaits(m)'
<1>1. PICK p \in wire :
          /\ Reads(p) /\ NewSeq(p) < 0 /\ NoPacket
          /\ rtp_first' = rtp_first /\ rtp_seq' = rtp_seq /\ rtp_pkt' = rtp_pkt
  BY Zenon DEF DropOld
<1>2. /\ ~Misjudged(p) /\ sent' = sent /\ base' = base /\ faults <= faults'
      /\ p.n \in Nat
      /\ \A n : OnWire(n) /\ n # p.n => OnWire(n)'
      /\ Cardinality(Waiting') + 1 + faults <= Cardinality(Waiting) + faults'
      /\ WireInv'
  BY <1>1, ReadsAny, Zenon
<1>3. ~(m <= p.n)
  <2>1. NewSeq(p) = p.n - m
    BY <1>2, AwaitsReads, Zenon
  <2> QED  BY <1>1, <1>2, <2>1
<1>4. given' = given /\ is_first' = is_first /\ tries' = tries + 1
  BY <1>1, Zenon DEF NoPacket
<1>5. FewMissing(m)'
  <2>1. \A n : Cached(n)' <=> Cached(n)
    BY <1>1, Zenon DEF Cached
  <2>2. Missing(m)' \subseteq Missing(m)
    BY <1>2, <1>3, <2>1, Zenon DEF Missing
  <2>3. FewMissing(m)
    BY Zenon DEF Awaits
  <2> QED  BY <1>2, <2>2, <2>3, MissingNoMore, Zenon
<1>6. NotFarAhead(m)'
  <2>1. /\ Cardinality(Waiting) \in Int /\ Cardinality(Waiting') \in Int
        /\ tries \in Int /\ faults \in Int /\ faults' \in Int
    <3>1. faults' \in Int
      BY NetworkAssumption DEF NetTypeOK
    <3> QED  BY <3>1, WaitingCounts, OrderBasics
  <2>2. tries' + Cardinality(Waiting') + faults
            <= tries + Cardinality(Waiting) + faults'
    BY <1>2, <1>4, <2>1
  <2>3. NotFarAhead(m)
    BY Zenon DEF Awaits
  <2> QED  BY <1>2, <2>2, <2>3, StaysNear, Zenon
<1>7. sent <= sent'
  BY <1>2, OrderBasics
<1>8. Awaits(m)'
  BY <1>1, <1>2, <1>4, <1>5, <1>6, <1>7, AwaitsStays, Zenon
<1> QED  BY <1>2, <1>8

(* One from after it is cached.                                            *)
LEMMA AwaitsOutOfSequence ==
    ASSUME CacheTypeOK, NetTypeOK, CacheTypeOK', NetTypeOK', FewFaults, WireInv,
           NEW m \in Int, Awaits(m), OutOfSequence, ~astray'
    PROVE  WireInv' /\ Awaits(m)'
<1>1. PICK p \in wire :
          /\ Reads(p) /\ ~is_first /\ NewSeq(p) \in 1 .. MaxPackets
          /\ rtp_pkt' = [rtp_pkt EXCEPT ![SlotAt(NewSeq(p))] = p.n]
          /\ rtp_seq' = [rtp_seq EXCEPT ![SlotAt(NewSeq(p))] = p.seq]
          /\ NoPacket /\ rtp_first' = rtp_first
  BY Zenon DEF OutOfSequence
<1>2. /\ ~Misjudged(p) /\ sent' = sent /\ base' = base /\ faults <= faults'
      /\ p.n \in Nat /\ p.n <= sent
      /\ \A n : OnWire(n) /\ n # p.n => OnWire(n)'
      /\ Cardinality(Waiting') + 1 + faults <= Cardinality(Waiting) + faults'
      /\ WireInv'
  BY <1>1, ReadsAny, Zenon
<1>3. PICK d \in Slots : d = NewSeq(p) /\ d = p.n - m /\ d # 0
  <2>1. NewSeq(p) = p.n - m
    BY <1>2, AwaitsReads, Zenon
  <2>2. NewSeq(p) \in Slots /\ NewSeq(p) # 0
    BY <1>1, <1>2, JudgedRight, Zenon
  <2> QED  BY <2>1, <2>2
<1>4. /\ rtp_first \in Slots /\ 0 \in Slots /\ Slot(rtp_first, 0) = rtp_first
      /\ \A k \in Slots : Slot(rtp_first, k) \in Slots
      /\ d \in 0 .. MaxPackets - 1 /\ MaxPackets \in Nat
  BY OrderBasics, Zenon
<1>5. given' = given /\ is_first' = is_first /\ tries' = tries + 1
  BY <1>1, Zenon DEF NoPacket
<1>6. /\ \A k \in Slots : rtp_pkt'[Slot(rtp_first, k)]
                = IF k = d THEN p.n ELSE rtp_pkt[Slot(rtp_first, k)]
      /\ rtp_seq'[rtp_first] = rtp_seq[rtp_first]
      /\ \A i \in Slots : rtp_pkt'[i] = IF i = Slot(rtp_first, d)
                                        THEN p.n ELSE rtp_pkt[i]
  <2>1. SlotAt(NewSeq(p)) = Slot(rtp_first, d)
    BY <1>3 DEF SlotAt, Slot
  <2>2. \A k \in Slots : k # d => Slot(rtp_first, k) # Slot(rtp_first, d)
    BY <1>4, SlotsDiffer
  <2>3. /\ rtp_pkt' = [rtp_pkt EXCEPT ![Slot(rtp_first, d)] = p.n]
        /\ rtp_seq' = [rtp_seq EXCEPT ![Slot(rtp_first, d)] = p.seq]
    BY <1>1, <2>1, Zenon
  <2>4. rtp_first # Slot(rtp_first, d)
    BY <1>3, <1>4, <2>2
  <2>5. \A i \in Slots :
            /\ rtp_pkt'[i] = IF i = Slot(rtp_first, d) THEN p.n ELSE rtp_pkt[i]
            /\ i # Slot(rtp_first, d) => rtp_seq'[i] = rtp_seq[i]
    BY <2>3 DEF CacheTypeOK
  <2> QED  BY <1>4, <2>2, <2>4, <2>5, Zenon
<1>7. \A k \in Slots : rtp_pkt'[Slot(rtp_first', k)] \in {0, m + k}
  <2> TAKE k \in Slots
  <2>1. CASE k = d
    <3>1. p.n = m + k
      BY <1>2, <1>3, <1>4, <2>1
    <3> QED  BY <1>1, <1>6, <2>1, <3>1
  <2>2. CASE k # d
    BY <1>1, <1>6, <2>2, Zenon DEF Awaits
  <2> QED  BY <2>1, <2>2
<1>8. \A i \in Slots : rtp_pkt'[i] <= sent'
  BY <1>2, <1>6, Zenon DEF Awaits
<1>9. FewMissing(m)'
  <2>1. \A n : Cached(n) => Cached(n)' \/ n = 0 \/ n = p.n
    <3> SUFFICES ASSUME NEW n, Cached(n), ~Cached(n)', n # 0, n # p.n
                 PROVE  FALSE
      OBVIOUS
    <3>1. PICK i \in Slots : rtp_pkt[i] = n
      BY Zenon DEF Cached
    <3>2. i = Slot(rtp_first, d)
      BY <1>6, <3>1, Zenon DEF Cached
    <3>3. n = m + d
      BY <3>1, <3>2, Zenon DEF Awaits
    <3> QED  BY <1>2, <1>3, <1>4, <3>3
  <2>2. Cached(p.n)'
    BY <1>4, <1>6, Zenon DEF Cached
  <2>3. 0 \notin 1 .. sent
    BY OrderBasics
  <2>4. Missing(m)' \subseteq Missing(m)
    BY <1>2, <2>1, <2>2, <2>3, Zenon DEF Missing
  <2>5. FewMissing(m)
    BY Zenon DEF Awaits
  <2> QED  BY <1>2, <2>4, <2>5, MissingNoMore, Zenon
<1>10. NotFarAhead(m)'
  <2>1. m <= sent'
    BY <1>2, <1>3, <1>4, OrderBasics
  <2> QED  BY <2>1, Zenon DEF NotFarAhead
<1>11. /\ Expected' = Expected /\ SeqOf(m)' = SeqOf(m)
       /\ Ascending(m)' = Ascending(m)
  BY <1>1, <1>2, <1>5, <1>6, Zenon DEF Expected, SeqOf, Ascending
<1>12. Awaits(m)'
  BY <1>5, <1>7, <1>8, <1>9, <1>10, <1>11, Zenon DEF Awaits
<1> QED  BY <1>2, <1>12

(* The first of the cache is given, or get_next goes on without it.        *)
LEMMA AwaitsTakeNext ==
    ASSUME CacheTypeOK, NetTypeOK, CacheTypeOK', NetTypeOK', FewFaults, WireInv,
           FlagTypeOK, ~astray, Kept, NEW m \in Int, Awaits(m), TakeNext
    PROVE  WireInv' /\ \E m2 \in Int : Awaits(m2)'
<1>1. PICK k \in Slots : Skips(k) /\ Takes(k)
  BY Zenon DEF TakeNext
<1>2. /\ wire' = wire /\ sent' = sent /\ base' = base /\ faults' = faults
      /\ is_first' = is_first /\ tries' = 0 /\ ~Looping
  BY Zenon DEF TakeNext, netVars
<1>3. /\ MaxPackets \in Nat /\ sent \in Nat /\ faults \in Nat /\ Window \in Nat
      /\ rtp_first \in Slots /\ 0 \in Slots /\ Slot(rtp_first, 0) = rtp_first
      /\ k \in 0 .. MaxPackets - 1
      /\ Slot(rtp_first, k) \in Slots /\ SeqRange \in Nat
      /\ SeqRange > 6 * MaxPackets
      /\ Cardinality(Waiting) \in Nat /\ Cardinality(Waiting) <= Window
  BY OrderBasics, SetsFinite, WaitingFew, Zenon
<1>4. /\ SlotAt(k) = Slot(rtp_first, k) /\ SlotAt(k + 1) = Slot(rtp_first, k + 1)
      /\ Slot(rtp_first, k + 1) \in Slots
  <2>1. k + 1 \in 0 .. MaxPackets
    BY <1>3
  <2> QED  BY <1>3, <2>1, SlotIs DEF SlotAt, Slot
<1>5. /\ WireInv' /\ Waiting' = Waiting
      /\ \A n : OnWire(n)' <=> OnWire(n)
  BY <1>2, Zenon DEF WireInv, SeqOf, Waiting, OnWire
<1>6. /\ rtp_first' = Slot(rtp_first, k + 1)
      /\ rtp_pkt' = [rtp_pkt EXCEPT ![Slot(rtp_first, k)] = 0]
      /\ rtp_seq'[rtp_first'] = Succ(rtp_seq[Slot(rtp_first, k)])
      /\ given' = IF Empty(k) THEN given
                  ELSE Append(given, rtp_pkt[Slot(rtp_first, k)])
  BY <1>1, <1>4 DEF Takes, CacheTypeOK
<1>7. CASE ~Empty(k)
  <2>1. rtp_pkt[Slot(rtp_first, k)] = m + k /\ m + k <= sent
    <3>1. rtp_pkt[Slot(rtp_first, k)] # 0
      BY <1>4, <1>7, Zenon DEF Empty
    <3> QED  BY <1>3, <3>1, Zenon DEF Awaits
  <2>2. \A j \in 0 .. k - 1 : rtp_pkt[Slot(rtp_first, j)] = 0
    BY <1>1, Zenon DEF Skips, Empty, SlotAt, Slot
  <2>3. rtp_seq'[rtp_first'] = SeqOf(m + k + 1)
    <3>1. rtp_seq[Slot(rtp_first, k)] = (Expected + k) % SeqRange
      <4>1. rtp_pkt[Slot(rtp_first, k)] # 0
        BY <1>4, <1>7, Zenon DEF Empty
      <4> QED  BY <4>1, Zenon DEF Kept, Holds, Expected
    <3>2. (Expected + k) % SeqRange = SeqOf(m + k)
      <4>1. /\ SeqRange \in Nat \ {0} /\ k \in 0 .. SeqRange - 1
            /\ base + m \in Int /\ base + (m + k) = (base + m) + k
        BY <1>3 DEF NetTypeOK
      <4>2. ((base + m) + k) % SeqRange = Round(SeqOf(m) + k, SeqRange)
        BY <4>1, ModOn, Zenon DEF SeqOf
      <4>3. Expected = SeqOf(m) /\ SeqOf(m) \in 0 .. SeqRange - 1
        BY SeqOfNext DEF Awaits
      <4>4. Expected + k \in Nat /\ Expected + k < 2 * SeqRange
        BY <4>1, <4>3
      <4>5. (Expected + k) % SeqRange = Round(Expected + k, SeqRange)
        BY <4>1, <4>4, RoundIs
      <4> QED  BY <4>1, <4>2, <4>3, <4>5, Zenon DEF SeqOf
    <3>3. m + k \in Int
      BY <1>3
    <3>4. SeqOf(m + k + 1) = Succ(SeqOf(m + k))
      BY <3>3, SeqOfNext, Zenon
    <3> QED  BY <1>6, <3>1, <3>2, <3>4, Zenon
  <2>4. /\ faults <= faults' /\ Cardinality(Waiting') <= faults' + Window
        /\ m + k + 1 \in Int
    BY <1>2, <1>3, <1>5
  <2>5. is_first' = FALSE
    BY <1>2, Zenon DEF Awaits, FlagTypeOK
  <2>6. given' = Append(given, m + k)
    BY <1>6, <1>7, <2>1, Zenon
  <2>7. Awaits(m + k + 1)'
    BY <1>2, <1>5, <1>6, <2>1, <2>2, <2>3, <2>4, <2>5, <2>6, GivesAwaits, Zenon
  <2> QED  BY <1>5, <2>4, <2>7, Zenon
<1>8. CASE Empty(k)
  <2>1. k = 0
    BY <1>1, <1>8, Zenon DEF Skips
  <2>2. rtp_pkt[rtp_first] = 0
    BY <1>3, <1>4, <1>8, <2>1, Zenon DEF Empty
  <2>3. rtp_pkt' = rtp_pkt
    BY <1>3, <1>6, <2>1, <2>2 DEF CacheTypeOK
  <2>4. rtp_first' = Slot(rtp_first, 1)
    BY <1>6, <2>1
  <2>5. rtp_seq'[rtp_first'] = SeqOf(m + 1)
    <3>1. SeqOf(m + 1) = Succ(SeqOf(m))
      BY SeqOfNext
    <3>2. rtp_seq[rtp_first] = SeqOf(m)
      BY Zenon DEF Awaits, Expected
    <3> QED  BY <1>3, <1>6, <2>1, <3>1, <3>2, Zenon
  <2>6. given' = given
    BY <1>6, <1>8, Zenon
  <2>7. Awaits(m + 1)'
    BY <1>2, <2>2, <2>3, <2>4, <2>5, <2>6, SkipsAwaits, Zenon
  <2> QED  BY <1>5, <2>7, m + 1 \in Int
<1> QED  BY <1>7, <1>8

-----------------------------------------------------------------------------
(* The cache, before the first packet.                                     *)

(* What is waited for, seen from a packet that comes.                      *)
LEMMA SeenFrom ==
    ASSUME CacheTypeOK, NetTypeOK, NEW p \in wire, p.seq = SeqOf(p.n)
    PROVE  p.n - NewSeq(p) \in Int /\ Expected = SeqOf(p.n - NewSeq(p))
<1>1. /\ SeqRange \in Nat \ {0} /\ p.n \in Int /\ base + p.n \in Int
      /\ p.seq \in 0 .. SeqRange - 1 /\ Expected \in 0 .. SeqRange - 1
      /\ NewSeq(p) = p.seq - Expected
  <2>1. p.n \in Int /\ base \in Int
    BY PacketNumber, SeqAssumption, SlotsAssumption DEF NetTypeOK
  <2> QED  BY <2>1, PacketType, SeqAssumption, SlotsAssumption DEF NewSeq
<1>2. PICK q \in Int : base + p.n = q * SeqRange + p.seq
  BY <1>1, ModParts DEF SeqOf
<1>3. base + (p.n - NewSeq(p)) = q * SeqRange + Expected
  <2>1. base \in Int /\ q * SeqRange \in Int
    BY <1>1, SeqAssumption DEF NetTypeOK
  <2> DEFINE x == q * SeqRange
  <2> HIDE DEF x
  <2>2. base + p.n = x + p.seq /\ x \in Int
    BY <1>2, <2>1 DEF x
  <2>3. p.n \in Int /\ p.seq \in Int /\ Expected \in Int
    BY <1>1
  <2>4. p.n - (p.seq - Expected) = p.n - p.seq + Expected
    BY <2>3
  <2>5. base + (p.n - p.seq + Expected) = x + Expected
    BY <2>1, <2>2, <2>3
  <2> QED  BY <1>1, <2>4, <2>5, Zenon DEF x
<1>4. (q * SeqRange + Expected) % SeqRange = Expected
  BY <1>1, ModOfParts, Zenon
<1> QED  BY <1>1, <1>3, <1>4 DEF SeqOf

(* The first packet is given at once.                                      *)
LEMMA UntouchedFeeds ==
    ASSUME CacheTypeOK, NetTypeOK, CacheTypeOK', NetTypeOK', FewFaults, WireInv,
           Untouched, InSequence \/ Overrun \/ Underrun, ~astray'
    PROVE  WireInv' /\ \E m \in Int : Awaits(m)'
<1>1. PICK p \in wire :
          /\ Reads(p) /\ Feed(p)
          /\ rtp_seq'[rtp_first'] = Succ(p.seq) /\ \A i \in Slots : rtp_pkt'[i] = 0
  <2>1. 0 \in Slots /\ SlotAt(1) \in Slots
    <3>1. 0 \in Slots /\ rtp_first \in Slots /\ 1 \in 0 .. MaxPackets
      BY OrderBasics
    <3> QED  BY <3>1, SlotIs DEF SlotAt, Slot
  <2>2. CASE InSequence
    <3>1. PICK p \in wire :
              /\ Reads(p) /\ Feed(p)
              /\ rtp_first' = SlotAt(1) /\ rtp_pkt' = rtp_pkt
              /\ rtp_seq' = [rtp_seq EXCEPT ![SlotAt(1)] = Succ(p.seq)]
      BY <2>2, Zenon DEF InSequence
    <3>2. rtp_seq'[rtp_first'] = Succ(p.seq)
      BY <2>1, <3>1 DEF CacheTypeOK
    <3> QED  BY <3>1, <3>2, Zenon DEF Untouched
  <2>3. CASE Overrun \/ Underrun
    <3>1. PICK p \in wire : Reads(p) /\ Feed(p) /\ CacheReset(p.seq)
      BY <2>3, Zenon DEF Overrun, Underrun
    <3>2. rtp_seq'[rtp_first'] = Succ(p.seq) /\ \A i \in Slots : rtp_pkt'[i] = 0
      BY <2>1, <3>1 DEF CacheTypeOK, CacheReset
    <3> QED  BY <3>1, <3>2, Zenon
  <2> QED  BY <2>2, <2>3
<1>2. p.n \in 1 .. Packets /\ p.n \in Nat
  BY <1>1, ReadsAny, Zenon
<1>3. 1 <= p.n /\ 1 \in Int /\ p.n + 1 \in Int /\ 0 <= p.n
  BY <1>2
<1>4. FewMissing(1) /\ \A i \in Slots : rtp_pkt[i] <= p.n
  BY <1>3, Zenon DEF Untouched
<1>5. Ascending(1)
  BY DEF Untouched, Ascending
<1>6. WireInv' /\ Awaits(p.n + 1)'
  BY <1>1, <1>3, <1>4, <1>5, FreshAwaits, Zenon
<1> QED  BY <1>3, <1>6, Zenon

(* It is cached, as number 0 or one soon after it is waited for.           *)
LEMMA UntouchedOutOfSequence ==
    ASSUME CacheTypeOK, NetTypeOK, CacheTypeOK', NetTypeOK', FewFaults, WireInv,
           Untouched, OutOfSequence, ~astray'
    PROVE  WireInv' /\ \E m \in Int : Awaits(m)'
<1>1. PICK p \in wire :
          /\ Reads(p) /\ ~is_first /\ NewSeq(p) \in 1 .. MaxPackets
          /\ rtp_pkt' = [rtp_pkt EXCEPT ![SlotAt(NewSeq(p))] = p.n]
          /\ rtp_seq' = [rtp_seq EXCEPT ![SlotAt(NewSeq(p))] = p.seq]
          /\ NoPacket /\ rtp_first' = rtp_first
  BY Zenon DEF OutOfSequence
<1>2. /\ ~Misjudged(p) /\ sent' = sent /\ base' = base /\ faults <= faults'
      /\ p.seq = SeqOf(p.n) /\ p.n \in Nat /\ p.n <= sent /\ p.n \in 1 .. Packets
      /\ \A n : OnWire(n) /\ n # p.n => OnWire(n)'
      /\ WireInv'
  BY <1>1, ReadsAny, Zenon
<1>3. PICK d \in Slots : d = NewSeq(p) /\ d # 0
  BY <1>1, <1>2, JudgedRight, Zenon
<1>4. /\ rtp_first \in Slots /\ 0 \in Slots /\ Slot(rtp_first, 0) = rtp_first
      /\ \A k \in Slots : Slot(rtp_first, k) \in Slots
      /\ d \in 0 .. MaxPackets - 1 /\ MaxPackets \in Nat /\ sent \in Nat
  BY OrderBasics, Zenon
<1> DEFINE m == p.n - d
<1>5. /\ m \in Int /\ p.n = m + d /\ -MaxPackets < m /\ m <= sent' /\ m <= p.n
      /\ 0 <= sent'
  BY <1>2, <1>3, <1>4
<1>6. Expected = SeqOf(m)
  BY <1>2, <1>3, SeenFrom, Zenon
<1> HIDE DEF m
<1>7. given' = given /\ is_first' = is_first /\ given = <<>>
  BY <1>1, Zenon DEF NoPacket, Untouched
<1>8. /\ \A i \in Slots : rtp_pkt'[i] = IF i = Slot(rtp_first, d)
                                        THEN p.n ELSE 0
      /\ rtp_seq'[rtp_first] = rtp_seq[rtp_first]
  <2>1. SlotAt(NewSeq(p)) = Slot(rtp_first, d)
    BY <1>3 DEF SlotAt, Slot
  <2>2. rtp_first # Slot(rtp_first, d)
    BY <1>3, <1>4, SlotsDiffer
  <2>3. /\ rtp_pkt' = [rtp_pkt EXCEPT ![Slot(rtp_first, d)] = p.n]
        /\ rtp_seq' = [rtp_seq EXCEPT ![Slot(rtp_first, d)] = p.seq]
    BY <1>1, <2>1, Zenon
  <2> QED  BY <1>4, <2>2, <2>3 DEF CacheTypeOK, Untouched
<1>9. \A k \in Slots : rtp_pkt'[Slot(rtp_first', k)] \in {0, m + k}
  <2> TAKE k \in Slots
  <2>1. CASE k = d
    BY <1>1, <1>4, <1>5, <1>8, <2>1, Zenon
  <2>2. CASE k # d
    <3>1. Slot(rtp_first, k) # Slot(rtp_first, d)
      BY <1>4, <2>2, SlotsDiffer
    <3> QED  BY <1>1, <1>4, <1>8, <3>1, Zenon
  <2> QED  BY <2>1, <2>2
<1>10. \A i \in Slots : rtp_pkt'[i] <= sent'
  BY <1>2, <1>5, <1>8, Zenon
<1>11. FewMissing(m)'
  <2>1. Cached(p.n)'
    BY <1>4, <1>8, Zenon DEF Cached
  <2>2. \A n \in 1 .. sent : ~Cached(n) /\ 1 <= n
    BY <1>4 DEF Cached, Untouched
  <2>3. Missing(m)' \subseteq Missing(1)
    BY <1>2, <2>1, <2>2, Zenon DEF Missing
  <2>4. FewMissing(1)
    BY Zenon DEF Untouched
  <2> QED  BY <1>2, <2>3, <2>4, MissingNoMore, Zenon
<1>12. NotFarAhead(m)' /\ Ascending(m)'
  BY <1>5, <1>7 DEF NotFarAhead, Ascending
<1>13. Expected' = SeqOf(m)'
  BY <1>1, <1>2, <1>6, <1>8, Zenon DEF Expected, SeqOf
<1>14. Awaits(m)'
  BY <1>1, <1>5, <1>7, <1>9, <1>10, <1>11, <1>12, <1>13, Zenon DEF Awaits
<1> QED  BY <1>2, <1>5, <1>14, Zenon

(* It is dropped, as get_next has gone on from number 0 to a later one.    *)
LEMMA UntouchedDropOld ==
    ASSUME CacheTypeOK, NetTypeOK, CacheTypeOK', NetTypeOK', FewFaults, WireInv,
           Untouched, DropOld, ~astray'
    PROVE  WireInv' /\ \E m \in Int : Awaits(m)'
<1>1. PICK p \in wire :
          /\ Reads(p) /\ ~is_first /\ NewSeq(p) < 0 /\ NoPacket
          /\ rtp_first' = rtp_first /\ rtp_seq' = rtp_seq /\ rtp_pkt' = rtp_pkt
  BY Zenon DEF DropOld
<1>2. /\ sent' = sent /\ base' = base /\ faults <= faults'
      /\ p.seq = SeqOf(p.n) /\ p.n \in Nat /\ p.n <= sent /\ p.n \in 1 .. Packets
      /\ \A n : OnWire(n) /\ n # p.n => OnWire(n)'
      /\ Cardinality(Waiting') + 1 + faults <= Cardinality(Waiting) + faults'
      /\ WireInv'
  BY <1>1, ReadsAny, Zenon
<1>3. /\ MaxPackets \in Nat /\ MaxPackets > 3 /\ MaxPackets - 3 \in Nat
      /\ sent \in Nat /\ Window \in Nat /\ faults \in Nat /\ tries \in Nat
      /\ \A k \in Slots : Slot(rtp_first, k) \in Slots
  BY OrderBasics, Zenon
<1>4. /\ p.seq \in Int /\ 0 <= p.seq /\ Expected \in Int /\ 0 <= Expected
      /\ NewSeq(p) = p.seq - Expected
  BY PacketType, SeqAssumption DEF NewSeq
<1>5. PICK m \in Int : m = p.n - NewSeq(p)
  BY <1>2, SeenFrom, Zenon
<1>6. /\ p.n < m /\ -MaxPackets < m /\ m <= sent + Expected
      /\ Expected = SeqOf(m)
  <2>1. Expected = SeqOf(m)
    BY <1>2, <1>5, SeenFrom, Zenon
  <2> QED  BY <1>1, <1>2, <1>3, <1>4, <1>5, <2>1
<1>7. /\ given' = given /\ is_first' = is_first /\ given = <<>>
      /\ tries' = tries + 1
  BY <1>1, Zenon DEF NoPacket, Untouched
<1>8. FewMissing(m)'
  <2>1. \A n \in 1 .. sent : ~Cached(n) /\ 1 <= n /\ (m <= n => n # p.n)
    BY <1>2, <1>3, <1>6 DEF Cached, Untouched
  <2>2. Missing(m)' \subseteq Missing(1)
    BY <1>2, <2>1, Zenon DEF Missing
  <2>3. FewMissing(1)
    BY Zenon DEF Untouched
  <2> QED  BY <1>2, <2>2, <2>3, MissingNoMore, Zenon
<1>9. NotFarAhead(m)'
  <2> DEFINE K == MaxPackets - 3
             a == m - sent - 1
             x == a * K
             y == Expected * K
  <2>1. y + tries <= faults
    BY <1>1, Zenon DEF Untouched
  <2>2. x + K <= y /\ x \in Int /\ y \in Int /\ K \in Int /\ K >= 1
    <3>1. /\ a \in Int /\ a + 1 \in Int /\ a + 1 <= Expected /\ K \in Nat
          /\ K >= 1
      BY <1>3, <1>4, <1>6
    <3> HIDE DEF a, K
    <3>2. (a + 1) * K <= Expected * K
      BY <1>4, <3>1, MoreTimes
    <3>3. (a + 1) * K = a * K + K
      BY <3>1
    <3> QED  BY <1>4, <3>1, <3>2, <3>3
  <2>3. /\ Cardinality(Waiting) \in Nat /\ Cardinality(Waiting') \in Nat
        /\ Cardinality(Waiting) <= Window /\ faults' \in Int
    BY WaitingCounts, WaitingFew, NetworkAssumption DEF NetTypeOK
  <2> HIDE DEF x, y, K
  <2>4. x + tries' + Cardinality(Waiting') <= faults' + Window
    BY <1>2, <1>3, <1>7, <2>1, <2>2, <2>3
  <2> QED  BY <1>2, <2>4 DEF NotFarAhead, x, K
<1>10. Ascending(m)'
  BY <1>7 DEF Ascending
<1>11. Expected' = SeqOf(m)'
  BY <1>1, <1>2, <1>6, Zenon DEF Expected, SeqOf
<1>12. /\ \A k \in Slots : rtp_pkt'[Slot(rtp_first', k)] \in {0, m + k}
       /\ \A i \in Slots : rtp_pkt'[i] <= sent'
  <2>1. 0 <= sent'
    BY <1>2, <1>3
  <2> QED  BY <1>1, <1>3, <2>1, Zenon DEF Untouched
<1>13. Awaits(m)'
  BY <1>1, <1>6, <1>7, <1>8, <1>9, <1>10, <1>11, <1>12, Zenon DEF Awaits
<1> QED  BY <1>2, <1>13, Zenon

(* get_next goes on from number 0, after that many damaged packets.        *)
LEMMA UntouchedTakeNext ==
    ASSUME CacheTypeOK, NetTypeOK, FewFaults, WireInv, Untouched, TakeNext
    PROVE  WireInv' /\ Untouched'
<1>1. PICK k \in Slots : Skips(k) /\ Takes(k)
  BY Zenon DEF TakeNext
<1>2. /\ wire' = wire /\ sent' = sent /\ base' = base /\ faults' = faults
      /\ is_first' = is_first /\ tries' = 0 /\ ~Looping
  BY Zenon DEF TakeNext, netVars
<1>3. /\ MaxPackets \in Nat /\ MaxPackets > 3 /\ MaxPackets - 3 \in Nat
      /\ rtp_first \in Slots /\ 0 \in Slots /\ Slot(rtp_first, 0) = rtp_first
      /\ \A j \in Slots : Slot(rtp_first, j) \in Slots
      /\ faults \in Nat /\ faults <= MaxFaults /\ MaxFaults \in Nat
      /\ tries \in Nat /\ tries <= MaxPackets - 3 /\ Window \in Nat
      /\ SeqRange \in Nat
  BY OrderBasics, Zenon
<1>4. k = 0
  <2>1. Empty(k)
    BY <1>3, Zenon DEF Empty, SlotAt, Slot, Untouched
  <2> QED  BY <1>1, <2>1, Zenon DEF Skips
<1>5. /\ SlotAt(0) = rtp_first /\ SlotAt(0 + 1) = Slot(rtp_first, 1)
      /\ Slot(rtp_first, 1) \in Slots
  <2>1. 1 \in 0 .. MaxPackets
    BY <1>3
  <2> QED  BY <1>3, <2>1, SlotIs DEF SlotAt, Slot
<1>6. /\ \A i \in Slots : rtp_pkt'[i] = 0
      /\ given' = <<>>
      /\ rtp_seq'[rtp_first'] = Succ(Expected)
  <2>1. Empty(0)
    BY <1>3, <1>5, Zenon DEF Empty, Untouched
  <2>2. /\ rtp_pkt' = [rtp_pkt EXCEPT ![rtp_first] = 0] /\ given' = given
        /\ rtp_first' = Slot(rtp_first, 1)
        /\ rtp_seq' = [rtp_seq EXCEPT ![Slot(rtp_first, 1)] = Succ(Expected)]
    BY <1>1, <1>4, <1>5, <2>1, Zenon DEF Takes, Expected
  <2> QED  BY <1>3, <1>5, <2>2 DEF CacheTypeOK, Untouched
<1>7. FewMissing(1)'
  <2>1. Missing(1)' = Missing(1)
    BY <1>2, <1>6, Zenon DEF Missing, OnWire, Cached, Untouched
  <2> QED  BY <1>2, <2>1, Zenon DEF FewMissing, Untouched
<1>8. ~is_first => Expected' * (MaxPackets - 3) + tries' <= faults'
  <2> SUFFICES ASSUME ~is_first
               PROVE  Expected' * (MaxPackets - 3) + 0 <= faults
    BY <1>2, Zenon
  <2> DEFINE K == MaxPackets - 3
  <2>1. Expected * K + tries <= faults
    BY Zenon DEF Untouched
  <2>2. tries = K
    <3>1. rtp_pkt[rtp_first] = 0
      BY <1>3, Zenon DEF Untouched
    <3> QED  BY <1>2, <1>3, <3>1 DEF Looping
  <2>3. Expected \in Nat /\ K \in Nat /\ K >= 1
    BY <1>3 DEF CacheTypeOK, Expected
  <2> HIDE DEF K
  <2>4. (Expected + 1) * K = Expected * K + K /\ (Expected + 1) * 1 <= (Expected + 1) * K
    <3>1. 1 * (Expected + 1) <= K * (Expected + 1)
      BY <2>3, MoreTimes
    <3> QED  BY <2>3, <3>1
  <2>5. Expected + 1 <= faults
    BY <1>3, <2>1, <2>2, <2>3, <2>4
  <2>6. Succ(Expected) = Expected + 1
    <3>1. 2 * (MaxFaults + Window + MaxPackets) < SeqRange
      BY Zenon DEF FewFaults
    <3>2. Expected + 1 < SeqRange /\ SeqRange \in Nat \ {0}
      BY <1>3, <2>3, <2>5, <3>1
    <3> QED  BY <2>3, <3>2, ModSmall DEF Succ
  <2>7. Expected' = Expected + 1
    BY <1>6, <2>6, Zenon DEF Expected
  <2>8. (Expected + 1) * K + 0 <= faults
    <3>1. (Expected + 1) * K \in Int
      BY <2>3
    <3> QED  BY <2>1, <2>2, <2>4, <3>1
  <2> QED  BY <2>7, <2>8 DEF K
<1>9. WireInv'
  BY <1>2, Zenon DEF WireInv, SeqOf
<1> QED  BY <1>2, <1>6, <1>7, <1>8, <1>9, Zenon DEF Untouched

-----------------------------------------------------------------------------
(* The order, in every behaviour.                                          *)

(* At first nothing has been sent.                                         *)
LEMMA InitOrder ==
    ASSUME Init
    PROVE  OrderInv
<1>1. /\ rtp_first = 0 /\ tries = 0 /\ wire = {} /\ sent = 0 /\ given = <<>>
      /\ faults = 0 /\ 0 \in Slots
      /\ \A i \in Slots : rtp_pkt[i] = 0 /\ rtp_seq[i] = 0
  BY SlotsAssumption DEF Init, Slots
<1>2. WireInv
  BY <1>1 DEF WireInv
<1>3. FewMissing(1)
  <2>1. 1 .. sent = {}
    BY <1>1
  <2>2. Missing(1) = {}
    BY <2>1, Zenon DEF Missing
  <2>3. Cardinality({}) = 0
    BY FS_EmptySet
  <2>4. faults = 0 /\ 0 <= 0
    BY <1>1
  <2> QED  BY <2>2, <2>3, <2>4, Zenon DEF FewMissing
<1>4. Expected * (MaxPackets - 3) + tries <= faults
  <2>1. Expected = 0
    BY <1>1 DEF Expected
  <2>2. 0 * (MaxPackets - 3) = 0
    BY SlotsAssumption
  <2> QED  BY <1>1, <2>1, <2>2
<1> QED  BY <1>1, <1>2, <1>3, <1>4, Zenon DEF OrderInv, Untouched

(* Every step keeps the order.                                             *)
LEMMA NextOrder ==
    ASSUME TypeOK, TypeOK', Kept, FewFaults, OrderInv, [Next]_vars
    PROVE  OrderInv'
<1>1. CacheTypeOK /\ NetTypeOK /\ FlagTypeOK
  BY TypeParts
<1>2. CacheTypeOK' /\ NetTypeOK'
  BY Zenon DEF TypeOK, CacheTypeOK, NetTypeOK
<1>3. CASE UNCHANGED vars
  <2>1. /\ UNCHANGED <<cacheVars, wire, sent, base, faults, given>>
        /\ astray' = astray
    BY <1>3, Zenon DEF vars, netVars
  <2>2. WireInv' = WireInv /\ \A n : OnWire(n)' <=> OnWire(n)
    BY <2>1, Zenon DEF WireInv, SeqOf, OnWire
  <2>3. \A m : FewMissing(m)' <=> FewMissing(m)
    <3> TAKE m
    <3>1. Missing(m)' = Missing(m)
      BY <2>1, <2>2, Zenon DEF Missing, Cached, cacheVars
    <3> QED  BY <2>1, <3>1, Zenon DEF FewMissing
  <2>4. Untouched' = Untouched
    BY <2>1, <2>3, Zenon DEF Untouched, Expected, cacheVars
  <2>5. ASSUME NEW m \in Int, Awaits(m) PROVE Awaits(m)'
    <3>1. Waiting' = Waiting
      BY <2>1, <2>2, Zenon DEF Waiting
    <3>2. NotFarAhead(m)' /\ FewMissing(m)'
      BY <2>1, <2>3, <2>5, <3>1, Zenon DEF Awaits, NotFarAhead, cacheVars
    <3>3. sent <= sent'
      BY <1>1, <2>1, OrderBasics
    <3> QED
      BY <1>1, <1>2, <2>1, <2>5, <3>2, <3>3, AwaitsStays, Zenon DEF cacheVars
  <2> QED  BY <2>1, <2>2, <2>4, <2>5, Zenon DEF OrderInv
<1>4. CASE Send
  BY <1>1, <1>2, <1>4, SendOrder
<1>5. CASE Lose \/ Damaged
  BY <1>1, <1>2, <1>5, FaultOrder
<1>6. CASE Restart
  BY <1>6 DEF Restart, FewFaults
<1>7. CASE InSequence \/ Overrun \/ Underrun \/ DropOld \/ OutOfSequence
           \/ TakeNext
  <2> SUFFICES ASSUME ~astray'
               PROVE  WireInv' /\ (Untouched' \/ \E m \in Int : Awaits(m)')
    BY Zenon DEF OrderInv
  <2>1. ~astray
    BY <1>7, Zenon DEF InSequence, Overrun, Underrun, DropOld, OutOfSequence,
       TakeNext, Reads
  <2>2. WireInv /\ (Untouched \/ \E m \in Int : Awaits(m))
    BY <2>1, Zenon DEF OrderInv
  <2>3. CASE Untouched
    BY <1>1, <1>2, <1>7, <2>2, <2>3, UntouchedFeeds, UntouchedOutOfSequence,
       UntouchedDropOld, UntouchedTakeNext, Zenon
  <2>4. ASSUME NEW m \in Int, Awaits(m)
        PROVE  WireInv' /\ \E m2 \in Int : Awaits(m2)'
    <3>1. m + 1 \in Int
      OBVIOUS
    <3> QED
      BY <1>1, <1>2, <1>7, <2>1, <2>2, <2>4, <3>1, AwaitsInSequence,
         AwaitsOverrun, AwaitsNoUnderrun, AwaitsDropOld, AwaitsOutOfSequence,
         AwaitsTakeNext, Zenon
  <2> QED  BY <2>2, <2>3, <2>4
<1> QED
  BY <1>3, <1>4, <1>5, <1>6, <1>7, Zenon DEF Next, Network, GetNext

(* Until a packet is misjudged, as happens where packets overtake each     *)
(* other over the wrap (rtp_cache.cpp:90), packets are given in the order  *)
(* of sending and none twice (rtp_cache.cpp:39-42), whatever is lost,      *)
(* damaged or repeated, as long as the server keeps its numbers and the    *)
(* faults are not so many that the distance of two packets cannot be told  *)
(* from their numbers.                                                     *)
THEOREM RtpInOrder ==
    ASSUME FewFaults
    PROVE  Spec => []InOrder
<1>1. TypeOK /\ OrderInv => InOrder
  <2> SUFFICES ASSUME OrderInv, ~astray
               PROVE  \A i \in 1 .. Len(given) - 1 : given[i] < given[i + 1]
    BY Zenon DEF InOrder
  <2>1. CASE Untouched
    BY <2>1 DEF Untouched
  <2>2. CASE \E m \in Int : Awaits(m)
    BY <2>2, Zenon DEF Awaits, Ascending
  <2> QED  BY <2>1, <2>2, Zenon DEF OrderInv
<1>2. /\ TypeOK /\ Kept /\ OrderInv /\ [Next]_vars
          => TypeOK' /\ Kept' /\ OrderInv'
  BY NextInv, NextOrder
<1>3. Init => TypeOK /\ Kept /\ OrderInv
  BY InitInv, InitOrder
<1> QED  BY <1>1, <1>2, <1>3, PTL DEF Spec
=============================================================================
