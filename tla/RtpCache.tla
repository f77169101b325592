------------------------------ MODULE RtpCache ------------------------------
(***************************************************************************)
(* The cache in which Rtp_Cache puts the packets of an RTP stream back     *)
(* into order (libmpstream2/rtp_cache.cpp), and the network it reads from: *)
(* packets overtake each other, are lost, damaged or repeated, and the     *)
(* server may start anew with other sequence numbers.                      *)
(*                                                                         *)
(* A packet is its number n, counted from 1 in the order of sending, and   *)
(* its sequence number seq, which wraps.  A slot of the cache holds the    *)
(* number of its packet, or 0 where rtp_len is 0.                          *)
(***************************************************************************)
EXTENDS Integers, Sequences

CONSTANTS
    MaxPackets,     \* MAXRTPPACKETSIN: slots of the cache
    SeqRange,       \* 2^16: how many sequence numbers there are
    Bases,          \* sequence number before the first packet
    Jumps,          \* how far it leaps when the server starts anew
    Packets,        \* length of the stream
    Window,         \* packets on their way are fewer apart than this
    MaxFaults       \* faults of the network and the server, all kinds

ASSUME SlotsAssumption == MaxPackets \in Nat /\ MaxPackets > 3
ASSUME SeqAssumption ==
    /\ SeqRange \in Nat /\ SeqRange > 6 * MaxPackets
    /\ Bases \subseteq 0 .. SeqRange - 1
    /\ Jumps \subseteq 0 .. SeqRange - 1
ASSUME NetworkAssumption == {Packets, Window, MaxFaults} \subseteq Nat

VARIABLES
    rtp_first, rtp_seq,     \* next slot, sequence number of each slot
    rtp_pkt,                \* rtp_data, rtp_len: the packet of each slot
    is_first,               \* static of Rtp_Cache::cache
    tries,                  \* i of the loop in get_next
    wire,                   \* network: packets on their way
    sent, base,             \*   packets sent, sequence number less n
    faults,                 \*   faults so far
    given,                  \* history: what read_from_server returned
    astray                  \* history: a packet was taken for another

cacheVars == <<rtp_first, rtp_seq, rtp_pkt, is_first, tries>>
netVars == <<wire, sent, base, faults>>
vars == <<cacheVars, netVars, given, astray>>

Slots == 0 .. MaxPackets - 1
\* A mutant: the sum is not cut to 16 bits.
Succ_Wide(seq) == seq + 1
Succ(seq) == (seq + 1) % SeqRange
Expected == rtp_seq[rtp_first]
SlotAt(k) == (rtp_first + k) % MaxPackets

\* A stream of this process: is_first is TRUE for its first one only.
Init ==
    /\ rtp_first = 0
    /\ rtp_seq = [i \in Slots |-> 0] /\ rtp_pkt = [i \in Slots |-> 0]
    /\ is_first \in BOOLEAN /\ tries = 0
    /\ wire = {} /\ sent = 0 /\ base \in Bases /\ faults = 0
    /\ given = <<>> /\ astray = FALSE

-----------------------------------------------------------------------------
(* The network.                                                            *)

Send ==
    /\ sent < Packets
    /\ \A p \in wire : sent + 1 - p.n < Window
    /\ sent' = sent + 1
    /\ wire' = wire \cup {[n |-> sent', seq |-> (base + sent') % SeqRange]}
    /\ UNCHANGED <<cacheVars, base, faults, given, astray>>

Lose ==
    /\ faults < MaxFaults /\ faults' = faults + 1
    /\ \E p \in wire : wire' = wire \ {p}
    /\ UNCHANGED <<cacheVars, sent, base, given, astray>>

\* Another server, or the same one anew: nothing of the old one arrives.
Restart ==
    /\ faults < MaxFaults /\ faults' = faults + 1
    /\ wire' = {}
    /\ \E j \in Jumps : base' = (base + j) % SeqRange
    /\ UNCHANGED <<cacheVars, sent, given, astray>>

\* getrtp2 takes p off the network; a switch may send it again.
Arrives(p) ==
    /\ p \in wire
    /\ \/ wire' = wire \ {p} /\ UNCHANGED faults
       \/ faults < MaxFaults /\ faults' = faults + 1 /\ UNCHANGED wire
    /\ UNCHANGED <<sent, base>>

-----------------------------------------------------------------------------
(* Rtp_Cache::cache, called by get_next while the next slot is empty.      *)

\* newseq: the difference of two unsigned short, as an int
NewSeq(p) == p.seq - Expected

\* The same difference round the circle of sequence numbers.
TrueDistance(p) ==
    LET d == NewSeq(p) % SeqRange
    IN  IF 2 * d < SeqRange THEN d ELSE d - SeqRange

\* p is taken for another: it is near the expected one but over the wrap from
\* it (line 90), or exactly as far ahead as the ring is long (line 100).
Misjudged(p) ==
    ~is_first /\ (NewSeq(p) # TrueDistance(p) \/ NewSeq(p) = MaxPackets)

\* A mutant: two reads less.
Looping_Hasty == tries < MaxPackets - 5 /\ rtp_pkt[rtp_first] = 0
Looping == tries < MaxPackets - 3 /\ rtp_pkt[rtp_first] = 0

Reads(p) ==
    /\ Looping
    /\ Arrives(p)
    /\ astray' = (astray \/ Misjudged(p))

\* The packet is returned at once, by cache and by its callers.
Feed(p) == given' = Append(given, p.n) /\ tries' = 0 /\ is_first' = FALSE

\* cache returns 0 and the loop goes on.
NoPacket == tries' = tries + 1 /\ UNCHANGED <<is_first, given>>

InSequence ==
    \E p \in wire :
        /\ Reads(p)
        /\ NewSeq(p) = 0 \/ is_first
        /\ rtp_first' = SlotAt(1)
        /\ rtp_seq' = [rtp_seq EXCEPT ![SlotAt(1)] = Succ(p.seq)]
        /\ Feed(p)
        /\ UNCHANGED rtp_pkt

\* A mutant: the packets of the cache stay in it.
CacheReset_Keep(seq) ==
    /\ rtp_first' = 0
    /\ rtp_seq' = [rtp_seq EXCEPT ![0] = Succ(seq)]
    /\ UNCHANGED rtp_pkt

\* cache_reset
CacheReset(seq) ==
    /\ rtp_first' = 0
    /\ rtp_seq' = [rtp_seq EXCEPT ![0] = Succ(seq)]
    /\ rtp_pkt' = [i \in Slots |-> 0]

Overrun ==
    \E p \in wire :
        /\ Reads(p)
        /\ ~is_first /\ NewSeq(p) > MaxPackets
        /\ CacheReset(p.seq)
        /\ Feed(p)

Stray(p) == \E i \in Slots : rtp_seq[i] = p.seq

\* A mutant: the sign is forgotten.
TooOld_Unsigned(p) == NewSeq(p) > 3 * MaxPackets
TooOld(p) == NewSeq(p) > -(3 * MaxPackets)

Underrun ==
    \E p \in wire :
        /\ Reads(p)
        /\ ~is_first /\ NewSeq(p) < 0 /\ ~Stray(p) /\ ~TooOld(p)
        /\ CacheReset(p.seq)
        /\ Feed(p)

DropOld ==
    \E p \in wire :
        /\ Reads(p)
        /\ ~is_first /\ NewSeq(p) < 0 /\ (Stray(p) \/ TooOld(p))
        /\ NoPacket
        /\ UNCHANGED <<rtp_first, rtp_seq, rtp_pkt>>

OutOfSequence ==
    \E p \in wire :
        /\ Reads(p)
        /\ ~is_first /\ NewSeq(p) \in 1 .. MaxPackets
        /\ rtp_pkt' = [rtp_pkt EXCEPT ![SlotAt(NewSeq(p))] = p.n]
        /\ rtp_seq' = [rtp_seq EXCEPT ![SlotAt(NewSeq(p))] = p.seq]
        /\ NoPacket
        /\ UNCHANGED rtp_first

\* A read error, a packet too short for its header or without contents.
Damaged ==
    /\ Looping
    /\ faults < MaxFaults /\ faults' = faults + 1
    /\ \E p \in wire : wire' = wire \ {p}
    /\ NoPacket
    /\ UNCHANGED <<rtp_first, rtp_seq, rtp_pkt, sent, base, astray>>

-----------------------------------------------------------------------------
(* The rest of get_next.                                                   *)

Empty(k) == rtp_pkt[SlotAt(k)] = 0

\* It passes k empty slots; all the way round is none at all.
Skips(k) ==
    /\ \A m \in 0 .. k - 1 : Empty(m)
    /\ ~Empty(k) \/ (k = 0 /\ \A m \in Slots : Empty(m))

\* Give the first packet of the cache.  If there is none, the caller's loop
\* begins again, and the packet that was waited for is no longer expected.
Takes(k) ==
    LET i == SlotAt(k)
        next == SlotAt(k + 1)
    IN  /\ rtp_first' = next
        /\ rtp_seq' = [rtp_seq EXCEPT ![next] = Succ(rtp_seq[i])]
        /\ rtp_pkt' = [rtp_pkt EXCEPT ![i] = 0]
        /\ given' = IF Empty(k) THEN given ELSE Append(given, rtp_pkt[i])

TakeNext ==
    /\ ~Looping
    /\ \E k \in Slots : Skips(k) /\ Takes(k)
    /\ tries' = 0
    /\ UNCHANGED <<is_first, netVars, astray>>

-----------------------------------------------------------------------------

Network == Send \/ Lose \/ Restart
GetNext ==
    \/ InSequence \/ Overrun \/ Underrun \/ DropOld \/ OutOfSequence
    \/ Damaged \/ TakeNext
Next == Network \/ GetNext

Spec == Init /\ [][Next]_vars

-----------------------------------------------------------------------------

TypeOK ==
    /\ rtp_first \in Slots
    /\ rtp_seq \in [Slots -> 0 .. SeqRange - 1]
    /\ rtp_pkt \in [Slots -> 0 .. Packets]
    /\ is_first \in BOOLEAN /\ tries \in 0 .. MaxPackets - 3
    /\ wire \subseteq [n : 1 .. Packets, seq : 0 .. SeqRange - 1]
    /\ sent \in 0 .. Packets /\ base \in 0 .. SeqRange - 1
    /\ faults \in 0 .. MaxFaults
    /\ given \in Seq(1 .. Packets) /\ astray \in BOOLEAN

\* "rtpbuf.first points to next sequence slot and keeps track of expected
\* sequence" (rtp_cache.cpp:65): the slot k places on is empty or holds the
\* packet k after the expected one, round the end of the array, over losses
\* and resets, unless a packet was misjudged.
SlotsHoldTheirs ==
    ~astray => \A k \in Slots :
        rtp_pkt[SlotAt(k)] # 0 => rtp_seq[SlotAt(k)] = (Expected + k) % SeqRange

\* "get rtp packets reordered", "handling of repeated UDP packets"
\* (rtp_cache.cpp:39-42): whatever the network loses, repeats and delays, and
\* when the server starts again with numbers Jumps away, packets are given in
\* the order of sending and none twice.  Nothing is promised once a packet has
\* been misjudged; it takes no fault for that: two packets that overtake each
\* other where the numbers wrap are enough (line 90), the cache is reset and
\* the order lost.
InOrder ==
    ~astray => \A i \in 1 .. Len(given) - 1 : given[i] < given[i + 1]

\* No number that was sent, nor the one after it, is beyond the wrap, nor so
\* low that it has a slot in a cache that expects number 0 at first.
NoWrap == MaxPackets <= base /\ base + sent + 1 < SeqRange

\* Without faults, and as long as the numbers do not wrap, the cache loses
\* nothing: each packet after the first that came is given, however packets
\* overtake each other within the window and however often get_next gives up
\* waiting.  Over the wrap, and in a stream that starts below MaxPackets, this
\* is promised only until a packet is misjudged: packets that overtake each
\* other there reset the cache and what it held is lost (line 90), without any
\* fault of the network.
CalmIsComplete ==
    faults = 0 /\ (~astray \/ NoWrap) =>
        \A i \in 1 .. Len(given) - 1 : given[i + 1] = given[i] + 1
=============================================================================
