---------------------------- MODULE DemuxStreams ----------------------------
(***************************************************************************)
(* The packet queues between the demuxer and the two decoder threads       *)
(* (Demuxer_Stream), under the mutex of demuxer_r.cpp.  Whoever runs out   *)
(* of packets demuxes on, and what belongs to the other stream lands in    *)
(* the other queue.                                                        *)
(*                                                                         *)
(* A packet is its place in the file.  Its bytes are counted, not modelled,*)
(* and of its pts only whether it has one.  Reader "audio" is the audio    *)
(* decoder thread, "video" the video decoder thread; main seeks while both *)
(* are asleep, which modules AudioAhead and VideoAhead are about.          *)
(***************************************************************************)
EXTENDS Integers, Sequences, FiniteSetsExt

CONSTANTS
    File,           \* the packets of the file: [ds |->, len |->, pts |->]
    MaxPackBytes,   \* MAX_PACK_BYTES
    Wants,          \* numbers of bytes the audio decoder asks for at a time
    LooksAhead      \* the file format has no fixed frame duration

Streams == {"audio", "video"}

ASSUME FileAssumption ==
    /\ File \in Seq([ds : Streams, len : Nat, pts : BOOLEAN])
    /\ MaxPackBytes \in Nat \ {0}
    /\ Wants \subseteq Nat \ {0}
    /\ LooksAhead \in BOOLEAN

Packets == 1 .. Len(File)
None == 0           \* NULL, where a packet might be
Rest == 0           \* ds_get_packet_r: all that is left of a packet

VARIABLES
    first, last, current,   \* _first, _last, _current of each stream
    next,                   \* Demuxer_Packet.next
    packs, bytes,           \* _packs, _bytes
    pos, size,              \* _buffer_pos, _buffer_size
    pts_bytes,              \* _pts_bytes
    eof,                    \* Demuxer_Stream.eof
    filepos, start,         \* next packet of the file, first after the seek
    taken, since,           \* last packet taken, bytes read after its pts
    mutex,                  \* the reader that holds demuxer_mutex, or "free"
    pc, want                \* place of each reader, bytes it still wants

queueVars == <<first, last, next, packs, bytes>>
bufferVars == <<current, pos, size, pts_bytes, since, taken>>
fileVars == <<filepos, start>>
readerVars == <<mutex, pc, want>>
vars == <<queueVars, bufferVars, eof, fileVars, readerVars>>

\* Demuxer_Stream::Demuxer_Stream, Demuxer::_init
Init ==
    /\ first = [s \in Streams |-> None] /\ last = first /\ current = first
    /\ next = [p \in Packets |-> None]
    /\ packs = [s \in Streams |-> 0] /\ bytes = packs
    /\ pos = packs /\ size = packs /\ pts_bytes = packs
    /\ eof = [s \in Streams |-> FALSE]
    /\ filepos = 1 /\ start = 1
    /\ taken = first /\ since = packs
    /\ mutex = "free"
    /\ pc = [s \in Streams |-> "idle"] /\ want = [s \in Streams |-> Rest]

Set(f, s, x) == [f EXCEPT ![s] = x]
At(s, from, to) == pc[s] = from /\ pc' = Set(pc, s, to)

-----------------------------------------------------------------------------
(* Calls of demuxer_r.cpp.                                                 *)

\* The audio decoder calls demux_getc_r, demux_read_data_r, ds_get_packet_r.
CallAudio ==
    /\ At("audio", "idle", "lock")
    /\ \E n \in Wants \cup {Rest} : want' = Set(want, "audio", n)
    /\ UNCHANGED <<queueVars, bufferVars, eof, fileVars, mutex>>

\* The video decoder calls video_read_frame_r.
CallVideo ==
    /\ At("video", "idle", "lock")
    /\ UNCHANGED <<queueVars, bufferVars, eof, fileVars, mutex, want>>

Lock(s) ==
    /\ mutex = "free" /\ mutex' = s
    /\ At(s, "lock", "read")
    /\ UNCHANGED <<queueVars, bufferVars, eof, fileVars, want>>

Unlock(s) ==
    /\ At(s, "unlock", "idle")
    /\ mutex' = "free" /\ want' = Set(want, s, Rest)
    /\ UNCHANGED <<queueVars, bufferVars, eof, fileVars>>

\* No more data: the audio decoder gets fewer bytes than it wanted, or none.
ShortAudio ==
    /\ At("audio", "short", "unlock")
    /\ UNCHANGED <<queueVars, bufferVars, eof, fileVars, mutex, want>>

\* video_read_frame_r returns, and the video decoder leaves its routine.
ShortVideo ==
    /\ At("video", "short", "gone")
    /\ UNCHANGED <<queueVars, bufferVars, eof, fileVars, mutex, want>>

-----------------------------------------------------------------------------
(* Demuxer_Stream under the mutex.                                         *)

Left(s) == size[s] - pos[s]

ReadOn(s, n) ==
    /\ pos' = Set(pos, s, pos[s] + n)
    /\ since' = Set(since, s, since[s] + n)
    /\ UNCHANGED <<queueVars, current, size, pts_bytes, taken, eof, fileVars, mutex>>

\* get_packet
ReadRest(s) ==
    /\ want[s] = Rest /\ Left(s) > 0
    /\ At(s, "read", IF s = "video" /\ LooksAhead THEN "look" ELSE "unlock")
    /\ ReadOn(s, Left(s)) /\ UNCHANGED want

\* getch, read_data: from one packet what it has.
ReadSome(s) ==
    LET n == Min({Left(s), want[s]})
    IN /\ want[s] > 0 /\ Left(s) > 0
       /\ At(s, "read", IF n = want[s] THEN "unlock" ELSE "read")
       /\ ReadOn(s, n) /\ want' = Set(want, s, want[s] - n)

ReadEmpty(s) ==
    /\ Left(s) = 0
    /\ At(s, "read", "fill")
    /\ UNCHANGED <<queueVars, bufferVars, eof, fileVars, mutex, want>>

\* Mutant: the last packet of the queue stays its last.
Emptied_KeepsLast(s, p) == UNCHANGED last

Emptied(s, p) == last' = IF next[p] = None THEN Set(last, s, None) ELSE last

\* fill_buffer: the first packet of the queue becomes the buffer ...
FillTake(s) ==
    LET p == first[s]
    IN /\ packs[s] > 0
       /\ At(s, "fill", "read")
       /\ current' = Set(current, s, p) /\ taken' = Set(taken, s, p)
       /\ pos' = Set(pos, s, 0) /\ size' = Set(size, s, File[p].len)
       /\ pts_bytes' = Set(pts_bytes, s,
                           (IF File[p].pts THEN 0 ELSE pts_bytes[s]) + File[p].len)
       /\ since' = IF File[p].pts THEN Set(since, s, 0) ELSE since
       /\ bytes' = Set(bytes, s, bytes[s] - File[p].len)
       /\ packs' = Set(packs, s, packs[s] - 1)
       /\ first' = Set(first, s, next[p])
       /\ Emptied(s, p)
       /\ UNCHANGED <<next, eof, fileVars, mutex, want>>

\* Mutant: only the reader's own queue is looked at.
TooMany_Own(s) == bytes[s] >= MaxPackBytes

\* One of the queues holds too much.
TooMany(s) == \E q \in Streams : bytes[q] >= MaxPackBytes

\* Mutant: the bytes are not counted.
Counted_Packs(p, q) == packs' = Set(packs, q, packs[q] + 1) /\ UNCHANGED bytes

Counted(p, q) ==
    /\ packs' = Set(packs, q, packs[q] + 1)
    /\ bytes' = Set(bytes, q, bytes[q] + File[p].len)

\* add_packet: an empty packet is skipped.
AddPacket(p, q) ==
    \/ /\ File[p].len = 0
       /\ next' = Set(next, p, None)
       /\ UNCHANGED <<first, last, packs, bytes>>
    \/ /\ File[p].len > 0
       /\ Counted(p, q)
       /\ first' = IF last[q] = None THEN Set(first, q, p) ELSE first
       /\ last' = Set(last, q, p)
       /\ next' = [x \in Packets |-> IF x = p THEN None
                                     ELSE IF x = last[q] THEN p ELSE next[x]]

\* ... when there is none, one more is demuxed ...
Demux(s) ==
    /\ ~TooMany(s) /\ filepos \in Packets
    /\ AddPacket(filepos, File[filepos].ds)
    /\ filepos' = filepos + 1
    /\ UNCHANGED <<bufferVars, eof, start, readerVars>>

FillDemux(s) == pc[s] = "fill" /\ packs[s] = 0 /\ Demux(s)

\* ... and when that fails too, the stream is at its end.
FillEof(s) ==
    /\ packs[s] = 0 /\ (TooMany(s) \/ filepos \notin Packets)
    /\ At(s, "fill", "short")
    /\ pos' = Set(pos, s, 0) /\ size' = Set(size, s, 0)
    /\ current' = Set(current, s, None)
    /\ eof' = Set(eof, s, TRUE)
    /\ UNCHANGED <<queueVars, pts_bytes, since, taken, fileVars, mutex, want>>

\* get_next_pts: the duration of a frame needs the pts of the next one.
LookDemux(s) == pc[s] = "look" /\ first[s] = None /\ Demux(s)

LookDone(s) ==
    /\ first[s] # None \/ TooMany(s) \/ filepos \notin Packets
    /\ At(s, "look", "unlock")
    /\ UNCHANGED <<queueVars, bufferVars, eof, fileVars, mutex, want>>

-----------------------------------------------------------------------------
(* Seeking.                                                                *)

\* Mutant: what is left of the buffer is not skipped.
FreePacks_KeepsPos ==
    /\ first' = [s \in Streams |-> None] /\ last' = first'
    /\ current' = first'
    /\ packs' = [s \in Streams |-> 0] /\ bytes' = packs'
    /\ pts_bytes' = packs' /\ UNCHANGED pos

\* free_packs, of both streams
FreePacks ==
    /\ first' = [s \in Streams |-> None] /\ last' = first'
    /\ current' = first'
    /\ packs' = [s \in Streams |-> 0] /\ bytes' = packs'
    /\ pos' = size /\ pts_bytes' = packs'

\* demux_seek_r, Demuxer::seek
Seek ==
    /\ \A s \in Streams : pc[s] \in {"idle", "gone"}
    /\ mutex = "free"
    /\ FreePacks
    /\ eof' = [s \in Streams |-> FALSE]
    /\ filepos' \in 1 .. Len(File) + 1 /\ start' = filepos'
    /\ taken' = first' /\ since' = [s \in Streams |-> 0]
    /\ UNCHANGED <<next, size, readerVars>>

-----------------------------------------------------------------------------
Read(s) ==
    \/ Lock(s) \/ Unlock(s) \/ ReadRest(s) \/ ReadSome(s) \/ ReadEmpty(s)
    \/ FillTake(s) \/ FillDemux(s) \/ FillEof(s) \/ LookDemux(s) \/ LookDone(s)

ReadNext == CallAudio \/ CallVideo \/ ShortAudio \/ ShortVideo
            \/ \E s \in Streams : Read(s)

Next == ReadNext \/ Seek

\* A thread that has called goes on, and mutexes are fair.
Fairness ==
    /\ WF_vars(ShortAudio) /\ WF_vars(ShortVideo)
    /\ \A s \in Streams : WF_vars(Read(s)) /\ SF_vars(Lock(s))

ReadSpec == Init /\ [][ReadNext]_vars /\ Fairness
Spec == Init /\ [][Next]_vars /\ Fairness

-----------------------------------------------------------------------------
Places == {"idle", "lock", "read", "fill", "look", "short", "unlock", "gone"}

\* Every variable has its type.
TypeOK ==
    /\ {first, last, current, taken} \subseteq [Streams -> Packets \cup {None}]
    /\ next \in [Packets -> Packets \cup {None}]
    /\ {packs, bytes, pos, size, pts_bytes, since, want} \subseteq [Streams -> Nat]
    /\ eof \in [Streams -> BOOLEAN]
    /\ filepos \in 1 .. Len(File) + 1 /\ start \in 1 .. Len(File) + 1
    /\ mutex \in Streams \cup {"free"} /\ pc \in [Streams -> Places]

\* What was demuxed of a stream since the last seek and not yet read.
Pending(s) ==
    {p \in start .. filepos - 1 : File[p].ds = s /\ File[p].len > 0 /\ p > taken[s]}

\* The bytes of some packets.
Bytes(S) == MapThenSumSet(LAMBDA p : File[p].len, S)

After(s, p) == LET later == {q \in Pending(s) : q > p}
               IN IF later = {} THEN None ELSE Min(later)

\* The list from _first to _last is what is pending, in the order of the file;
\* _packs and _bytes count it.
QueueIsPending ==
    \A s \in Streams :
        /\ first[s] = After(s, 0)
        /\ last[s] = IF Pending(s) = {} THEN None ELSE Max(Pending(s))
        /\ \A p \in Pending(s) : next[p] = After(s, p)
        /\ packs[s] = Cardinality(Pending(s))
        /\ bytes[s] = Bytes(Pending(s))

\* tell_pts, from which get_ds_stream_pts computes the pts of what was read:
\* the bytes read after the last pts stamp.
TellPts == \A s \in Streams : pts_bytes[s] - size[s] + pos[s] = since[s]

\* A queue outgrows its limit by less than one packet.
QueuesBounded ==
    \A s \in Streams : Packets # {} =>
        bytes[s] < MaxPackBytes + Max({File[p].len : p \in Packets})

\* demuxer_r.cpp is reenterable: another thread's call is let in some time.
CallsGetIn == \A s \in Streams : pc[s] = "lock" ~> pc[s] # "lock"
=============================================================================
