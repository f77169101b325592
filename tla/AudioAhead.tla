----------------------------- MODULE AudioAhead -----------------------------
(***************************************************************************)
(* Decoding ahead of the audio stream: the byte ring audio_buffer, the     *)
(* audio decoder thread (a_dec_ahead_routine), the audio player thread     *)
(* (audio_play_routine) and main around them, in a file with sound and     *)
(* pictures.  The video threads have a module of their own.                *)
(*                                                                         *)
(* The reader works under tail_mutex, the decoder under head_mutex: each   *)
(* sees every intermediate value of what the other writes.  head_mutex is  *)
(* left out: its only other user is reset_audio_buffer, which runs while   *)
(* the decoder sleeps.                                                     *)
(*                                                                         *)
(* A unit is a piece of sound of fixed length; its contents are its number *)
(* in the stream.  The pts indices of the buffer and the clock are not     *)
(* modelled.                                                               *)
(***************************************************************************)
EXTENDS Integers, Sequences

CONSTANTS
    Size,           \* audio_buffer.size
    MinSize,        \* audio_out_minsize: the most one frame decodes to
    FrameSize,      \* what the audio filters make of as much
    Reserv,         \* MIN_BUFFER_RESERV
    Outburst,       \* MAX_OUTBURST
    Chunks,         \* what one call of the decoder may give
    Reads,          \* the pairs <<minlen, maxlen>> the player asks for
    FileUnits       \* length of the audio stream

MinReserv == FrameSize + Reserv       \* audio_buffer.min_reserv

ASSUME SizesAssumption ==
    /\ {Size, MinSize, FrameSize, Reserv, Outburst, FileUnits} \subseteq Nat
    /\ 0 < MinSize /\ MinSize <= FrameSize
    /\ Size >= 3 * MinSize + MinReserv /\ Size >= 3 * Outburst + MinReserv
    /\ Chunks \subseteq 1 .. FrameSize
    /\ \A r \in Reads : r \in Nat \X Nat /\ 0 < r[1] /\ r[1] <= r[2]

VARIABLES
    head, tail, len, cell,  \* audio_buffer: ends, wrap position, contents
    buf_eof, HasReset,      \*   its flags
    tail_mutex,             \* the thread that holds it, or "free"
    audio_eof,              \* xp_core->audio->eof
    ds_eof,                 \* d_audio->eof: the demuxer is at the end
    state,                  \* mpxp_thread_t.state of the two threads
    dpc, pos, want, room,   \* decoder: place, units decoded, two locals
    ppc, ask, got, span,    \* player: place, minlen and maxlen, len, l
    first, last, heard,     \* first unit of this read, last copied, last given
    mpc, mi                 \* main: place, thread of its loop

bufVars == <<head, tail, len, cell, buf_eof, HasReset>>
decVars == <<dpc, pos, want, room>>
playVars == <<ppc, ask, got, span, first, last, heard>>
mainVars == <<mpc, mi>>
vars == <<bufVars, tail_mutex, audio_eof, ds_eof, state, decVars, playVars,
          mainVars>>

Smaller(a, b) == IF a < b THEN a ELSE b
Larger(a, b) == IF a > b THEN a ELSE b
Threads == {"decoder", "player"}
Registered == <<"decoder", "player">>
PthStates == {"Stand", "Canceling", "Run", "Sleep", "ASleep"}
SetState(t, s) == state' = [state EXCEPT ![t] = s]

\* init_audio_buffer
Init ==
    /\ head = 0 /\ tail = 0 /\ len = Size
    /\ cell = [i \in 0 .. Size - 1 |-> 0]
    /\ buf_eof = FALSE /\ HasReset = FALSE /\ tail_mutex = "free"
    /\ audio_eof = FALSE /\ ds_eof = FALSE
    /\ state = [t \in Threads |-> "Stand"]
    /\ dpc = "none" /\ pos = 0 /\ want = 0 /\ room = 0
    /\ ppc = "none" /\ ask = <<0, 0>> /\ got = 0 /\ span = 0
    /\ first = 0 /\ last = 0 /\ heard = 0
    /\ mpc = "run_decoder" /\ mi = 1

-----------------------------------------------------------------------------
(* The decoder thread.                                                     *)

DecoderAt(from, to) == dpc = from /\ dpc' = to

DecoderStart ==
    /\ DecoderAt("start", "clear_eof")
    /\ SetState("decoder", "Run")
    /\ UNCHANGED <<bufVars, audio_eof, ds_eof, pos, want, room, ppc>>

DecoderClearEof ==
    /\ DecoderAt("clear_eof", "top")
    /\ audio_eof' = FALSE
    /\ UNCHANGED <<bufVars, ds_eof, state, pos, want, room, ppc>>

DecoderTop ==
    /\ \/ state["decoder"] = "Canceling" /\ DecoderAt("top", "exit")
       \/ state["decoder"] = "Sleep" /\ DecoderAt("top", "sleep")
       \/ /\ state["decoder"] \notin {"Canceling", "Sleep"}
          /\ DecoderAt("top", "free")
    /\ UNCHANGED <<bufVars, audio_eof, ds_eof, state, pos, want, room, ppc>>

DecoderSleep ==
    /\ DecoderAt("sleep", "asleep")
    /\ SetState("decoder", "ASleep")
    /\ UNCHANGED <<bufVars, audio_eof, ds_eof, pos, want, room, ppc>>

DecoderWake ==
    /\ DecoderAt("asleep", "top")
    /\ state["decoder"] # "ASleep"
    /\ UNCHANGED <<bufVars, audio_eof, ds_eof, state, pos, want, room, ppc>>

\* xp_thread_decode_audio, get_free_audio_buffer: at the end of the stream
\* say so, near the end of the buffer wrap.
DecoderFree ==
    /\ IF buf_eof
       THEN audio_eof' = TRUE /\ DecoderAt("free", "idle")
       ELSE /\ UNCHANGED audio_eof
            /\ DecoderAt("free", IF Size - head < MinReserv /\ tail > 0
                                 THEN "free_len" ELSE "free_room")
    /\ UNCHANGED <<bufVars, ds_eof, state, pos, want, room, ppc>>

\* audio_buffer.len = audio_buffer.head, here and in decode_audio_buffer ...
DecoderWrapLen ==
    /\ DecoderAt("free_len", "free_head") \/ DecoderAt("dec_len", "dec_head")
    /\ len' = head
    /\ UNCHANGED <<head, tail, cell, buf_eof, HasReset, audio_eof, ds_eof,
                   state, pos, want, room, ppc>>

\* ... and audio_buffer.head = 0.
DecoderWrapHead ==
    /\ DecoderAt("free_head", "free_room") \/ DecoderAt("dec_head", "dec_bound")
    /\ head' = 0
    /\ UNCHANGED <<tail, len, cell, buf_eof, HasReset, audio_eof, ds_eof,
                   state, pos, want, room, ppc>>

\* Mutant: the units the player has not read yet are not subtracted.
DecoderRoom_Whole ==
    LET free == Size - MinReserv
    IN /\ DecoderAt("free_room", "used")
       /\ room' = free
       /\ UNCHANGED <<bufVars, audio_eof, ds_eof, state, pos, want, ppc>>

\* The free room, less the reserve.
DecoderRoom ==
    LET free == (IF tail > head THEN 0 ELSE Size) + tail - head - MinReserv
    IN /\ IF free < MinSize THEN room' = 0 /\ DecoderAt("free_room", "idle")
                            ELSE room' = free /\ DecoderAt("free_room", "used")
       /\ UNCHANGED <<bufVars, audio_eof, ds_eof, state, pos, want, ppc>>

\* get_len_audio_buffer, from one reading of tail.
Used == head - tail + (IF head < tail THEN len ELSE 0)

\* How much to decode: an outburst when the buffer runs dry, otherwise what
\* the video buffer calls for, which may be nothing.
DecoderHowMuch ==
    /\ \/ /\ Used < Outburst
          /\ want' = Larger(Outburst, MinSize)
          /\ DecoderAt("used", "dec")
       \/ /\ Used >= Outburst
          /\ want' \in (MinSize + 1) .. room
          /\ DecoderAt("used", "dec")
       \/ /\ Used >= Outburst
          /\ want' = 0
          /\ DecoderAt("used", "idle")
    /\ room' = 0
    /\ UNCHANGED <<bufVars, audio_eof, ds_eof, state, pos, ppc>>

\* decode_audio_buffer: wrap when the reserve is reached, unless the player
\* has read nothing since the last time.
DecoderDecode ==
    /\ \/ Size - head <= MinReserv /\ tail = 0
          /\ DecoderAt("dec", "idle") /\ want' = 0
       \/ Size - head <= MinReserv /\ tail # 0
          /\ DecoderAt("dec", "dec_len") /\ UNCHANGED want
       \/ Size - head > MinReserv
          /\ DecoderAt("dec", "dec_room") /\ UNCHANGED want
    /\ UNCHANGED <<bufVars, audio_eof, ds_eof, state, pos, room, ppc>>

\* std::min(n, unsigned(m)): a negative m is larger than every n.
UMin(n, m) == IF m < 0 THEN n ELSE Smaller(n, m)

\* Having wrapped, decode no more than up to the tail.
DecoderBound ==
    LET n == UMin(want, tail - head - MinReserv)
    IN /\ IF n < MinSize THEN want' = 0 /\ DecoderAt("dec_bound", "idle")
                         ELSE want' = n /\ DecoderAt("dec_bound", "dec_room")
       /\ UNCHANGED <<bufVars, audio_eof, ds_eof, state, pos, room, ppc>>

\* Mutant: the room is that of the whole buffer.
DecoderLimit_NoEnd ==
    /\ want' = want /\ room' = Size
    /\ DecoderAt("dec_room", "run")
    /\ UNCHANGED <<bufVars, audio_eof, ds_eof, state, pos, ppc>>

\* No more than to the end of the buffer, nor to a tail in front of the head.
DecoderLimit ==
    LET to_end == IF UMin(want, Size - head - MinReserv) < want
                  THEN Larger(Size - head - MinReserv, MinSize) ELSE want
        ahead == tail - head
        to_tail == UMin(to_end, ahead - MinReserv)
    IN /\ \/ /\ ahead <= 0
             /\ want' = to_end /\ room' = Size - head
             /\ DecoderAt("dec_room", "run")
          \/ /\ ahead > 0 /\ (to_tail = to_end \/ to_tail >= MinSize)
             /\ want' = to_tail /\ room' = ahead
             /\ DecoderAt("dec_room", "run")
          \/ /\ ahead > 0 /\ to_tail < to_end /\ to_tail < MinSize
             /\ want' = 0 /\ UNCHANGED room
             /\ DecoderAt("dec_room", "idle")
       /\ UNCHANGED <<bufVars, audio_eof, ds_eof, state, pos, ppc>>

\* One call of the audio decoder: it writes a frame, filtered, behind head, no
\* more than there is room for, and head moves on.
DecoderRun ==
    /\ dpc = "run" /\ want >= MinSize /\ pos < FileUnits
    /\ \E chunk \in Chunks :
           LET ret == Smaller(chunk, Smaller(room, FileUnits - pos))
           IN /\ cell' = [i \in 0 .. Size - 1 |->
                             IF i \in head .. head + ret - 1 THEN pos + 1 + i - head
                                                             ELSE cell[i]]
              /\ head' = head + ret /\ pos' = pos + ret
              /\ want' = Larger(want - ret, 0) /\ room' = room - ret
              /\ dpc' = IF ret = 0 THEN "len" ELSE "run"
    /\ UNCHANGED <<tail, len, buf_eof, HasReset, audio_eof, ds_eof, state, ppc>>

DecoderRunEnd ==
    /\ DecoderAt("run", IF want < MinSize THEN "len" ELSE "set_eof")
    /\ want < MinSize \/ pos = FileUnits
    /\ ds_eof' = (ds_eof \/ want >= MinSize)
    /\ want' = 0 /\ room' = 0
    /\ UNCHANGED <<bufVars, audio_eof, state, pos, ppc>>

DecoderSetEof ==
    /\ DecoderAt("set_eof", "broadcast")
    /\ buf_eof' = TRUE
    /\ UNCHANGED <<head, tail, len, cell, HasReset, audio_eof, ds_eof, state,
                   pos, want, room, ppc>>

\* pthread_cond_signal and pthread_cond_broadcast: there is one reader.
WakeReader == ppc' = IF ppc = "blocked" THEN "relock" ELSE ppc

\* Mutant: the end of the stream is not broadcast.
DecoderBroadcast_Silent ==
    /\ DecoderAt("broadcast", "idle")
    /\ UNCHANGED <<bufVars, audio_eof, ds_eof, state, pos, want, room, ppc>>

DecoderBroadcast ==
    /\ tail_mutex = "free"
    /\ DecoderAt("broadcast", "idle")
    /\ WakeReader
    /\ UNCHANGED <<bufVars, audio_eof, ds_eof, state, pos, want, room>>

DecoderLen ==
    /\ DecoderAt("len", "full_lap")
    /\ len' = Larger(len, head)
    /\ UNCHANGED <<head, tail, cell, buf_eof, HasReset, audio_eof, ds_eof,
                   state, pos, want, room, ppc>>

DecoderFullLap ==
    /\ DecoderAt("full_lap", "signal")
    /\ head' = IF head >= Size /\ tail > 0 THEN 0 ELSE head
    /\ UNCHANGED <<tail, len, cell, buf_eof, HasReset, audio_eof, ds_eof,
                   state, pos, want, room, ppc>>

\* The signal is sent without tail_mutex.
DecoderSignal ==
    /\ DecoderAt("signal", "almost_empty")
    /\ WakeReader
    /\ UNCHANGED <<bufVars, audio_eof, ds_eof, state, pos, want, room>>

\* Almost empty: decode on at once, whatever main wants, unless the player
\* has seen the end of the stream.
DecoderAlmostEmpty ==
    /\ DecoderAt("almost_empty",
                 IF Used < Outburst /\ ~audio_eof THEN "free" ELSE "idle")
    /\ UNCHANGED <<bufVars, audio_eof, ds_eof, state, pos, want, room, ppc>>

\* At the end of the stream the thread waits on audio_decode_cond, which
\* nobody signals; otherwise it sleeps for a while.
DecoderIdle ==
    /\ \/ state["decoder"] = "Canceling" /\ DecoderAt("idle", "exit")
       \/ state["decoder"] # "Canceling"
          /\ DecoderAt("idle", IF audio_eof THEN "end_of_work" ELSE "top")
    /\ UNCHANGED <<bufVars, audio_eof, ds_eof, state, pos, want, room, ppc>>

DecoderExit ==
    /\ DecoderAt("exit", "done")
    /\ SetState("decoder", "Stand")
    /\ UNCHANGED <<bufVars, audio_eof, ds_eof, pos, want, room, ppc>>

DecoderStep ==
    \/ DecoderStart \/ DecoderClearEof \/ DecoderTop \/ DecoderSleep
    \/ DecoderWake \/ DecoderFree \/ DecoderWrapLen \/ DecoderWrapHead
    \/ DecoderRoom \/ DecoderHowMuch \/ DecoderDecode \/ DecoderBound
    \/ DecoderLimit \/ DecoderRun \/ DecoderRunEnd \/ DecoderSetEof
    \/ DecoderBroadcast \/ DecoderLen \/ DecoderFullLap \/ DecoderSignal
    \/ DecoderAlmostEmpty \/ DecoderIdle \/ DecoderExit

DecoderNext ==
    /\ DecoderStep
    /\ UNCHANGED <<tail_mutex, ask, got, span, first, last, heard, mainVars>>

-----------------------------------------------------------------------------
(* The player thread: audio_play_routine, decore_audio, read_audio_buffer. *)

PlayerAt(from, to) == ppc = from /\ ppc' = to
units == <<first, last, heard>>

PlayerStart ==
    /\ PlayerAt("start", "top")
    /\ SetState("player", "Run")
    /\ UNCHANGED <<tail, HasReset, tail_mutex, audio_eof, ask, got, span, units>>

PlayerTop ==
    /\ \/ state["player"] = "Canceling" /\ PlayerAt("top", "exit")
       \/ state["player"] = "Sleep" /\ PlayerAt("top", "sleep")
       \/ /\ state["player"] \notin {"Canceling", "Sleep"}
          /\ PlayerAt("top", "decore")
    /\ UNCHANGED <<tail, HasReset, tail_mutex, audio_eof, state, ask, got, span,
                   units>>

PlayerSleep ==
    /\ PlayerAt("sleep", "asleep")
    /\ SetState("player", "ASleep")
    /\ UNCHANGED <<tail, HasReset, tail_mutex, audio_eof, ask, got, span, units>>

PlayerWake ==
    /\ PlayerAt("asleep", "top")
    /\ state["player"] # "ASleep"
    /\ UNCHANGED <<tail, HasReset, tail_mutex, audio_eof, state, ask, got, span,
                   units>>

\* decore_audio: the sound card has no room, or there is enough in hand, or
\* nothing more to come; else read.
PlayerDecore ==
    /\ \/ PlayerAt("decore", "played") /\ UNCHANGED ask
       \/ ~audio_eof /\ ask' \in Reads /\ PlayerAt("decore", "lock")
    /\ UNCHANGED <<tail, HasReset, tail_mutex, audio_eof, state, got, span, units>>

PlayerLock ==
    /\ tail_mutex = "free" /\ tail_mutex' = "player"
    /\ PlayerAt("lock", "loop")
    /\ got' = 0 /\ first' = 0
    /\ UNCHANGED <<tail, HasReset, audio_eof, state, ask, span, last, heard>>

\* Until minlen is reached: wait on an empty buffer, else copy.
PlayerLoop ==
    /\ PlayerAt("loop", IF got >= ask[1] THEN "return"
                        ELSE IF tail = head THEN "test_eof" ELSE "span")
    /\ UNCHANGED <<tail, HasReset, tail_mutex, audio_eof, state, ask, got, span,
                   units>>

PlayerTestEof ==
    /\ PlayerAt("test_eof", IF buf_eof THEN "return" ELSE "wait")
    /\ UNCHANGED <<tail, HasReset, tail_mutex, audio_eof, state, ask, got, span,
                   units>>

\* pthread_cond_wait lets tail_mutex go and waits ...
PlayerWait ==
    /\ PlayerAt("wait", "blocked")
    /\ tail_mutex' = "free"
    /\ UNCHANGED <<tail, HasReset, audio_eof, state, ask, got, span, units>>

\* ... and takes it again once signalled.  After a reset what was copied so
\* far is dropped.
PlayerRelock ==
    /\ tail_mutex = "free" /\ tail_mutex' = "player"
    /\ PlayerAt("relock", "loop")
    /\ HasReset' = FALSE
    /\ got' = IF HasReset THEN 0 ELSE got
    /\ first' = IF HasReset THEN 0 ELSE first
    /\ UNCHANGED <<tail, audio_eof, state, ask, span, last, heard>>

\* What can be copied at once: up to head ...
PlayerSpan ==
    /\ \/ head >= tail /\ span' = Smaller(ask[2] - got, head - tail)
          /\ PlayerAt("span", "copy")
       \/ head < tail /\ UNCHANGED span
          /\ PlayerAt("span", "span_end")
    /\ UNCHANGED <<tail, HasReset, tail_mutex, audio_eof, state, ask, got, units>>

\* ... or, when head has wrapped, up to len.
PlayerSpanEnd ==
    /\ span' = UMin(ask[2] - got, len - tail)
    /\ PlayerAt("span_end", IF span' = 0 THEN "rewind" ELSE "copy")
    /\ UNCHANGED <<tail, HasReset, tail_mutex, audio_eof, state, ask, got, units>>

PlayerCopy ==
    /\ PlayerAt("copy", "test_end")
    /\ first' = IF first = 0 /\ span > 0 THEN cell[tail] ELSE first
    /\ last' = IF span > 0 THEN cell[tail + span - 1] ELSE last
    /\ tail' = tail + span /\ got' = got + span /\ span' = 0
    /\ UNCHANGED <<HasReset, tail_mutex, audio_eof, state, ask, heard>>

PlayerTestEnd ==
    /\ PlayerAt("test_end", IF tail >= len THEN "rewind" ELSE "loop")
    /\ UNCHANGED <<tail, HasReset, tail_mutex, audio_eof, state, ask, got, span,
                   units>>

\* At the end of a lap the tail wraps, unless the buffer is empty.
PlayerRewind ==
    /\ PlayerAt("rewind", "loop")
    /\ tail' = IF tail # head THEN 0 ELSE tail
    /\ UNCHANGED <<HasReset, tail_mutex, audio_eof, state, ask, got, span, units>>

PlayerReturn ==
    /\ PlayerAt("return", "result")
    /\ tail_mutex' = "free"
    /\ heard' = IF got > 0 THEN last ELSE heard
    /\ UNCHANGED <<tail, HasReset, audio_eof, state, ask, got, span, first, last>>

\* decore_audio goes on when it got less than it asked for; nothing at all is
\* the end when the demuxer is at its end.
PlayerResult ==
    /\ \/ got = 0 /\ audio_eof' = (audio_eof \/ ds_eof)
          /\ PlayerAt("result", "played") /\ UNCHANGED ask
       \/ got \in 1 .. ask[1] - 1 /\ UNCHANGED audio_eof
          /\ ask' = <<ask[1] - got, ask[2] - got>>
          /\ PlayerAt("result", IF audio_eof THEN "played" ELSE "lock")
       \/ got >= ask[1] /\ UNCHANGED <<audio_eof, ask>>
          /\ PlayerAt("result", "played")
    /\ UNCHANGED <<tail, HasReset, tail_mutex, state, got, span, units>>

PlayerPlayed ==
    /\ PlayerAt("played", IF state["player"] = "Canceling" THEN "exit" ELSE "top")
    /\ ask' = <<0, 0>> /\ got' = 0 /\ first' = 0
    /\ UNCHANGED <<tail, HasReset, tail_mutex, audio_eof, state, span, last, heard>>

PlayerExit ==
    /\ PlayerAt("exit", "done")
    /\ SetState("player", "Stand")
    /\ UNCHANGED <<tail, HasReset, tail_mutex, audio_eof, ask, got, span, units>>

PlayerStep ==
    \/ PlayerStart \/ PlayerTop \/ PlayerSleep \/ PlayerWake \/ PlayerDecore
    \/ PlayerLock \/ PlayerLoop \/ PlayerTestEof \/ PlayerWait \/ PlayerRelock
    \/ PlayerSpan \/ PlayerSpanEnd \/ PlayerCopy \/ PlayerTestEnd
    \/ PlayerRewind \/ PlayerReturn \/ PlayerResult \/ PlayerPlayed
    \/ PlayerExit

PlayerNext ==
    /\ PlayerStep
    /\ UNCHANGED <<head, len, cell, buf_eof, ds_eof, decVars, mainVars>>

-----------------------------------------------------------------------------
(* The main thread.                                                        *)

MainAt(from, to) == mpc = from /\ mpc' = to
MainLeaves == UNCHANGED <<cell, want, room, ask, got, span, first>>
buffer_and_stream == <<head, tail, len, buf_eof, HasReset, tail_mutex,
                       audio_eof, ds_eof, pos, last, heard>>

\* xmp_run_decoders and xmp_run_players, each waiting for its thread to run.
MainRunDecoder ==
    /\ MainAt("run_decoder", "wait_decoder")
    /\ dpc' = "start"
    /\ UNCHANGED <<state, ppc, mi, buffer_and_stream>>

MainRunPlayer ==
    /\ MainAt("wait_decoder", "wait_player")
    /\ state["decoder"] = "Run"
    /\ ppc' = "start"
    /\ UNCHANGED <<state, dpc, mi, buffer_and_stream>>

MainPlayerRuns ==
    /\ MainAt("wait_player", "loop")
    /\ state["player"] = "Run"
    /\ UNCHANGED <<state, dpc, ppc, mi, buffer_and_stream>>

\* The main loop leaves when audio->eof is set.
MainAudioEof ==
    /\ MainAt("loop", "stop")
    /\ audio_eof
    /\ mi' = 1
    /\ UNCHANGED <<state, dpc, ppc, buffer_and_stream>>

MainQuit ==
    /\ MainAt("loop", "stop")
    /\ mi' = 1
    /\ UNCHANGED <<state, dpc, ppc, buffer_and_stream>>

MainStop ==
    /\ mi <= Len(Registered)
    /\ MainAt("stop", "stopping")
    /\ SetState(Registered[mi], "Canceling")
    /\ UNCHANGED <<dpc, ppc, mi, buffer_and_stream>>

MainStopped ==
    /\ MainAt("stopping", "stop")
    /\ state[Registered[mi]] # "Canceling"
    /\ mi' = mi + 1
    /\ UNCHANGED <<state, dpc, ppc, buffer_and_stream>>

\* uninit_audio_buffer: the buffer is freed.
MainUninit ==
    /\ mi > Len(Registered) /\ tail_mutex = "free"
    /\ MainAt("stop", "done")
    /\ buf_eof' = TRUE /\ HasReset' = FALSE
    /\ head' = 0 /\ tail' = 0 /\ len' = 0
    /\ UNCHANGED <<state, dpc, ppc, mi, tail_mutex, audio_eof, ds_eof, pos, last,
                   heard>>

MainSeekKey ==
    /\ MainAt("loop", "halt")
    /\ mi' = 1
    /\ UNCHANGED <<state, dpc, ppc, buffer_and_stream>>

MainHalt ==
    /\ mi <= Len(Registered)
    /\ MainAt("halt", "halting")
    /\ SetState(Registered[mi], "Sleep")
    /\ UNCHANGED <<dpc, ppc, mi, buffer_and_stream>>

\* Mutant: the thread is not waited for.
MainHalted_AtOnce ==
    /\ MainAt("halting", "halt")
    /\ mi' = mi + 1
    /\ UNCHANGED <<state, dpc, ppc, buffer_and_stream>>

MainHalted ==
    /\ MainAt("halting", "halt")
    /\ state[Registered[mi]] # "Sleep"
    /\ mi' = mi + 1
    /\ UNCHANGED <<state, dpc, ppc, buffer_and_stream>>

\* MPXPSystem::seek: the stream goes on somewhere else.
MainSeek ==
    /\ mi > Len(Registered)
    /\ MainAt("halt", "reset")
    /\ pos' \in 0 .. FileUnits /\ heard' = pos' /\ last' = pos'
    /\ audio_eof' = FALSE /\ ds_eof' = FALSE
    /\ UNCHANGED <<state, dpc, ppc, mi, head, tail, len, buf_eof, HasReset,
                   tail_mutex>>

\* xmp_restart_threads: reset_audio_buffer, then one thread after the other.
MainReset ==
    /\ tail_mutex = "free"
    /\ MainAt("reset", "restart")
    /\ tail' = head /\ len' = Size /\ buf_eof' = FALSE /\ HasReset' = TRUE
    /\ mi' = 1
    /\ UNCHANGED <<state, dpc, ppc, head, tail_mutex, audio_eof, ds_eof, pos, last,
                   heard>>

MainRestart ==
    /\ mi <= Len(Registered)
    /\ MainAt("restart", "restarting")
    /\ SetState(Registered[mi], "Run")
    /\ UNCHANGED <<dpc, ppc, mi, buffer_and_stream>>

MainRestarted ==
    /\ MainAt("restarting", "restart")
    /\ state[Registered[mi]] # "ASleep"
    /\ mi' = mi + 1
    /\ UNCHANGED <<state, dpc, ppc, buffer_and_stream>>

MainResume ==
    /\ mi > Len(Registered)
    /\ MainAt("restart", "loop")
    /\ UNCHANGED <<state, dpc, ppc, mi, buffer_and_stream>>

MainPlay ==
    \/ MainRunDecoder \/ MainRunPlayer \/ MainPlayerRuns \/ MainAudioEof
    \/ MainStop \/ MainStopped \/ MainUninit

MainSeeking ==
    \/ MainHalt \/ MainHalted \/ MainSeek \/ MainReset \/ MainRestart
    \/ MainRestarted \/ MainResume

-----------------------------------------------------------------------------
PlayNext ==
    \/ DecoderNext
    \/ PlayerNext
    \/ (MainPlay \/ MainQuit) /\ MainLeaves

SeekNext ==
    \/ PlayNext
    \/ (MainSeekKey \/ MainSeeking) /\ MainLeaves

\* Each thread is scheduled again and again.
Fairness ==
    /\ WF_vars(DecoderNext)
    /\ WF_vars(PlayerNext)
    /\ WF_vars((MainPlay \/ MainSeeking) /\ MainLeaves)

PlaySpec == Init /\ [][PlayNext]_vars /\ Fairness
SeekSpec == Init /\ [][SeekNext]_vars /\ Fairness

-----------------------------------------------------------------------------
(* Safety.                                                                 *)

DecoderPlaces ==
    {"none", "start", "clear_eof", "top", "sleep", "asleep", "free", "free_len",
     "free_head", "free_room", "used", "dec", "dec_len", "dec_head",
     "dec_bound", "dec_room", "run", "set_eof", "broadcast", "len", "full_lap",
     "signal", "almost_empty", "idle", "end_of_work", "exit", "done"}
PlayerPlaces ==
    {"none", "start", "top", "sleep", "asleep", "decore", "lock", "loop",
     "test_eof", "wait", "blocked", "relock", "span", "span_end", "copy",
     "test_end", "rewind", "return", "result", "played", "exit", "done"}
MainPlaces ==
    {"run_decoder", "wait_decoder", "wait_player", "loop", "halt", "halting",
     "reset", "restart", "restarting", "stop", "stopping", "done"}

\* Every variable has its type; head and tail stay inside the buffer, and so
\* does all the decoder may write and the player may copy, no more than asked.
TypeOK ==
    /\ head \in 0 .. Size /\ tail \in 0 .. Size /\ len \in 0 .. Size
    /\ cell \in [0 .. Size - 1 -> 0 .. FileUnits]
    /\ {buf_eof, HasReset, audio_eof, ds_eof} \subseteq BOOLEAN
    /\ tail_mutex \in {"free", "player"}
    /\ state \in [Threads -> PthStates]
    /\ dpc \in DecoderPlaces /\ ppc \in PlayerPlaces /\ mpc \in MainPlaces
    /\ pos \in 0 .. FileUnits /\ want \in 0 .. Size /\ room \in 0 .. Size
    /\ dpc = "run" => head + room <= Size
    /\ ask \in Nat \X Nat /\ got \in Nat /\ span \in 0 .. Size
    /\ ppc = "return" => got <= ask[2]
    /\ ppc = "copy" => tail + span <= Size
    /\ {first, last, heard} \subseteq 0 .. FileUnits
    /\ mi \in 1 .. 3

\* read_audio_buffer gives the sound in the order of the stream: each unit
\* once, none left out.
HeardInOrder ==
    [][ppc = "return" /\ ppc' = "result" /\ got > 0 =>
           first = heard + 1 /\ last = heard + got]_vars

\* While main moves the demuxer and resets the buffer neither thread is in
\* its loop, so nobody holds a mutex or waits for one.
SeekExclusive ==
    mpc = "reset" => /\ dpc \in {"asleep", "done"} /\ ppc \in {"asleep", "done"}
                     /\ tail_mutex = "free"

-----------------------------------------------------------------------------
(* Liveness.                                                               *)

\* The end of the stream wakes the player that waits for more: eof is tested
\* and broadcast under tail_mutex.
EndWakesReader == ppc = "blocked" /\ buf_eof ~> ppc # "blocked"

\* The player answers xmp_halt_threads ("safe to seek while we wait").
PlayerAcksSleep == state["player"] = "Sleep" ~> state["player"] # "Sleep"
=============================================================================
