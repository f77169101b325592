----------------------------- MODULE AudioOutput -----------------------------
(***************************************************************************)
(* How sound leaves the player, with JACK as the output: the audio player  *)
(* thread (audio_play_routine, xmp_aplayer.cpp), the callback that the     *)
(* JACK server runs in a thread of its own (libao3/ao_jack.cpp), the fifo  *)
(* between them (libavutil/fifo.c), and main, which pauses, seeks and      *)
(* quits.  No lock protects the fifo.                                      *)
(*                                                                         *)
(* A unit of sound is its number.  The player's critical sections under    *)
(* audio_play_mutex are single steps: each ends in its only wait, and main *)
(* takes the mutex only to signal.  The waits with a timeout are steps     *)
(* that take a while.  Of the audio decoder (AudioAhead) only what the     *)
(* player waits for is here: that it feeds the ring while it is in its     *)
(* loop, and that main halts or cancels it before the player.              *)
(*                                                                         *)
(* Assumed: what a thread stores becomes visible to the other in the order *)
(* of the program.  fifo.c:111, 125 and 134 say that memory barriers are   *)
(* needed for SMP there, and there are none: neither a compiler that       *)
(* exchanges the stores nor hardware that does (unlike x86) is modelled.   *)
(***************************************************************************)
EXTENDS Integers, FiniteSets

CONSTANTS
    BufSize,        \* BUFFSIZE: size of the fifo
    UIntRange,      \* 2^32: range of the fifo's counters
    Outburst,       \* MAX_OUTBURST: the most that is played at once
    ABufSize,       \* sh_audio->a_buffer_size
    NFrames,        \* the numbers of frames JACK may ask for
    FileUnits,      \* length of the stream
    MaxSeeks,       \* bound on seeks
    HasVideo        \* the file has pictures

ASSUME FifoAssumption ==
    /\ BufSize \in Nat \ {0} /\ Outburst \in Nat \ {0}
    /\ UIntRange \in Nat /\ UIntRange > BufSize
ASSUME SoundAssumption ==
    /\ ABufSize \in Nat /\ ABufSize >= Outburst
    /\ NFrames \subseteq Nat \ {0}
    /\ FileUnits \in Nat /\ MaxSeeks \in Nat /\ HasVideo \in BOOLEAN

VARIABLES
    wndx, rndx, wptr, rptr, cell,   \* AVFifoBuffer
    paused, underrun,               \* Jack_AO_Interface
    in_pause, can_aseek,            \* xp_core->in_pause, dec_ahead_can_aseek
    state,                          \* mpxp_thread_t.state of the player
    audio_eof, a_len, src,          \* xp_core->audio->eof, a_buffer_len, and
                                    \*   units read from the decoder
    ppc, playsize,                  \* player: place, size of this burst
    cpc, frames, left, short,       \* callback: place, nframes, locals
    mpc, seeks,                     \* main: place, seeks so far
    decoding,                       \* the audio decoder is in its loop
    heard,                          \* history: last unit that was played
    torn                            \* history: a reset hit a callback

fifoVars == <<wndx, rndx, wptr, rptr, cell>>
sourceVars == <<audio_eof, a_len, src>>
playVars == <<ppc, playsize>>
callVars == <<cpc, frames, left, short>>
mainVars == <<mpc, seeks, decoding, in_pause, paused, torn>>
vars == <<fifoVars, underrun, can_aseek, state, sourceVars, playVars,
          callVars, mainVars, heard>>

Broken == -1                \* value of heard after a unit out of order
Smaller(a, b) == IF a < b THEN a ELSE b

\* jack_activate, and the start of audio_play_routine
Init ==
    /\ wndx = 0 /\ rndx = 0 /\ wptr = 0 /\ rptr = 0
    /\ cell = [i \in 0 .. BufSize - 1 |-> 0]
    /\ paused = FALSE /\ underrun = FALSE
    /\ in_pause = FALSE /\ can_aseek = FALSE /\ state = "Run"
    /\ audio_eof = FALSE /\ a_len = 0 /\ src = 0
    /\ ppc = "top" /\ playsize = 0
    /\ cpc = "idle" /\ frames = 0 /\ left = 0 /\ short = FALSE
    /\ mpc = "play" /\ seeks = 0 /\ decoding = TRUE
    /\ heard = 0 /\ torn = FALSE

-----------------------------------------------------------------------------
(* The fifo.                                                               *)

Size == (wndx - rndx) % UIntRange           \* av_fifo_size
Space == BufSize - Size                     \* av_fifo_space

-----------------------------------------------------------------------------
(* The player thread.                                                      *)

At(from, to) == ppc = from /\ ppc' = to
OthersOfPlayer == UNCHANGED <<rndx, rptr, callVars, mainVars, heard>>

PlayerTop ==
    /\ \/ state = "Canceling" /\ At("top", "exit") /\ UNCHANGED state
       \/ state = "Sleep" /\ At("top", "asleep") /\ state' = "ASleep"
       \/ state = "Run" /\ At("top", "space") /\ UNCHANGED state
    /\ UNCHANGED <<wndx, wptr, cell, underrun, can_aseek, sourceVars, playsize>>
    /\ OthersOfPlayer

PlayerWake ==
    /\ At("asleep", "top")
    /\ state # "ASleep"
    /\ UNCHANGED <<wndx, wptr, cell, underrun, can_aseek, state, sourceVars,
                   playsize>>
    /\ OthersOfPlayer

\* decore_audio: without pictures it tries again until there is room.
PlayerSpace ==
    /\ playsize' = Smaller(Space, Outburst)
    /\ At("space", IF Space # 0 THEN "fill"
                   ELSE IF HasVideo THEN "safe" ELSE "space")
    /\ UNCHANGED <<wndx, wptr, cell, underrun, can_aseek, state, sourceVars>>
    /\ OthersOfPlayer

\* Until there is enough, or a read gives nothing, or the stream ends:
\* read_audio_buffer gives some sound ...
PlayerFill ==
    /\ ppc = "fill"
    /\ UNCHANGED can_aseek
    /\ \/ ppc' = "clear" /\ UNCHANGED sourceVars
       \/ /\ a_len < playsize /\ ~audio_eof
          /\ src = FileUnits
          /\ audio_eof' = TRUE /\ ppc' = "clear" /\ UNCHANGED <<a_len, src>>
       \/ /\ a_len < playsize /\ ~audio_eof
          /\ \E n \in 1 .. Smaller(ABufSize - a_len, FileUnits - src) :
                 a_len' = a_len + n /\ src' = src + n
          /\ UNCHANGED <<audio_eof, ppc>>
    /\ UNCHANGED <<wndx, wptr, cell, underrun, state, playsize>>
    /\ OthersOfPlayer

\* ... or finds the ring empty and its end not reported, and waits for the
\* decoder in pthread_cond_wait.
PlayerStarve ==
    /\ a_len < playsize /\ ~audio_eof
    /\ At("fill", "starved")
    /\ can_aseek' = TRUE
    /\ UNCHANGED <<wndx, wptr, cell, underrun, state, sourceVars, playsize>>
    /\ OthersOfPlayer

\* Woken, it takes what the decoder has brought, or learns of the end.
PlayerFed ==
    /\ can_aseek' = FALSE
    /\ \/ At("fed", "fill") /\ UNCHANGED audio_eof
          /\ \E n \in 1 .. Smaller(ABufSize - a_len, FileUnits - src) :
                 a_len' = a_len + n /\ src' = src + n
       \/ At("fed", "clear") /\ src = FileUnits
          /\ audio_eof' = TRUE /\ UNCHANGED <<a_len, src>>
    /\ UNCHANGED <<wndx, wptr, cell, underrun, state, playsize>>
    /\ OthersOfPlayer

\* Jack_AO_Interface::play
PlayerClear ==
    /\ At("clear", "room")
    /\ playsize' = Smaller(playsize, a_len)
    /\ underrun' = FALSE
    /\ UNCHANGED <<wndx, wptr, cell, can_aseek, state, sourceVars>>
    /\ OthersOfPlayer

\* write_buffer
PlayerRoom ==
    /\ At("room", "write")
    /\ playsize' = Smaller(playsize, Space)
    /\ UNCHANGED <<wndx, wptr, cell, underrun, can_aseek, state, sourceVars>>
    /\ OthersOfPlayer

\* av_fifo_generic_write fills the cells ...
PlayerWrite ==
    /\ At("write", "publish")
    /\ cell' = [i \in 0 .. BufSize - 1 |->
                   LET k == (i - wptr) % BufSize
                   IN  IF k < playsize THEN src - a_len + 1 + k ELSE cell[i]]
    /\ UNCHANGED <<wndx, wptr, underrun, can_aseek, state, sourceVars, playsize>>
    /\ OthersOfPlayer

\* ... and then says so, which the callback is assumed to see after the cells
\* ("Write memory barrier needed for SMP here in theory").
PlayerPublish ==
    /\ At("publish", "safe")
    /\ wndx' = (wndx + playsize) % UIntRange
    /\ wptr' = (wptr + playsize) % BufSize
    /\ a_len' = a_len - playsize
    /\ UNCHANGED <<cell, underrun, can_aseek, state, audio_eof, src, playsize>>
    /\ OthersOfPlayer

Step(from, to) == At(from, IF state = "Canceling" THEN "exit" ELSE to)

\* Mutant: seeking is never safe.
PlayerSafe_Never ==
    /\ Step("safe", "doze")
    /\ UNCHANGED <<wndx, wptr, cell, underrun, can_aseek, state, sourceVars,
                   playsize>>
    /\ OthersOfPlayer

\* "Safe for other threads to seek"; then the wait for the sound card
PlayerSafe ==
    /\ Step("safe", "doze")
    /\ can_aseek' = IF state = "Canceling" THEN can_aseek ELSE TRUE
    /\ UNCHANGED <<wndx, wptr, cell, underrun, state, sourceVars, playsize>>
    /\ OthersOfPlayer

PlayerDoze ==
    /\ Step("doze", "pause")
    /\ UNCHANGED <<wndx, wptr, cell, underrun, can_aseek, state, sourceVars,
                   playsize>>
    /\ OthersOfPlayer

\* Under audio_play_mutex: wait while the player is paused.
PlayerPause ==
    /\ Step("pause", IF in_pause THEN "waiting" ELSE "unsafe")
    /\ UNCHANGED <<wndx, wptr, cell, underrun, can_aseek, state, sourceVars,
                   playsize>>
    /\ OthersOfPlayer

PlayerUnsafe ==
    /\ Step("unsafe", "top")
    /\ can_aseek' = IF state = "Canceling" THEN can_aseek ELSE FALSE
    /\ UNCHANGED <<wndx, wptr, cell, underrun, state, sourceVars, playsize>>
    /\ OthersOfPlayer

\* Mutant: the thread does not say that it has left.
PlayerExit_Silent ==
    /\ At("exit", "gone")
    /\ can_aseek' = TRUE
    /\ UNCHANGED <<wndx, wptr, cell, underrun, state, sourceVars, playsize>>
    /\ OthersOfPlayer

PlayerExit ==
    /\ At("exit", "gone")
    /\ can_aseek' = TRUE /\ state' = "Stand"
    /\ UNCHANGED <<wndx, wptr, cell, underrun, sourceVars, playsize>>
    /\ OthersOfPlayer

Player ==
    \/ PlayerTop \/ PlayerWake \/ PlayerSpace \/ PlayerFill \/ PlayerStarve
    \/ PlayerFed \/ PlayerClear \/ PlayerRoom \/ PlayerWrite \/ PlayerPublish
    \/ PlayerSafe \/ PlayerDoze \/ PlayerPause \/ PlayerUnsafe \/ PlayerExit

-----------------------------------------------------------------------------
(* The audio decoder, as far as the player depends on it.                  *)

\* decode_audio_buffer: it brings sound, or reports the end, and wakes the
\* player.  (A wake that brings neither sends the player back to its wait.)
DecoderFeeds ==
    /\ decoding
    /\ At("starved", "fed")
    /\ UNCHANGED <<wndx, wptr, cell, underrun, can_aseek, state, sourceVars,
                   playsize>>
    /\ OthersOfPlayer

\* a_dec_ahead_routine answers Pth_Sleep or Pth_Canceling and wakes nobody.
DecoderStops ==
    /\ mpc \in {"halt_dec", "stop_dec"}
    /\ decoding /\ decoding' = FALSE
    /\ UNCHANGED <<fifoVars, underrun, can_aseek, state, sourceVars, playVars,
                   callVars, mpc, seeks, in_pause, paused, torn, heard>>

Decoder == DecoderFeeds \/ DecoderStops

-----------------------------------------------------------------------------
(* The callback, Jack_AO_Interface::outputaudio.  Silence changes nothing. *)

CallAt(from, to) == cpc = from /\ cpc' = to
OthersOfCallback ==
    UNCHANGED <<wndx, wptr, cell, can_aseek, state, sourceVars, playVars,
                mainVars>>

CallbackStart ==
    /\ mpc \notin {"close", "closed"}
    /\ CallAt("idle", IF paused THEN "idle" ELSE "underrun")
    /\ frames' \in NFrames
    /\ UNCHANGED <<rndx, rptr, left, short, underrun, heard>>
    /\ OthersOfCallback

CallbackTest ==
    /\ CallAt("underrun", IF underrun THEN "idle" ELSE "size")
    /\ UNCHANGED <<rndx, rptr, frames, left, short, underrun, heard>>
    /\ OthersOfCallback

\* read_buffer: what is missing is silence.
CallbackSize ==
    /\ CallAt("size", "copy")
    /\ short' = (frames > Size)
    /\ left' = Smaller(frames, Size)
    /\ UNCHANGED <<rndx, rptr, frames, underrun, heard>>
    /\ OthersOfCallback

\* av_fifo_generic_read: one piece up to the end of the memory ...
Piece == Smaller(BufSize - rptr, left)

CallbackCopy ==
    /\ CallAt("copy", "drain")
    /\ heard' = IF \A k \in 0 .. Piece - 1 : cell[rptr + k] = heard + 1 + k
                THEN heard + Piece ELSE Broken
    /\ UNCHANGED <<rndx, rptr, frames, left, short, underrun>>
    /\ OthersOfCallback

\* Mutant: rptr is not taken back to the start of the memory.
CallbackDrain_NoWrap ==
    /\ CallAt("drain", IF left > Piece THEN "copy"
                       ELSE IF short THEN "short" ELSE "idle")
    /\ rptr' = rptr + Piece
    /\ rndx' = (rndx + Piece) % UIntRange
    /\ left' = left - Piece
    /\ UNCHANGED <<frames, short, underrun, heard>>
    /\ OthersOfCallback

\* ... after the other.
CallbackDrain ==
    /\ CallAt("drain", IF left > Piece THEN "copy"
                       ELSE IF short THEN "short" ELSE "idle")
    /\ rptr' = (rptr + Piece) % BufSize
    /\ rndx' = (rndx + Piece) % UIntRange
    /\ left' = left - Piece
    /\ UNCHANGED <<frames, short, underrun, heard>>
    /\ OthersOfCallback

CallbackShort ==
    /\ CallAt("short", "idle")
    /\ underrun' = TRUE
    /\ UNCHANGED <<rndx, rptr, frames, left, short, heard>>
    /\ OthersOfCallback

Callback ==
    \/ CallbackStart \/ CallbackTest \/ CallbackSize \/ CallbackCopy
    \/ CallbackDrain \/ CallbackShort

-----------------------------------------------------------------------------
(* Main.                                                                   *)

MainAt(from, to) == mpc = from /\ mpc' = to
OthersOfMain ==
    UNCHANGED <<cell, underrun, can_aseek, playVars, callVars, decoding>>

\* paint_osd
MainPause ==
    /\ MainAt("play", "spin")
    /\ in_pause' = TRUE
    /\ UNCHANGED <<wndx, rndx, wptr, rptr, state, sourceVars, seeks, paused,
                   torn, heard>>
    /\ OthersOfMain

MainHold ==
    /\ MainAt("spin", "paused")
    /\ can_aseek
    /\ paused' = TRUE
    /\ UNCHANGED <<wndx, rndx, wptr, rptr, state, sourceVars, seeks, in_pause,
                   torn, heard>>
    /\ OthersOfMain

MainResume ==
    /\ MainAt("paused", "clear")
    /\ paused' = FALSE
    /\ UNCHANGED <<wndx, rndx, wptr, rptr, state, sourceVars, seeks, in_pause,
                   torn, heard>>
    /\ OthersOfMain

MainClear ==
    /\ MainAt("clear", "signal")
    /\ in_pause' = FALSE
    /\ UNCHANGED <<wndx, rndx, wptr, rptr, state, sourceVars, seeks, paused,
                   torn, heard>>
    /\ OthersOfMain

\* Mutant: nobody is woken.
MainSignal_Forget ==
    /\ MainAt("signal", "play")
    /\ UNCHANGED <<fifoVars, underrun, can_aseek, state, sourceVars, playVars,
                   callVars, seeks, decoding, in_pause, paused, torn, heard>>

\* pthread_cond_signal: the player tests in_pause again.
MainSignal ==
    /\ MainAt("signal", "play")
    /\ ppc' = IF ppc = "waiting" THEN "pause" ELSE ppc
    /\ UNCHANGED <<fifoVars, underrun, can_aseek, state, sourceVars, playsize,
                   callVars, seeks, decoding, in_pause, paused, torn, heard>>

\* xmp_halt_threads before a seek, xmp_stop_threads before the end: the
\* decoder, registered first, is asked first ...
MainHaltDecoder ==
    /\ \/ MainAt("play", "halt_dec") /\ seeks < MaxSeeks /\ seeks' = seeks + 1
       \/ MainAt("play", "stop_dec") /\ UNCHANGED seeks
    /\ UNCHANGED <<wndx, rndx, wptr, rptr, state, sourceVars, in_pause, paused,
                   torn, heard>>
    /\ OthersOfMain

\* ... and once it has answered, the player.
MainHalt ==
    /\ ~decoding
    /\ \/ MainAt("halt_dec", "halt") /\ state' = "Sleep"
       \/ MainAt("stop_dec", "stop") /\ state' = "Canceling"
    /\ UNCHANGED <<wndx, rndx, wptr, rptr, sourceVars, seeks, in_pause, paused,
                   torn, heard>>
    /\ OthersOfMain

\* Mutants: main does not wait; the demuxer leaves a_buffer alone.
MainHalted_Hasty ==
    /\ \/ MainAt("halt", "reset") /\ audio_eof' = FALSE /\ a_len' = 0
          /\ UNCHANGED src
       \/ MainAt("stop", "reset") /\ UNCHANGED sourceVars
    /\ UNCHANGED <<wndx, rndx, wptr, rptr, state, seeks, in_pause, paused, torn,
                   heard>>
    /\ OthersOfMain

MainHalted_KeepSound ==
    /\ \/ MainAt("halt", "reset") /\ state # "Sleep"
          /\ audio_eof' = FALSE /\ UNCHANGED <<a_len, src>>
       \/ MainAt("stop", "reset") /\ state # "Canceling"
          /\ UNCHANGED sourceVars
    /\ UNCHANGED <<wndx, rndx, wptr, rptr, state, seeks, in_pause, paused, torn,
                   heard>>
    /\ OthersOfMain

\* It spins until the thread has answered; then the demuxer empties a_buffer,
\* unless the file cannot be sought.
MainHalted ==
    /\ \/ MainAt("halt", "reset") /\ state # "Sleep"
          /\ audio_eof' = FALSE /\ a_len' = 0 /\ UNCHANGED src
       \/ MainAt("halt", "restart") /\ state # "Sleep"
          /\ audio_eof' = FALSE /\ UNCHANGED <<a_len, src>>
       \/ MainAt("stop", "reset") /\ state # "Canceling"
          /\ UNCHANGED sourceVars
    /\ UNCHANGED <<wndx, rndx, wptr, rptr, state, seeks, in_pause, paused, torn,
                   heard>>
    /\ OthersOfMain

\* Jack_AO_Interface::reset, av_fifo_reset
MainReset ==
    /\ MainAt("reset", "reset_ptr")
    /\ paused' = TRUE
    /\ UNCHANGED <<wndx, rndx, wptr, rptr, state, sourceVars, seeks, in_pause,
                   torn, heard>>
    /\ OthersOfMain

InRead == cpc \in {"underrun", "size", "copy", "drain"}     \* paused is tested

\* Mutant: the read pointer stays.
MainResetPtr_WriteOnly ==
    /\ MainAt("reset_ptr", "reset_rndx")
    /\ wptr' = 0
    /\ heard' = src /\ torn' = InRead
    /\ UNCHANGED <<wndx, rndx, rptr, state, sourceVars, seeks, in_pause, paused>>
    /\ OthersOfMain

MainResetPtr ==
    /\ MainAt("reset_ptr", "reset_rndx")
    /\ wptr' = 0 /\ rptr' = 0
    /\ heard' = src /\ torn' = InRead
    /\ UNCHANGED <<wndx, rndx, state, sourceVars, seeks, in_pause, paused>>
    /\ OthersOfMain

MainResetRead ==
    /\ MainAt("reset_rndx", "reset_wndx")
    /\ rndx' = 0 /\ torn' = InRead
    /\ UNCHANGED <<wndx, wptr, rptr, state, sourceVars, seeks, in_pause, paused,
                   heard>>
    /\ OthersOfMain

MainResetWrite ==
    /\ MainAt("reset_wndx", "reset_end")
    /\ wndx' = 0 /\ torn' = InRead
    /\ UNCHANGED <<rndx, wptr, rptr, state, sourceVars, seeks, in_pause, paused,
                   heard>>
    /\ OthersOfMain

MainResetEnd ==
    /\ MainAt("reset_end", IF state = "Stand" THEN "close" ELSE "restart")
    /\ paused' = FALSE
    /\ UNCHANGED <<wndx, rndx, wptr, rptr, state, sourceVars, seeks, in_pause,
                   torn, heard>>
    /\ OthersOfMain

\* xmp_restart_threads, the decoder before the player
MainRestart ==
    /\ MainAt("restart", "play")
    /\ decoding' = TRUE /\ state' = "Run"
    /\ UNCHANGED <<fifoVars, underrun, can_aseek, sourceVars, playVars, callVars,
                   seeks, in_pause, paused, torn, heard>>

\* ~Jack_AO_Interface: jack_client_close starts no callback any more and
\* waits for the one that runs.
MainClose ==
    /\ MainAt("close", "closed")
    /\ cpc = "idle"
    /\ UNCHANGED <<wndx, rndx, wptr, rptr, state, sourceVars, seeks, in_pause,
                   paused, torn, heard>>
    /\ OthersOfMain

User == MainPause \/ MainResume \/ MainHaltDecoder
Main ==
    \/ MainHalt \/ MainHold \/ MainClear \/ MainSignal \/ MainHalted \/ MainReset
    \/ MainResetPtr \/ MainResetRead \/ MainResetWrite \/ MainResetEnd
    \/ MainRestart \/ MainClose

-----------------------------------------------------------------------------

\* What the fifo holds once a reset has hit a callback is not defined, and
\* the model ends there.
Next == ~torn /\ (Player \/ Callback \/ Decoder \/ User \/ Main)

\* The player, the callback and main are scheduled again and again, and the
\* server calls again and again.  Nothing is asked of the decoder: it may be
\* slow, or blocked, for ever.

Spec ==
    /\ Init /\ [][Next]_vars
    /\ WF_vars(~torn /\ Player) /\ WF_vars(~torn /\ Callback)
    /\ WF_vars(~torn /\ Main)

-----------------------------------------------------------------------------

NumbersOK ==
    /\ wndx \in 0 .. UIntRange - 1 /\ rndx \in 0 .. UIntRange - 1
    /\ wptr \in 0 .. BufSize - 1 /\ rptr \in 0 .. BufSize - 1
    /\ cell \in [0 .. BufSize - 1 -> 0 .. FileUnits]
    /\ a_len \in 0 .. ABufSize /\ src \in 0 .. FileUnits
    /\ playsize \in 0 .. Outburst
    /\ frames \in NFrames \cup {0} /\ left \in 0 .. frames
    /\ seeks \in 0 .. MaxSeeks /\ heard \in -1 .. FileUnits

FlagsOK ==
    /\ paused \in BOOLEAN /\ underrun \in BOOLEAN /\ in_pause \in BOOLEAN
    /\ can_aseek \in BOOLEAN /\ audio_eof \in BOOLEAN /\ short \in BOOLEAN
    /\ torn \in BOOLEAN /\ decoding \in BOOLEAN
    /\ state \in {"Run", "Sleep", "ASleep", "Canceling", "Stand"}

TypeOK == NumbersOK /\ FlagsOK

\* The fifo (ao_jack.cpp, fifo.c) is never over-full and its two counters and
\* its two pointers agree, whenever the callback and the player run into each
\* other and however the counters wrap; main resets it only while the player
\* sleeps or is gone.
InReset == mpc \in {"reset_rndx", "reset_wndx"}
FifoSound ==
    ~torn /\ ~InReset =>
        Size <= BufSize /\ (wptr - rptr - Size) % BufSize = 0

\* The card gets every unit once and in order, silence aside, up to a seek
\* and after it: the callback never reads a cell that is not written yet or
\* is being written again.  Two things are taken for granted: the stores of
\* the fifo are seen in program order (no memory barrier enforces it), and no
\* reset meets a callback that has passed its test of paused (ao_jack.cpp:310,
\* ~torn): what follows such a meeting is not looked at.
HeardInOrder == ~torn => heard # Broken

\* reset (main.cpp:618) and the clearing of a_buffer never meet play: the
\* player thread is asleep or gone.
ResetAlone ==
    mpc \in {"reset", "reset_ptr", "reset_rndx", "reset_wndx", "reset_end"}
        => ppc \in {"asleep", "gone"}

\* A pause does not hang (main.cpp:1211): while main waits for it, the player
\* says that it is safe, be it from its wait for the decoder.
PauseHolds == (mpc = "spin") ~> (mpc = "paused" \/ torn)

\* The player waits for a decoder that has left its loop: nobody signals
\* wait_buffer_cond any more (uninit_audio_buffer does so after the stop).
Abandoned == ppc = "starved" /\ ~decoding

\* When the decoder has answered xmp_stop_threads, the player does so too, at
\* whatever point of its loop the cancel meets it, and the output is closed
\* (xmp_core.cpp:348): all but in one place, the wait for sound from that
\* decoder, where main spins for ever.
StopEnds == (mpc = "stop") ~> (mpc = "closed" \/ Abandoned \/ torn)

\* A player that waits in the pause is woken when it ends, even if main sets
\* in_pause while the player goes to sleep (main.cpp:1230, xmp_aplayer.cpp:255).
ResumeWakes == (ppc = "waiting" /\ ~in_pause) ~> (ppc # "waiting" \/ torn)
=============================================================================
