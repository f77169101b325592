----------------------------- MODULE VideoAhead -----------------------------
(***************************************************************************)
(* Decoding ahead of the video stream: the decoder thread                  *)
(* (xmp_video_decoder), the player thread (xmp_video_player) and the part  *)
(* of the main thread that starts, halts, restarts and stops them.  The    *)
(* threads share a ring of slots and the fields of dec_ahead_engine_t      *)
(* without a lock; a step here is at most one access to a field that       *)
(* another thread writes, so every interleaving of the code is one here.   *)
(*                                                                         *)
(* A frame is its number in the stream, which also stands for its pts.     *)
(* Modelled: trusted pts (bad_pts = 0), no reordering of pts, no           *)
(* -play.frames.  The demuxer lock and the audio threads have modules of   *)
(* their own.                                                              *)
(***************************************************************************)
EXTENDS DaeRing, Sequences

CONSTANT FileFrames         \* number of frames in the video stream
ASSUME FileFramesAssumption == FileFrames \in Nat

VARIABLES
    decoder_idx, player_idx,    \* dec_ahead_engine_t: the two indices,
    frame,                      \*   the slots,
    eof,                        \*   and the flag both threads use
    state,                      \* mpxp_thread_t.state of the two threads
    dpc,                        \* where the decoder thread is
    pos,                        \* frames the demuxer has delivered
    enc,                        \* the frame the decoder works on
    ppc,                        \* where the player thread is
    shva_prev,                  \* player: duration copied from the played slot
    can_blit,                   \* player: whether to switch to the next frame
    screen,                     \* the slot given to select_frame last
    mpc, mi                     \* where main is; the thread its loop is at

decVars == <<dpc, pos, enc>>
playVars == <<ppc, shva_prev, can_blit, screen>>
mainVars == <<mpc, mi>>
vars == <<decoder_idx, player_idx, frame, eof, state, decVars, playVars,
          mainVars>>

HUGE == FileFrames + 1      \* HUGE_VALF: above every pts, marks the end
VPts == 0 .. HUGE
Outrun == dae_get_decoder_outrun(decoder_idx, player_idx)

Threads == {"decoder", "player"}
Registered == <<"decoder", "player">>   \* mpxp_threads[1], mpxp_threads[2]
PthStates == {"Stand", "Canceling", "Run", "Sleep", "ASleep"}
SetState(t, s) == state' = [state EXCEPT ![t] = s]

Init ==
    /\ decoder_idx = 0 /\ player_idx = 0
    /\ frame = [i \in Slots |-> [v_pts |-> 0, duration |-> 0]]
    /\ eof = FALSE
    /\ state = [t \in Threads |-> "Stand"]
    /\ dpc = "none" /\ pos = 0 /\ enc = 0
    /\ ppc = "none" /\ shva_prev = 0 /\ can_blit = FALSE /\ screen = 0
    /\ mpc = "run_decoders" /\ mi = 1

-----------------------------------------------------------------------------
(* The decoder thread.                                                     *)

\* Moves the decoder and leaves everything but the variables of its step.
DecoderAt(from, to) == dpc = from /\ dpc' = to

DecoderStart ==
    /\ DecoderAt("start", "clear_eof")
    /\ SetState("decoder", "Run")
    /\ UNCHANGED <<decoder_idx, frame, eof, pos, enc>>

DecoderClearEof ==
    /\ DecoderAt("clear_eof", "top")
    /\ eof' = FALSE
    /\ UNCHANGED <<decoder_idx, frame, state, pos, enc>>

\* The head of the loop: leave at end of stream or when canceled, sleep when
\* told to, otherwise go for the next frame.
DecoderTop ==
    /\ \/ eof /\ DecoderAt("top", "exit")
       \/ ~eof /\ state["decoder"] = "Canceling" /\ DecoderAt("top", "exit")
       \/ ~eof /\ state["decoder"] = "Sleep" /\ DecoderAt("top", "sleep")
       \/ /\ ~eof /\ state["decoder"] \notin {"Canceling", "Sleep"}
          /\ DecoderAt("top", "read")
    /\ UNCHANGED <<decoder_idx, frame, eof, state, pos, enc>>

DecoderSleep ==
    /\ DecoderAt("sleep", "asleep")
    /\ SetState("decoder", "ASleep")
    /\ UNCHANGED <<decoder_idx, frame, eof, pos, enc>>

DecoderWake ==
    /\ DecoderAt("asleep", "top")
    /\ state["decoder"] # "ASleep"
    /\ UNCHANGED <<decoder_idx, frame, eof, state, pos, enc>>

\* video_read_frame_r: the next frame, or none at the end of the stream.
DecoderRead ==
    /\ \/ pos < FileFrames /\ pos' = pos + 1 /\ enc' = pos + 1
          /\ DecoderAt("read", "decode")
       \/ pos = FileFrames /\ UNCHANGED <<pos, enc>>
          /\ DecoderAt("read", "mark_eof")
    /\ UNCHANGED <<decoder_idx, frame, eof, state>>

\* dae_decoded_mark_eof
DecoderMarkEof ==
    /\ DecoderAt("mark_eof", "set_eof")
    /\ frame' = [frame EXCEPT ![decoder_idx].v_pts = HUGE]
    /\ UNCHANGED <<decoder_idx, eof, state, pos, enc>>

DecoderSetEof ==
    /\ DecoderAt("set_eof", "exit")
    /\ eof' = TRUE
    /\ UNCHANGED <<decoder_idx, frame, state, pos, enc>>

\* The codec draws into the surface of decoder_idx while the thread is here.
\* It gives a picture, or none (blit_frame = 0: a delayed or dropped frame).
DecoderDecode ==
    /\ \E blit_frame \in BOOLEAN :
           DecoderAt("decode", IF blit_frame THEN "fill" ELSE "top")
    /\ UNCHANGED <<decoder_idx, frame, eof, state, pos, enc>>

DecoderFill ==
    /\ DecoderAt("fill", "set_duration")
    /\ frame' = [frame EXCEPT ![decoder_idx] = [v_pts |-> enc, duration |-> 0]]
    /\ UNCHANGED <<decoder_idx, eof, state, pos, enc>>

\* Mutant: the duration goes to the slot being filled.
DecoderSetDuration_Own ==
    /\ DecoderAt("set_duration", "inc")
    /\ frame' = [frame EXCEPT ![decoder_idx].duration = enc - frame[decoder_idx].v_pts]
    /\ UNCHANGED <<decoder_idx, eof, state, pos, enc>>

\* The duration of the frame before is known now.
DecoderSetDuration ==
    LET prev == dae_prev(decoder_idx)
    IN /\ DecoderAt("set_duration", "inc")
       /\ frame' = [frame EXCEPT ![prev].duration = enc - frame[prev].v_pts]
       /\ UNCHANGED <<decoder_idx, eof, state, pos, enc>>

\* Mutant: dae_inc_decoded does not test for a full ring.
DecoderIncTest_Unchecked ==
    /\ DecoderAt("inc", "publish")
    /\ UNCHANGED <<decoder_idx, frame, eof, state, pos, enc>>

\* The test of dae_inc_decoded, and the loop around it while the ring is full.
DecoderIncTest ==
    /\ \/ dae_next(decoder_idx) # player_idx /\ DecoderAt("inc", "publish")
       \/ /\ dae_next(decoder_idx) = player_idx
          /\ \/ state["decoder"] = "Canceling" /\ DecoderAt("inc", "exit")
             \/ state["decoder"] = "Sleep" /\ DecoderAt("inc", "sleep")
    /\ UNCHANGED <<decoder_idx, frame, eof, state, pos, enc>>

\* The store of dae_inc_decoded.
DecoderPublish ==
    /\ DecoderAt("publish", "top")
    /\ decoder_idx' = dae_next(decoder_idx)
    /\ UNCHANGED <<frame, eof, state, pos, enc>>

DecoderExit ==
    /\ DecoderAt("exit", "done")
    /\ SetState("decoder", "Stand")
    /\ UNCHANGED <<decoder_idx, frame, eof, pos, enc>>

DecoderStep ==
    \/ DecoderStart \/ DecoderClearEof \/ DecoderTop \/ DecoderSleep
    \/ DecoderWake \/ DecoderRead \/ DecoderMarkEof \/ DecoderSetEof
    \/ DecoderDecode \/ DecoderFill \/ DecoderSetDuration \/ DecoderIncTest
    \/ DecoderPublish \/ DecoderExit

DecoderNext == DecoderStep /\ UNCHANGED <<player_idx, playVars, mainVars>>

-----------------------------------------------------------------------------
(* The player thread: xmp_video_player around mpxp_play_video.             *)

PlayerAt(from, to) == ppc = from /\ ppc' = to

PlayerStart ==
    /\ PlayerAt("start", "clear_eof")
    /\ SetState("player", "Run")
    /\ UNCHANGED <<player_idx, eof, shva_prev, can_blit, screen>>

PlayerClearEof ==
    /\ PlayerAt("clear_eof", "top")
    /\ eof' = FALSE
    /\ UNCHANGED <<player_idx, state, shva_prev, can_blit, screen>>

\* Mutants: the player does not look for Pth_Canceling, or for Pth_Sleep.
PlayerTop_NoCancel ==
    /\ \/ eof /\ PlayerAt("top", "exit")
       \/ ~eof /\ state["player"] = "Sleep" /\ PlayerAt("top", "sleep")
       \/ ~eof /\ state["player"] # "Sleep" /\ PlayerAt("top", "copy")
    /\ UNCHANGED <<player_idx, eof, state, shva_prev, can_blit, screen>>

PlayerTop_NoSleep ==
    /\ \/ eof /\ PlayerAt("top", "exit")
       \/ ~eof /\ state["player"] = "Canceling" /\ PlayerAt("top", "exit")
       \/ ~eof /\ state["player"] # "Canceling" /\ PlayerAt("top", "copy")
    /\ UNCHANGED <<player_idx, eof, state, shva_prev, can_blit, screen>>

PlayerTop ==
    /\ \/ eof /\ PlayerAt("top", "exit")
       \/ ~eof /\ state["player"] = "Canceling" /\ PlayerAt("top", "exit")
       \/ ~eof /\ state["player"] = "Sleep" /\ PlayerAt("top", "sleep")
       \/ /\ ~eof /\ state["player"] \notin {"Canceling", "Sleep"}
          /\ PlayerAt("top", "copy")
    /\ UNCHANGED <<player_idx, eof, state, shva_prev, can_blit, screen>>

PlayerSleep ==
    /\ PlayerAt("sleep", "asleep")
    /\ SetState("player", "ASleep")
    /\ UNCHANGED <<player_idx, eof, shva_prev, can_blit, screen>>

PlayerWake ==
    /\ PlayerAt("asleep", "top")
    /\ state["player"] # "ASleep"
    /\ UNCHANGED <<player_idx, eof, state, shva_prev, can_blit, screen>>

\* The played slot is copied, then the end of stream tested on it.
PlayerCopy ==
    /\ shva_prev' = frame[player_idx].duration
    /\ IF eof /\ frame[player_idx].v_pts = HUGE
       THEN PlayerAt("copy", "return_eof")
       ELSE PlayerAt("copy", "try")
    /\ UNCHANGED <<player_idx, eof, state, can_blit, screen>>

\* Mutant: the test is off by one.
PlayerTry_OffByOne ==
    /\ PlayerAt("try", "force")
    /\ can_blit' = (player_idx # decoder_idx)
    /\ UNCHANGED <<player_idx, eof, state, shva_prev, screen>>

\* dae_try_inc_played
PlayerTry ==
    /\ PlayerAt("try", "force")
    /\ can_blit' = (dae_next(player_idx) # decoder_idx)
    /\ UNCHANGED <<player_idx, eof, state, shva_prev, screen>>

\* At end of stream the picture is switched whatever the indices say.
PlayerForce ==
    /\ can_blit' = (can_blit \/ eof)
    /\ PlayerAt("force", IF can_blit' THEN "wait" ELSE "return")
    /\ UNCHANGED <<player_idx, eof, state, shva_prev, screen>>

\* vplayer_do_sleep gives up: the sound card is too far behind.
PlayerWaitMore ==
    /\ PlayerAt("wait", "return")
    /\ UNCHANGED <<player_idx, eof, state, shva_prev, can_blit, screen>>

\* vplayer_do_sleep has slept until the picture is due.
PlayerWaited ==
    /\ PlayerAt("wait", "select")
    /\ UNCHANGED <<player_idx, eof, state, shva_prev, can_blit, screen>>

PlayerSelect ==
    /\ PlayerAt("select", "inc")
    /\ screen' = dae_next(player_idx)
    /\ UNCHANGED <<player_idx, eof, state, shva_prev, can_blit>>

\* Mutant: the slot is selected but the index not moved on.
PlayerIncTest_Never ==
    /\ PlayerAt("inc", "return")
    /\ UNCHANGED <<player_idx, eof, state, shva_prev, can_blit, screen>>

\* The test of dae_inc_played.
PlayerIncTest ==
    /\ PlayerAt("inc", IF dae_next(player_idx) = decoder_idx
                       THEN "return" ELSE "advance")
    /\ UNCHANGED <<player_idx, eof, state, shva_prev, can_blit, screen>>

\* The store of dae_inc_played.
PlayerAdvance ==
    /\ PlayerAt("advance", "return")
    /\ player_idx' = dae_next(player_idx)
    /\ UNCHANGED <<eof, state, shva_prev, can_blit, screen>>

\* The result of mpxp_play_video overwrites the shared eof.
PlayerReturn ==
    /\ \/ PlayerAt("return", "top") /\ eof' = FALSE
       \/ PlayerAt("return_eof", "top") /\ eof' = TRUE
    /\ UNCHANGED <<player_idx, state, shva_prev, can_blit, screen>>

PlayerExit ==
    /\ PlayerAt("exit", "done")
    /\ SetState("player", "Stand")
    /\ UNCHANGED <<player_idx, eof, shva_prev, can_blit, screen>>

PlayerStep ==
    \/ PlayerStart \/ PlayerClearEof \/ PlayerTop \/ PlayerSleep \/ PlayerWake
    \/ PlayerCopy \/ PlayerTry \/ PlayerForce \/ PlayerWaitMore \/ PlayerWaited
    \/ PlayerSelect \/ PlayerIncTest \/ PlayerAdvance \/ PlayerReturn
    \/ PlayerExit

PlayerLeaves == UNCHANGED <<decoder_idx, frame, decVars, mainVars>>
PlayerNext == PlayerStep /\ PlayerLeaves

-----------------------------------------------------------------------------
(* The main thread.                                                        *)

MainAt(from, to) == mpc = from /\ mpc' = to

\* xmp_run_decoders: create the decoder thread ...
MainRunDecoders ==
    /\ MainAt("run_decoders", "wait_decoder")
    /\ dpc' = "start"
    /\ UNCHANGED <<state, pos, ppc, mi, decoder_idx, player_idx>>

\* ... and wait until it says it runs.
MainDecoderRuns ==
    /\ MainAt("wait_decoder", "outrun")
    /\ state["decoder"] = "Run"
    /\ UNCHANGED <<state, dpc, pos, ppc, mi, decoder_idx, player_idx>>

\* Mutant: the players are started at once.
MainOutrun_AtOnce ==
    /\ MainAt("outrun", "run_players")
    /\ UNCHANGED <<state, dpc, pos, ppc, mi, decoder_idx, player_idx>>

\* dae_wait_decoder_outrun before the player exists.
MainOutrun ==
    /\ MainAt("outrun", "run_players")
    /\ Outrun >= NFrames \div 2
    /\ UNCHANGED <<state, dpc, pos, ppc, mi, decoder_idx, player_idx>>

MainRunPlayers ==
    /\ MainAt("run_players", "wait_player")
    /\ ppc' = "start"
    /\ UNCHANGED <<state, dpc, pos, mi, decoder_idx, player_idx>>

MainPlayerRuns ==
    /\ MainAt("wait_player", "loop")
    /\ state["player"] = "Run"
    /\ UNCHANGED <<state, dpc, pos, ppc, mi, decoder_idx, player_idx>>

\* The main loop leaves at dae_played_eof.
MainPlayedEof ==
    /\ MainAt("loop", "stop")
    /\ frame[player_idx].v_pts = HUGE
    /\ mi' = 1
    /\ UNCHANGED <<state, dpc, pos, ppc, decoder_idx, player_idx>>

\* The user quits.
MainQuit ==
    /\ MainAt("loop", "stop")
    /\ mi' = 1
    /\ UNCHANGED <<state, dpc, pos, ppc, decoder_idx, player_idx>>

\* xmp_stop_threads, one thread after the other.
MainStop ==
    /\ mi <= Len(Registered)
    /\ MainAt("stop", "stopping")
    /\ SetState(Registered[mi], "Canceling")
    /\ UNCHANGED <<dpc, pos, ppc, mi, decoder_idx, player_idx>>

\* Mutant: the thread is not waited for.
MainStopped_AtOnce ==
    /\ MainAt("stopping", "stop")
    /\ mi' = mi + 1
    /\ UNCHANGED <<state, dpc, pos, ppc, decoder_idx, player_idx>>

MainStopped ==
    /\ MainAt("stopping", "stop")
    /\ state[Registered[mi]] # "Canceling"
    /\ mi' = mi + 1
    /\ UNCHANGED <<state, dpc, pos, ppc, decoder_idx, player_idx>>

\* dae_uninit: the ring is freed.
MainUninit ==
    /\ mi > Len(Registered)
    /\ MainAt("stop", "done")
    /\ UNCHANGED <<state, dpc, pos, ppc, mi, decoder_idx, player_idx>>

\* The user seeks: xmp_halt_threads, one thread after the other.
MainSeekKey ==
    /\ MainAt("loop", "halt")
    /\ mi' = 1
    /\ UNCHANGED <<state, dpc, pos, ppc, decoder_idx, player_idx>>

MainHalt ==
    /\ mi <= Len(Registered)
    /\ MainAt("halt", "halting")
    /\ SetState(Registered[mi], "Sleep")
    /\ UNCHANGED <<dpc, pos, ppc, mi, decoder_idx, player_idx>>

\* Mutant: the thread is not waited for.
MainHalted_AtOnce ==
    /\ MainAt("halting", "halt")
    /\ mi' = mi + 1
    /\ UNCHANGED <<state, dpc, pos, ppc, decoder_idx, player_idx>>

MainHalted ==
    /\ MainAt("halting", "halt")
    /\ state[Registered[mi]] # "Sleep"
    /\ mi' = mi + 1
    /\ UNCHANGED <<state, dpc, pos, ppc, decoder_idx, player_idx>>

\* MPXPSystem::seek moves the demuxer ...
MainSeek ==
    /\ mi > Len(Registered)
    /\ MainAt("halt", "seek_outrun")
    /\ pos' \in 0 .. FileFrames
    /\ UNCHANGED <<state, dpc, ppc, mi, decoder_idx, player_idx>>

\* ... and ends with dae_wait_decoder_outrun.
MainSeekOutrun ==
    /\ MainAt("seek_outrun", "reset")
    /\ Outrun >= NFrames \div 2
    /\ UNCHANGED <<state, dpc, pos, ppc, mi, decoder_idx, player_idx>>

\* xmp_restart_threads: dae_reset, then one thread after the other.
MainReset ==
    /\ MainAt("reset", "restart")
    /\ decoder_idx' = 0 /\ player_idx' = 0
    /\ mi' = 1
    /\ UNCHANGED <<state, dpc, pos, ppc>>

MainRestart ==
    /\ mi <= Len(Registered)
    /\ MainAt("restart", "restarting")
    /\ SetState(Registered[mi], "Run")
    /\ UNCHANGED <<dpc, pos, ppc, mi, decoder_idx, player_idx>>

MainRestarted ==
    /\ MainAt("restarting", "restart")
    /\ state[Registered[mi]] # "ASleep"
    /\ mi' = mi + 1
    /\ UNCHANGED <<state, dpc, pos, ppc, decoder_idx, player_idx>>

MainResume ==
    /\ mi > Len(Registered)
    /\ MainAt("restart", "loop")
    /\ UNCHANGED <<state, dpc, pos, ppc, mi, decoder_idx, player_idx>>

MainPlay ==
    \/ MainRunDecoders \/ MainDecoderRuns \/ MainOutrun \/ MainRunPlayers
    \/ MainPlayerRuns \/ MainPlayedEof \/ MainStop \/ MainStopped \/ MainUninit

MainSeeking ==
    \/ MainHalt \/ MainHalted \/ MainSeek \/ MainSeekOutrun \/ MainReset
    \/ MainRestart \/ MainRestarted \/ MainResume

MainLeaves == UNCHANGED <<frame, eof, enc, shva_prev, can_blit, screen>>

-----------------------------------------------------------------------------
\* Playing from the start of a file to its end or until the user quits.
PlayNext ==
    \/ DecoderNext
    \/ PlayerNext
    \/ (MainPlay \/ MainQuit) /\ MainLeaves

\* Playing, with seeks.
SeekNext ==
    \/ PlayNext
    \/ (MainSeekKey \/ MainSeeking) /\ MainLeaves

\* Each thread is scheduled again and again; what vplayer_do_sleep waits for
\* comes in the end; the user is under no obligation.
Fairness ==
    /\ WF_vars(DecoderNext)
    /\ WF_vars(PlayerNext)
    /\ WF_vars((MainPlay \/ MainSeeking) /\ MainLeaves)
    /\ SF_vars(PlayerWaited /\ PlayerLeaves)

PlaySpec == Init /\ [][PlayNext]_vars /\ Fairness
SeekSpec == Init /\ [][SeekNext]_vars /\ Fairness

-----------------------------------------------------------------------------
(* Safety.                                                                 *)

DecoderPlaces ==
    {"none", "start", "clear_eof", "top", "sleep", "asleep", "read", "decode",
     "fill", "set_duration", "inc", "publish", "mark_eof", "set_eof", "exit",
     "done"}
PlayerPlaces ==
    {"none", "start", "clear_eof", "top", "sleep", "asleep", "copy", "try",
     "force", "wait", "select", "inc", "advance", "return", "return_eof",
     "exit", "done"}
MainPlaces ==
    {"run_decoders", "wait_decoder", "outrun", "run_players", "wait_player",
     "loop", "halt", "halting", "seek_outrun", "reset", "restart",
     "restarting", "stop", "stopping", "done"}

\* Every variable has its type: the indices stay inside the ring.
TypeOK ==
    /\ decoder_idx \in Slots /\ player_idx \in Slots /\ screen \in Slots
    /\ frame \in [Slots -> [v_pts : VPts, duration : Int]]
    /\ eof \in BOOLEAN /\ can_blit \in BOOLEAN
    /\ state \in [Threads -> PthStates]
    /\ dpc \in DecoderPlaces /\ ppc \in PlayerPlaces /\ mpc \in MainPlaces
    /\ pos \in 0 .. FileFrames /\ enc \in 0 .. FileFrames
    /\ shva_prev \in Int
    /\ mi \in 1 .. 3

\* The decoder draws into, fills or marks the slot decoder_idx.
DecoderOwnsSlot ==
    dpc \in {"decode", "fill", "set_duration", "inc", "publish", "mark_eof",
             "set_eof"}
DecoderGone == dpc \in {"exit", "done"}

\* The end of the stream: the decoder has left, and its slot carries the mark
\* of dae_decoded_mark_eof in place of a frame.
AtEnd == DecoderGone /\ frame[decoder_idx].v_pts = HUGE

\* Once there is a player, the slot the decoder draws into is never the one
\* on the screen (dae_inc_decoded refuses player_idx, dae_inc_played refuses
\* decoder_idx, and the player is started with a frame in hand).
NoTearing == ppc # "none" /\ DecoderOwnsSlot => screen # decoder_idx

\* Whatever happens between its test and the switch, the player switches to a
\* slot the decoder has published, or, forced by eof at the end of the stream,
\* to the slot marked as the end: never to one still being decoded, nor to the
\* one a canceled decoder has left.
OnlyDecodedShown ==
    ppc = "select" => Outrun >= 2 \/ frame[dae_next(player_idx)].v_pts = HUGE

\* The duration of a slot is the distance of its frame to the next one as
\* soon as that one is published: what the player sleeps on without sound.
DurationsSettled ==
    \A i \in 0 .. Outrun - 2 :
        LET this == frame[SlotAfter(player_idx, i)]
            that == frame[SlotAfter(player_idx, i + 1)]
        IN this.duration = that.v_pts - this.v_pts

\* When xmp_stop_threads frees the record of a thread, that thread has made
\* its last access to it.
StoppedThreadsGone ==
    LET Stopped(i) == mpc = "done" \/ (mpc \in {"stop", "stopping"} /\ mi > i)
    IN /\ Stopped(1) => dpc = "done"
       /\ Stopped(2) => ppc = "done"

\* While main moves the demuxer and resets the ring, no thread is inside its
\* loop.
SeekExclusive ==
    mpc \in {"seek_outrun", "reset"} =>
        dpc \in {"asleep", "done"} /\ ppc \in {"asleep", "done"}

(* What the slot given to select_frame holds, and the published frames      *)
(* behind it.  Between PlayerSelect and PlayerAdvance the slot shown is the *)
(* one after player_idx.                                                    *)
Pts(i) == frame[SlotAfter(player_idx, i)].v_pts
OnScreen == IF Outrun = 0 THEN 0 ELSE frame[screen].v_pts
Shown == IF screen = player_idx THEN 1 ELSE 2
Waiting == [i \in 1 .. Outrun - Shown |-> Pts(i + Shown - 1)]

FQ == INSTANCE FrameQueue
        WITH Frames <- 1 .. FileFrames, NoFrame <- 0, Leftover <- HUGE,
             Capacity <- NFrames - 2, onScreen <- OnScreen,
             waiting <- Waiting, ended <- AtEnd

\* The slots given to select_frame show the frames in the order of the stream,
\* none twice and none skipped, up to the last one shown.  After the end of the
\* stream the marked slot may be selected, with whatever an earlier lap has
\* left in its surface, and no frame after it; frames decoded ahead that the
\* player never comes to (it leaves its loop at eof) are not shown at all.
PlaysInOrder == FQ!Spec

-----------------------------------------------------------------------------
(* The inductive invariant of PlaySpec behind the safety properties.        *)

\* How far main has got, and what that says of the threads: a thread keeps
\* Pth_Canceling until it is done, and nobody sleeps without a seek.
ThreadInv ==
    /\ mpc \in {"run_decoders", "wait_decoder", "outrun", "run_players",
                "wait_player", "loop", "stop", "stopping", "done"}
    /\ mpc = "run_decoders" <=> dpc = "none"
    /\ mpc \in {"run_decoders", "wait_decoder", "outrun", "run_players"}
            <=> ppc = "none"
    /\ \A t \in Threads : state[t] \notin {"Sleep", "ASleep"}
    /\ dpc \notin {"sleep", "asleep"} /\ ppc \notin {"sleep", "asleep"}
    /\ dpc \in {"none", "start"} => state["decoder"] = "Stand"
    /\ ppc \in {"none", "start"} => state["player"] = "Stand"
    /\ dpc = "start" => mpc = "wait_decoder"
    /\ ppc = "start" => mpc = "wait_player"
    /\ mpc = "stopping" =>
         /\ mi \in 1 .. 2
         /\ mi = 1 => state["decoder"] = "Canceling" \/ dpc = "done"
         /\ mi = 2 => state["player"] = "Canceling" \/ ppc = "done"
    /\ mpc \in {"stop", "stopping"} => /\ mi > 1 => dpc = "done"
                                       /\ mi > 2 => ppc = "done"
    /\ mpc = "done" => dpc = "done" /\ ppc = "done"

\* The indices: with a player the ring is never empty, and neither thread is
\* between its test and its store with the room it found gone.
RingInv ==
    /\ ppc = "none" => player_idx = 0 /\ screen = 0
    /\ ppc # "none" \/ mpc = "run_players" => decoder_idx # player_idx
    /\ dpc = "publish" => dae_next(decoder_idx) # player_idx
    /\ ppc = "advance" => dae_next(player_idx) # decoder_idx
    /\ eof \/ ppc = "return_eof" => AtEnd
    /\ dpc = "set_eof" => frame[decoder_idx].v_pts = HUGE
    /\ ppc = "force" /\ can_blit => dae_next(player_idx) # decoder_idx
    /\ ppc \in {"wait", "select", "inc"} =>
           dae_next(player_idx) # decoder_idx \/ AtEnd
    /\ ppc \in {"inc", "advance"} => screen = dae_next(player_idx)
    /\ \/ screen = player_idx
       \/ /\ screen = dae_next(player_idx)
          /\ ppc \in {"inc", "advance"} \/ (AtEnd /\ screen = decoder_idx)

\* The frames: what lies between the indices is in stream order, older than
\* the frame the decoder works on, and stays as it was published.
DataInv ==
    /\ \A i \in 0 .. Outrun - 1 : Pts(i) \in 1 .. pos
    /\ \A i, j \in 0 .. Outrun - 1 : i < j => Pts(i) < Pts(j)
    /\ dpc \in {"decode", "fill", "set_duration", "inc", "publish"} =>
           /\ enc = pos /\ enc > 0
           /\ \A i \in 0 .. Outrun - 1 : Pts(i) < enc
    /\ dpc \in {"set_duration", "inc", "publish"} =>
           frame[decoder_idx].v_pts = enc

-----------------------------------------------------------------------------
(* Liveness.                                                               *)

\* A full ring always drains and a halted decoder is woken: the decoder gets
\* through the file or is stopped.
DecoderFinishes == <>(dpc = "done")

Running(t) == IF t = "decoder" THEN dpc # "done" ELSE ppc # "done"

\* A thread that has not left its routine answers xmp_stop_threads ...
AcksCancel ==
    \A t \in Threads :
        (state[t] = "Canceling" /\ Running(t)) ~> (state[t] = "Stand")

\* ... and xmp_halt_threads.
AcksSleep ==
    \A t \in Threads : (state[t] = "Sleep" /\ Running(t)) ~> (state[t] # "Sleep")
=============================================================================
