------------------------- MODULE VideoAheadRefines -------------------------
(***************************************************************************)
(* The ring of VideoAhead implements FrameQueue, for every ring size and   *)
(* every length of the stream.                                             *)
(***************************************************************************)
EXTENDS VideoAheadProofs, SequenceTheorems

USE DEF SetState, DecoderAt, PlayerAt, MainAt, decVars, playVars, mainVars

O(d, p) == dae_get_decoder_outrun(d, p)

(* The outrun counts the slots from the player to the decoder.             *)
LEMMA OutrunRange ==
    ASSUME NEW d \in Slots, NEW p \in Slots
    PROVE  /\ O(d, p) \in 0 .. NFrames - 1
           /\ O(d, p) = 0 <=> d = p
           /\ SlotAfter(p, O(d, p)) = d
  BY NFramesAssumption DEF O, dae_get_decoder_outrun, Slots, SlotAfter

(* The slots of the frames in between are slots, and not the decoder's.    *)
LEMMA SlotsBetween ==
    ASSUME NEW d \in Slots, NEW p \in Slots, NEW i \in 0 .. O(d, p) - 1
    PROVE  SlotAfter(p, i) \in Slots /\ SlotAfter(p, i) # d
  BY NFramesAssumption DEF O, dae_get_decoder_outrun, Slots, SlotAfter

(* Publishing a slot makes the outrun one larger.                          *)
LEMMA OutrunPublish ==
    ASSUME NEW d \in Slots, NEW p \in Slots, dae_next(d) # p
    PROVE  O(dae_next(d), p) = O(d, p) + 1 /\ O(d, p) <= NFrames - 2
<1>1. dae_next(d) = (IF d = NFrames - 1 THEN 0 ELSE d + 1)
  BY NextSlot
<1> QED  BY <1>1, NFramesAssumption DEF O, dae_get_decoder_outrun, Slots

(* A decoder one slot before the player has published one frame.           *)
LEMMA OutrunOfOne ==
    ASSUME NEW d \in Slots, NEW p \in Slots
    PROVE  d # p => (dae_next(p) = d <=> O(d, p) = 1)
<1>1. dae_next(p) = (IF p = NFrames - 1 THEN 0 ELSE p + 1)
  BY NextSlot
<1> QED  BY <1>1, NFramesAssumption DEF O, dae_get_decoder_outrun, Slots

(* Playing a slot makes it one smaller, and every frame moves up one place. *)
LEMMA OutrunAdvance ==
    ASSUME NEW d \in Slots, NEW p \in Slots, d # p
    PROVE  /\ O(d, dae_next(p)) = O(d, p) - 1
           /\ \A i \in 0 .. NFrames - 2 :
                  SlotAfter(dae_next(p), i) = SlotAfter(p, i + 1)
<1>1. dae_next(p) = (IF p = NFrames - 1 THEN 0 ELSE p + 1)
  BY NextSlot
<1>2. O(d, dae_next(p)) = O(d, p) - 1
  BY <1>1, NFramesAssumption DEF O, dae_get_decoder_outrun, Slots
<1>3. ASSUME NEW i \in 0 .. NFrames - 2
      PROVE  SlotAfter(dae_next(p), i) = SlotAfter(p, i + 1)
  BY <1>1, NFramesAssumption DEF SlotAfter, Slots
<1> QED  BY <1>2, <1>3

-----------------------------------------------------------------------------
(* The frames in the ring.                                                 *)

(* Whoever writes, outside decoder_idx, no more than durations and moves    *)
(* no index leaves the frames in the ring as they are.                      *)
LEMMA RingKept ==
    ASSUME TypeOK, UNCHANGED <<decoder_idx, player_idx>>,
           \A s \in Slots : s # decoder_idx => frame'[s].v_pts = frame[s].v_pts
    PROVE  Outrun' = Outrun /\ \A i \in 0 .. Outrun - 1 : Pts(i)' = Pts(i)
<1>1. Outrun = O(decoder_idx, player_idx)
  BY DEF Outrun, O
<1>2. ASSUME NEW i \in 0 .. Outrun - 1 PROVE Pts(i)' = Pts(i)
  <2>1. /\ SlotAfter(player_idx, i) \in Slots
        /\ SlotAfter(player_idx, i) # decoder_idx
    BY <1>1, SlotsBetween DEF TypeOK
  <2>2. SlotAfter(player_idx, i)' = SlotAfter(player_idx, i)
    BY DEF SlotAfter
  <2> QED  BY <2>1, <2>2 DEF Pts
<1> QED  BY <1>2 DEF Outrun

(* The frame published last comes behind the others.                       *)
LEMMA RingPublished ==
    ASSUME TypeOK, RingInv, DecoderPublish, UNCHANGED player_idx
    PROVE  /\ Outrun' = Outrun + 1
           /\ Outrun \in 0 .. NFrames - 2
           /\ \A i \in 0 .. Outrun :
                  Pts(i)' = IF i = Outrun THEN frame[decoder_idx].v_pts
                                          ELSE Pts(i)
<1>1. decoder_idx \in Slots /\ player_idx \in Slots
  BY DEF TypeOK
<1>2. dae_next(decoder_idx) # player_idx
  BY DEF DecoderPublish, RingInv
<1>3. Outrun = O(decoder_idx, player_idx)
  BY DEF Outrun, O
<1>4. Outrun' = O(dae_next(decoder_idx), player_idx)
  BY DEF Outrun, O, DecoderPublish
<1>5. Outrun' = Outrun + 1 /\ Outrun <= NFrames - 2
  BY <1>1, <1>2, <1>3, <1>4, OutrunPublish
<1>6. Outrun \in 0 .. NFrames - 2
  BY <1>1, <1>3, <1>5, OutrunRange
<1>7. \A i \in Int : Pts(i)' = Pts(i)
  BY DEF DecoderPublish, Pts, SlotAfter
<1>8. SlotAfter(player_idx, Outrun) = decoder_idx
  BY <1>1, <1>3, OutrunRange
<1> QED  BY <1>5, <1>6, <1>7, <1>8 DEF Pts

(* Playing moves every frame up one place.                                 *)
LEMMA RingAdvanced ==
    ASSUME TypeOK, decoder_idx # player_idx,
           player_idx' = dae_next(player_idx), UNCHANGED <<decoder_idx, frame>>
    PROVE  /\ Outrun \in 1 .. NFrames - 1
           /\ Outrun' = Outrun - 1
           /\ \A i \in 0 .. NFrames - 2 : Pts(i)' = Pts(i + 1)
<1>1. decoder_idx \in Slots /\ player_idx \in Slots
  BY DEF TypeOK
<1>2. Outrun = O(decoder_idx, player_idx)
  BY DEF Outrun, O
<1>3. Outrun' = O(decoder_idx, dae_next(player_idx))
  BY DEF Outrun, O
<1>4. Outrun \in 1 .. NFrames - 1
  BY <1>1, <1>2, OutrunRange, NFramesAssumption
<1>5. \A i \in 0 .. NFrames - 2 : Pts(i)' = Pts(i + 1)
  <2>1. TAKE i \in 0 .. NFrames - 2
  <2>2. SlotAfter(dae_next(player_idx), i) = SlotAfter(player_idx, i + 1)
    BY <1>1, OutrunAdvance
  <2>3. Pts(i)' = frame[SlotAfter(dae_next(player_idx), i)].v_pts
    BY DEF Pts, SlotAfter
  <2> QED  BY <2>2, <2>3 DEF Pts
<1> QED  BY <1>1, <1>2, <1>3, <1>4, <1>5, OutrunAdvance

-----------------------------------------------------------------------------
(* The invariant of the frames, step by step.                              *)

(* What a step of the decoder other than DecoderPublish may change.         *)
InHand == {"decode", "fill", "set_duration", "inc", "publish"}
Filled == {"set_duration", "inc", "publish"}

LEMMA DecoderMoves ==
    ASSUME TypeOK, DecoderNext
    PROVE  \/ DecoderPublish
           \/ /\ UNCHANGED <<decoder_idx, player_idx>>
              /\ \A s \in Slots :
                     s # decoder_idx => frame'[s].v_pts = frame[s].v_pts
              /\ \/ DecoderRead
                 \/ UNCHANGED <<pos, enc>> /\ (dpc' \in InHand => dpc \in InHand)
              /\ dpc' \in Filled =>
                     \/ frame'[decoder_idx].v_pts = enc'
                     \/ /\ dpc \in Filled /\ enc' = enc
                        /\ frame'[decoder_idx].v_pts = frame[decoder_idx].v_pts
<1> USE DEF DecoderNext, InHand, Filled
<1>1. CASE DecoderFill
  BY <1>1 DEF DecoderFill, TypeOK
<1>2. CASE DecoderMarkEof
  BY <1>2 DEF DecoderMarkEof, TypeOK
<1>3. CASE DecoderSetDuration
  <2>1. dae_prev(decoder_idx) \in Slots
    BY PrevSlot DEF TypeOK
  <2>2. \A s \in Slots : frame'[s].v_pts = frame[s].v_pts
    BY <1>3, <2>1 DEF DecoderSetDuration, TypeOK
  <2> QED  BY <1>3, <2>2 DEF DecoderSetDuration, TypeOK
<1>4. CASE \/ DecoderStart \/ DecoderClearEof \/ DecoderTop \/ DecoderSleep
           \/ DecoderWake \/ DecoderRead \/ DecoderSetEof \/ DecoderDecode
           \/ DecoderIncTest \/ DecoderExit
  BY <1>4 DEF DecoderStart, DecoderClearEof, DecoderTop, DecoderSleep,
     DecoderWake, DecoderRead, DecoderSetEof, DecoderDecode, DecoderIncTest,
     DecoderExit
<1> QED  BY <1>1, <1>2, <1>3, <1>4 DEF DecoderStep

(* The decoder keeps the invariant of the frames.                          *)
LEMMA DecoderData ==
    ASSUME IInv, DataInv, DecoderNext
    PROVE  DataInv'
<1> USE DEF IInv, InHand, Filled
<1>1. pos \in Nat
  BY FileFramesAssumption DEF TypeOK
<1>2. CASE DecoderPublish
  <2>1. /\ Outrun' = Outrun + 1
        /\ Outrun \in 0 .. NFrames - 2
        /\ \A i \in 0 .. Outrun :
               Pts(i)' = IF i = Outrun THEN frame[decoder_idx].v_pts ELSE Pts(i)
    BY <1>2, RingPublished DEF DecoderNext
  <2>2. frame[decoder_idx].v_pts = enc /\ enc = pos /\ enc > 0
        /\ \A i \in 0 .. Outrun - 1 : Pts(i) < enc
    BY <1>2 DEF DataInv, DecoderPublish
  <2>3. pos' = pos /\ dpc' = "top"
    BY <1>2 DEF DecoderPublish
  <2>4. \A i \in 0 .. Outrun' - 1 : Pts(i)' \in 1 .. pos'
    BY <1>1, <2>1, <2>2, <2>3 DEF DataInv
  <2>5. \A i, j \in 0 .. Outrun' - 1 : i < j => Pts(i)' < Pts(j)'
    BY <2>1, <2>2 DEF DataInv
  <2> QED  BY <2>3, <2>4, <2>5 DEF DataInv
<1>3. CASE ~DecoderPublish
  <2>1. Outrun' = Outrun /\ \A i \in 0 .. Outrun - 1 : Pts(i)' = Pts(i)
    BY <1>3, DecoderMoves, RingKept
  <2>2. \A i, j \in 0 .. Outrun' - 1 : i < j => Pts(i)' < Pts(j)'
    BY <2>1 DEF DataInv
  <2>3. /\ \A i \in 0 .. Outrun' - 1 : Pts(i)' \in 1 .. pos'
        /\ dpc' \in InHand =>
               /\ enc' = pos' /\ enc' > 0
               /\ \A i \in 0 .. Outrun' - 1 : Pts(i)' < enc'
    <3>1. CASE DecoderRead
      BY <1>1, <2>1, <3>1 DEF DataInv, DecoderRead
    <3>2. CASE UNCHANGED <<pos, enc>> /\ (dpc' \in InHand => dpc \in InHand)
      BY <2>1, <3>2 DEF DataInv
    <3> QED  BY <1>3, <3>1, <3>2, DecoderMoves
  <2>4. dpc' \in Filled => frame'[decoder_idx'].v_pts = enc'
    BY <1>3, DecoderMoves DEF DataInv
  <2> QED  BY <2>2, <2>3, <2>4 DEF DataInv
<1> QED  BY <1>2, <1>3

(* The player changes nothing but its index and the slot shown.            *)
LEMMA PlayerMoves ==
    ASSUME PlayerNext
    PROVE  /\ UNCHANGED <<decoder_idx, frame, decVars, mainVars>>
           /\ \/ UNCHANGED player_idx /\ (UNCHANGED screen \/ PlayerSelect)
              \/ PlayerAdvance /\ UNCHANGED screen
<1>1. UNCHANGED <<decoder_idx, frame, decVars, mainVars>>
  BY DEF PlayerNext, PlayerLeaves
<1>2. CASE PlayerSelect
  BY <1>1, <1>2 DEF PlayerSelect
<1>3. CASE PlayerAdvance
  BY <1>1, <1>3 DEF PlayerAdvance
<1>4. CASE \/ PlayerStart \/ PlayerClearEof \/ PlayerTop \/ PlayerSleep
           \/ PlayerWake \/ PlayerCopy \/ PlayerTry \/ PlayerForce
           \/ PlayerWaitMore \/ PlayerWaited \/ PlayerIncTest \/ PlayerReturn
           \/ PlayerExit
  <2>1. UNCHANGED player_idx /\ UNCHANGED screen
    BY <1>4 DEF PlayerStart, PlayerClearEof, PlayerTop, PlayerSleep, PlayerWake,
       PlayerCopy, PlayerTry, PlayerForce, PlayerWaitMore, PlayerWaited,
       PlayerIncTest, PlayerReturn, PlayerExit
  <2> QED  BY <1>1, <2>1
<1> QED  BY <1>2, <1>3, <1>4 DEF PlayerNext, PlayerStep

(* The decoder is ahead of a player that advances.                         *)
LEMMA DecoderAhead ==
    ASSUME IInv, PlayerAdvance
    PROVE  decoder_idx # player_idx
  BY DEF IInv, RingInv, PlayerAdvance

(* The player keeps the invariant of the frames.                           *)
LEMMA PlayerData ==
    ASSUME IInv, DataInv, PlayerNext
    PROVE  DataInv'
<1>1. UNCHANGED <<decoder_idx, frame, dpc, pos, enc>>
  BY PlayerMoves
<1>2. CASE UNCHANGED player_idx
  BY <1>1, <1>2, RingKept DEF IInv, DataInv
<1>3. CASE PlayerAdvance
  <2>1. /\ Outrun \in 1 .. NFrames - 1
        /\ Outrun' = Outrun - 1
        /\ \A i \in 0 .. NFrames - 2 : Pts(i)' = Pts(i + 1)
    BY <1>1, <1>3, DecoderAhead, RingAdvanced DEF IInv, PlayerAdvance
  <2>2. \A i \in 0 .. Outrun' - 1 : i + 1 \in 0 .. Outrun - 1 /\ Pts(i)' = Pts(i + 1)
    BY <2>1, NFramesAssumption
  <2>3. \A i \in 0 .. Outrun' - 1 : Pts(i)' \in 1 .. pos'
    BY <1>1, <2>2 DEF DataInv
  <2>4. \A i, j \in 0 .. Outrun' - 1 : i < j => Pts(i)' < Pts(j)'
    BY <2>2 DEF DataInv
  <2> QED  BY <1>1, <2>2, <2>3, <2>4 DEF DataInv
<1> QED  BY <1>2, <1>3, PlayerMoves

(* Main moves no index and no frame.                                       *)
LEMMA MainMoves ==
    ASSUME (MainPlay \/ MainQuit) /\ MainLeaves
    PROVE  /\ UNCHANGED <<decoder_idx, player_idx, frame, pos, enc, screen>>
           /\ UNCHANGED dpc \/ (mpc = "run_decoders" /\ dpc' = "start")
  BY DEF MainPlay, MainQuit, MainLeaves, MainRunDecoders, MainDecoderRuns,
         MainOutrun, MainRunPlayers, MainPlayerRuns, MainPlayedEof, MainStop,
         MainStopped, MainUninit

(* Main keeps the invariant of the frames.                                 *)
LEMMA MainData ==
    ASSUME IInv, DataInv, (MainPlay \/ MainQuit) /\ MainLeaves
    PROVE  DataInv'
  BY MainMoves, RingKept DEF IInv, DataInv

-----------------------------------------------------------------------------
(* The refinement.                                                         *)

Inv == IInv /\ DataInv

\* Every reachable state of PlaySpec satisfies the whole invariant.
THEOREM PlayDataInvariant == PlaySpec => []Inv
<1>1. Init => Inv
  <2>1. ASSUME Init PROVE DataInv
    <3>1. Outrun = 0
      BY <2>1 DEF Init, Outrun, dae_get_decoder_outrun
    <3> QED  BY <2>1, <3>1 DEF Init, DataInv
  <2> QED  BY <2>1, InitInv DEF Inv, IInv
<1>2. IInv /\ DataInv /\ [PlayNext]_vars => DataInv'
  <2> SUFFICES ASSUME IInv, DataInv, [PlayNext]_vars PROVE DataInv'
    OBVIOUS
  <2>1. CASE UNCHANGED vars
    BY <2>1 DEF vars, DataInv, Outrun, Pts, SlotAfter
  <2> QED  BY <2>1, DecoderData, PlayerData, MainData DEF PlayNext
<1> QED  BY <1>1, <1>2, PlayInvariant, PTL DEF PlaySpec, Inv

(* What the screen shows once a frame is published: the frame at            *)
(* player_idx, the one after it, or the surface behind the mark of the end. *)
LEMMA WhatIsShown ==
    ASSUME IInv, Outrun > 0
    PROVE  \/ screen = player_idx /\ Shown = 1 /\ OnScreen = Pts(0)
           \/ /\ screen # player_idx /\ screen = dae_next(player_idx)
              /\ screen # decoder_idx
              /\ Outrun >= 2 /\ Shown = 2 /\ OnScreen = Pts(1)
           \/ /\ screen # player_idx /\ screen = decoder_idx
              /\ AtEnd /\ Outrun = 1 /\ Shown = 2 /\ OnScreen = HUGE
<1>1. decoder_idx \in Slots /\ player_idx \in Slots /\ decoder_idx # player_idx
  BY OutrunRange DEF IInv, TypeOK, Outrun, O
<1>2. CASE screen = player_idx
  <2>1. SlotAfter(player_idx, 0) = player_idx
    BY <1>1, NFramesAssumption DEF SlotAfter, Slots
  <2> QED  BY <1>2, <2>1 DEF Shown, OnScreen, Pts
<1>3. CASE screen # player_idx
  <2>1. /\ screen = dae_next(player_idx)
        /\ screen # decoder_idx \/ AtEnd
    BY <1>3 DEF IInv, RingInv
  <2>2. CASE screen # decoder_idx
    <3>1. Outrun >= 2
      BY <1>1, <2>1, <2>2, NextSlot, NFramesAssumption
      DEF Outrun, dae_get_decoder_outrun, Slots
    <3>2. SlotAfter(player_idx, 1) = screen
      BY <1>1, <2>1, NFramesAssumption DEF SlotAfter, dae_next, Slots
    <3> QED  BY <1>3, <2>1, <2>2, <3>1, <3>2 DEF Shown, OnScreen, Pts
  <2>3. CASE screen = decoder_idx
    <3>1. Outrun = 1
      BY <1>1, <2>1, <2>3, OutrunOfOne DEF Outrun, O
    <3> QED  BY <1>3, <2>1, <2>3, <3>1 DEF Shown, OnScreen, AtEnd
  <2> QED  BY <2>2, <2>3
<1> QED  BY <1>2, <1>3

(* The frames that wait, as a sequence.                                    *)
LEMMA WaitingSeq ==
    ASSUME TypeOK
    PROVE  /\ Waiting \in Seq(Int)
           /\ Len(Waiting) = IF Outrun < Shown THEN 0 ELSE Outrun - Shown
           /\ \A i \in 1 .. Outrun - Shown : Waiting[i] = Pts(i + Shown - 1)
           /\ Outrun \in 0 .. NFrames - 1
           /\ Shown \in 1 .. 2
<1>1. Outrun \in 0 .. NFrames - 1
  BY OutrunRange DEF TypeOK, Outrun, O
<1>2. Shown \in 1 .. 2
  BY DEF Shown
<1>3. ASSUME NEW i \in 1 .. Outrun - Shown PROVE Pts(i + Shown - 1) \in Int
  <2>1. i + Shown - 1 \in 0 .. Outrun - 1
    BY <1>1, <1>2
  <2>2. SlotAfter(player_idx, i + Shown - 1) \in Slots
    BY <2>1, SlotsBetween DEF TypeOK, Outrun, O
  <2> QED  BY <2>2, FileFramesAssumption DEF TypeOK, Pts, VPts, HUGE
<1>4. Waiting = [i \in 1 .. Outrun - Shown |-> Pts(i + Shown - 1)]
  BY DEF Waiting
<1>5. CASE Outrun - Shown \in Nat
  <2>1. Waiting \in Seq(Int) /\ Len(Waiting) = Outrun - Shown
    BY <1>3, <1>4, <1>5
  <2> QED  BY <1>1, <1>2, <1>4, <1>5, <2>1
<1>6. CASE ~ (Outrun - Shown \in Nat)
  <2>1. Outrun < Shown
    BY <1>1, <1>2, <1>6, NFramesAssumption
  <2>2. Waiting = <<>>
    BY <1>1, <1>2, <1>4, <2>1
  <2> QED  BY <1>1, <1>2, <2>1, <2>2
<1> QED  BY <1>5, <1>6

(* The initial states map to the initial state of the queue.               *)
LEMMA StartsEmpty == Init => FQ!Init
<1> SUFFICES ASSUME Init PROVE FQ!Init
  OBVIOUS
<1>1. Outrun = 0
  BY DEF Init, Outrun, dae_get_decoder_outrun
<1>2. Waiting = <<>>
  BY <1>1 DEF Waiting, Shown
<1>3. ~AtEnd
  BY DEF Init, AtEnd, DecoderGone
<1> QED  BY <1>1, <1>2, <1>3 DEF FQ!Init, OnScreen

(* A step that leaves the frames and the slot shown alone changes neither   *)
(* what is shown nor what waits.                                            *)
LEMMA QueueKept ==
    ASSUME TypeOK, Outrun' = Outrun, UNCHANGED <<player_idx, screen>>,
           \A i \in 0 .. Outrun - 1 : Pts(i)' = Pts(i),
           Outrun > 0 => frame'[screen].v_pts = frame[screen].v_pts
    PROVE  UNCHANGED <<OnScreen, Waiting>>
<1>1. Outrun \in Nat /\ Shown \in 1 .. 2 /\ Shown' = Shown
  BY WaitingSeq DEF Shown
<1>2. \A i \in 1 .. Outrun - Shown : Pts(i + Shown - 1)' = Pts(i + Shown - 1)
  <2>1. TAKE i \in 1 .. Outrun - Shown
  <2>2. i + Shown - 1 \in 0 .. Outrun - 1
    BY <1>1
  <2>3. \A k \in 0 .. Outrun - 1 : Pts(k)' = Pts(k)
    OBVIOUS
  <2> QED  BY <1>1, <2>2, <2>3 DEF Pts
<1>3. Waiting' = Waiting
  BY <1>1, <1>2 DEF Waiting
<1>4. OnScreen' = OnScreen
  BY <1>1 DEF OnScreen
<1> QED  BY <1>3, <1>4

(* Up to the last step of the decoder the stream has not ended; after it    *)
(* nothing is drawn.                                                        *)
LEMMA DecoderEnds ==
    ASSUME IInv, DecoderNext
    PROVE  AtEnd => UNCHANGED <<decoder_idx, frame, AtEnd>>
  BY DEF AtEnd, DecoderGone, DecoderNext, DecoderStep, DecoderStart,
     DecoderClearEof, DecoderTop, DecoderSleep, DecoderWake, DecoderRead,
     DecoderMarkEof, DecoderSetEof, DecoderDecode, DecoderFill,
     DecoderSetDuration, DecoderIncTest, DecoderPublish, DecoderExit

\* Whatever else the decoder does to a slot, it is not the one shown: it may
\* only end the stream.
LEMMA DecoderWorksUnseen ==
    ASSUME Inv, DecoderNext, ~DecoderPublish
    PROVE  FQ!Next \/ UNCHANGED FQ!vars
<1>1. /\ UNCHANGED <<decoder_idx, player_idx, screen>>
      /\ \A s \in Slots : s # decoder_idx => frame'[s].v_pts = frame[s].v_pts
  BY DecoderMoves DEF Inv, IInv, DecoderNext
<1>2. Outrun' = Outrun /\ \A i \in 0 .. Outrun - 1 : Pts(i)' = Pts(i)
  BY <1>1, RingKept DEF Inv, IInv
<1>3. Outrun > 0 => frame'[screen].v_pts = frame[screen].v_pts
  <2>1. SUFFICES ASSUME Outrun > 0
                 PROVE  frame'[screen].v_pts = frame[screen].v_pts
    OBVIOUS
  <2>2. CASE screen # decoder_idx
    BY <1>1, <2>2 DEF Inv, IInv, TypeOK
  <2>3. CASE screen = decoder_idx
    <3>1. decoder_idx # player_idx
      BY <2>1, OutrunRange DEF Inv, IInv, TypeOK, Outrun, O
    <3>2. AtEnd
      BY <2>1, <2>3, <3>1, WhatIsShown DEF Inv
    <3> QED  BY <3>2, DecoderEnds DEF Inv
  <2> QED  BY <2>2, <2>3
<1>4. UNCHANGED <<OnScreen, Waiting>>
  BY <1>1, <1>2, <1>3, QueueKept DEF Inv, IInv
<1>5. AtEnd => AtEnd'
  BY DecoderEnds DEF Inv
<1>6. AtEnd \in BOOLEAN /\ AtEnd' \in BOOLEAN
  BY DEF AtEnd, DecoderGone
<1> QED  BY <1>4, <1>5, <1>6 DEF FQ!Next, FQ!Finish, FQ!vars

\* Publishing the first frame, or appending one to those that wait.
LEMMA PublishAppends ==
    ASSUME Inv, DecoderPublish, UNCHANGED <<player_idx, screen>>
    PROVE  FQ!Next
<1>1. /\ Outrun' = Outrun + 1
      /\ Outrun \in 0 .. NFrames - 2
      /\ \A i \in 0 .. Outrun :
             Pts(i)' = IF i = Outrun THEN frame[decoder_idx].v_pts ELSE Pts(i)
  BY RingPublished DEF Inv, IInv
<1>2. /\ frame[decoder_idx].v_pts = enc
      /\ enc \in 1 .. FileFrames
      /\ \A i \in 0 .. Outrun - 1 : Pts(i) < enc
  BY FileFramesAssumption DEF Inv, IInv, TypeOK, DataInv, DecoderPublish
<1>3. ~AtEnd /\ AtEnd' = AtEnd /\ frame' = frame
  <2>1. ~DecoderGone /\ ~DecoderGone' /\ frame' = frame
    BY DEF DecoderPublish, DecoderGone
  <2>2. AtEnd = FALSE /\ AtEnd' = FALSE
    BY <2>1 DEF AtEnd
  <2> QED  BY <2>1, <2>2
<1>4. Shown' = Shown
  BY DEF Shown
<1>5. CASE Outrun = 0
  <2>1. OnScreen = 0 /\ Waiting = <<>>
    BY <1>5 DEF OnScreen, Waiting, Shown
  <2>2. screen = player_idx /\ player_idx = decoder_idx
    <3>1. player_idx = decoder_idx
      BY <1>5, OutrunRange DEF Inv, IInv, TypeOK, Outrun, O
    <3> QED  BY <3>1 DEF Inv, IInv, RingInv
  <2>3. OnScreen' = enc
    BY <1>1, <1>2, <1>3, <1>5, <2>2 DEF OnScreen
  <2>4. Waiting' = <<>>
    BY <1>1, <1>4, <1>5, <2>2 DEF Waiting, Shown
  <2> QED  BY <1>2, <1>3, <2>1, <2>3, <2>4 DEF FQ!Next, FQ!First
<1>6. CASE Outrun > 0
  <2>1. OnScreen' = OnScreen
    BY <1>1, <1>3, <1>6 DEF OnScreen
  <2>2. /\ Shown \in 1 .. Outrun
        /\ OnScreen = Pts(Shown - 1)
    <3>1. \/ Shown = 1 /\ OnScreen = Pts(0)
          \/ Outrun >= 2 /\ Shown = 2 /\ OnScreen = Pts(1)
      BY <1>3, <1>6, WhatIsShown DEF Inv
    <3> QED  BY <1>1, <1>6, <3>1
  <2>3. OnScreen # 0 /\ OnScreen < enc
    BY <1>1, <1>2, <2>2 DEF Inv, DataInv
  <2>4. /\ Waiting \in Seq(Int) /\ Len(Waiting) = Outrun - Shown
        /\ \A i \in 1 .. Outrun - Shown : Waiting[i] = Pts(i + Shown - 1)
    BY <1>6, <2>2, WaitingSeq DEF Inv, IInv
  <2>5. Waiting' = Append(Waiting, enc)
    <3> DEFINE n == Outrun - Shown
    <3>1. n \in Nat /\ Outrun + 1 - Shown = n + 1
      BY <1>1, <2>2
    <3>2. Waiting' = [i \in 1 .. n + 1 |-> Pts(i + Shown - 1)']
      <4>1. Outrun' - Shown' = n + 1
        BY <1>1, <1>4, <2>2, <3>1
      <4> QED  BY <1>4, <4>1 DEF Waiting, Pts, SlotAfter
    <3>3. ASSUME NEW i \in 1 .. n + 1
          PROVE  Pts(i + Shown - 1)' = IF i = n + 1 THEN enc ELSE Waiting[i]
      <4>1. /\ i + Shown - 1 \in 0 .. Outrun
            /\ i + Shown - 1 = Outrun <=> i = n + 1
        BY <1>1, <2>2, <3>1
      <4>2. Pts(i + Shown - 1)' = IF i + Shown - 1 = Outrun
                                  THEN enc ELSE Pts(i + Shown - 1)
        BY <1>1, <1>2, <1>4, <4>1 DEF Pts, SlotAfter
      <4>3. i # n + 1 => i \in 1 .. n
        BY <3>1
      <4> QED  BY <2>4, <4>1, <4>2, <4>3
    <3>4. Waiting' = [i \in 1 .. n + 1 |-> IF i = n + 1 THEN enc ELSE Waiting[i]]
      BY <3>2, <3>3
    <3>5. Waiting \in Seq(Int) /\ Len(Waiting) = n /\ enc \in Int
      BY <1>2, <2>4
    <3> HIDE DEF n
    <3>6. Waiting' \in Seq(Int) /\ Len(Waiting') = n + 1
      BY <3>1, <3>4, <3>5
    <3>7. /\ Append(Waiting, enc) \in Seq(Int)
          /\ Len(Append(Waiting, enc)) = n + 1
          /\ \A i \in 1 .. n : Append(Waiting, enc)[i] = Waiting[i]
          /\ Append(Waiting, enc)[n + 1] = enc
      BY <3>5, AppendProperties
    <3>8. \A i \in 1 .. n + 1 : Waiting'[i] = Append(Waiting, enc)[i]
      BY <3>1, <3>4, <3>7
    <3> QED  BY <3>6, <3>7, <3>8, SeqEqual
  <2>6. enc > FQ!Newest
    <3>1. CASE Waiting = <<>>
      BY <2>3, <3>1 DEF FQ!Newest
    <3>2. CASE Waiting # <<>>
      <4>1. Outrun - Shown > 0
        BY <1>1, <2>2, <2>4, <3>2
      <4>2. Waiting[Len(Waiting)] = Pts(Outrun - 1)
        BY <1>1, <2>2, <2>4, <4>1
      <4> QED  BY <1>1, <1>2, <1>6, <3>2, <4>2 DEF FQ!Newest
    <3> QED  BY <3>1, <3>2
  <2>7. Len(Waiting) < NFrames - 2
    BY <1>1, <2>2, <2>4, NFramesAssumption
  <2> QED  BY <1>2, <1>3, <2>1, <2>3, <2>5, <2>6, <2>7 DEF FQ!Next, FQ!Append1
<1> QED  BY <1>1, <1>5, <1>6

\* Selecting a slot shows the frame that has waited longest or, forced at the
\* end of the stream with no frame left, the surface behind the mark.
LEMMA SelectShows ==
    ASSUME Inv, PlayerSelect, UNCHANGED <<decoder_idx, player_idx, frame, dpc>>
    PROVE  FQ!Next \/ UNCHANGED FQ!vars
<1>1. /\ decoder_idx \in Slots /\ player_idx \in Slots
      /\ decoder_idx # player_idx
      /\ dae_next(player_idx) # decoder_idx \/ AtEnd
      /\ \/ screen = player_idx
         \/ AtEnd /\ screen = decoder_idx /\ screen = dae_next(player_idx)
      /\ screen' = dae_next(player_idx)
  <2>1. ppc = "select" /\ screen' = dae_next(player_idx)
    BY DEF PlayerSelect
  <2>2. decoder_idx \in Slots /\ player_idx \in Slots
    BY DEF Inv, IInv, TypeOK
  <2>3. RingInv
    BY DEF Inv, IInv
  <2>4. ppc # "none" /\ ppc \notin {"inc", "advance"}
    BY <2>1
  <2>5. \/ screen = player_idx
        \/ AtEnd /\ screen = decoder_idx /\ screen = dae_next(player_idx)
    BY <2>3, <2>4 DEF RingInv
  <2>6. /\ decoder_idx # player_idx
        /\ dae_next(player_idx) # decoder_idx \/ AtEnd
    BY <2>1, <2>3, <2>4 DEF RingInv
  <2> QED  BY <2>1, <2>2, <2>5, <2>6
<1>2. dae_next(player_idx) # player_idx
  BY <1>1, NextSlot, NFramesAssumption DEF Slots
<1>3. Outrun' = Outrun /\ Outrun \in 1 .. NFrames - 1 /\ Shown' = 2
  BY <1>1, <1>2, OutrunRange, NFramesAssumption DEF Outrun, O, Shown
<1>4. \A i \in Int : Pts(i)' = Pts(i)
  BY DEF Pts, SlotAfter
<1>5. AtEnd' = AtEnd
  BY DEF AtEnd, DecoderGone
<1>6. OnScreen' = frame[dae_next(player_idx)].v_pts
  BY <1>1, <1>3 DEF OnScreen
<1>7. Waiting' = [i \in 1 .. Outrun - 2 |-> Pts(i + 1)]
  BY <1>3, <1>4 DEF Waiting
<1>8. CASE dae_next(player_idx) # decoder_idx
  <2>1. screen = player_idx /\ Shown = 1
    BY <1>1, <1>8 DEF Shown
  <2>2. Outrun >= 2
    BY <1>1, <1>8, NextSlot, NFramesAssumption
    DEF Outrun, dae_get_decoder_outrun, Slots
  <2>3. Waiting \in Seq(Int) /\ Len(Waiting) = Outrun - 1
        /\ \A i \in 1 .. Outrun - 1 : Waiting[i] = Pts(i)
    BY <2>1, <2>2, WaitingSeq DEF Inv, IInv
  <2>4. SlotAfter(player_idx, 1) = dae_next(player_idx)
    BY <1>1, NFramesAssumption DEF SlotAfter, dae_next, Slots
  <2>5. OnScreen' = Head(Waiting)
    BY <1>3, <1>6, <2>2, <2>3, <2>4 DEF Pts
  <2>6. Waiting # <<>>
    <3>1. Len(Waiting) # Len(<<>>)
      BY <1>3, <2>2, <2>3
    <3> QED  BY <3>1
  <2>7. Waiting' = Tail(Waiting)
    <3>1. \A i \in 1 .. Outrun - 2 : Waiting[i + 1] = Pts(i + 1)
      BY <1>3, <2>2, <2>3
    <3>2. Waiting' = [i \in 1 .. Outrun - 2 |-> Waiting[i + 1]]
      BY <1>7, <3>1
    <3>3. Outrun - 2 \in Nat /\ \A i \in 1 .. Outrun - 2 : Waiting[i + 1] \in Int
      BY <1>3, <2>2, <2>3
    <3>4. Waiting' \in Seq(Int) /\ Len(Waiting') = Outrun - 2
      BY <3>2, <3>3
    <3>5. /\ Tail(Waiting) \in Seq(Int) /\ Len(Tail(Waiting)) = Outrun - 2
          /\ \A i \in 1 .. Outrun - 2 : Tail(Waiting)[i] = Waiting[i + 1]
      BY <1>3, <2>3, <2>6, HeadTailProperties
    <3>6. \A i \in 1 .. Outrun - 2 : Waiting'[i] = Tail(Waiting)[i]
      BY <3>2, <3>5
    <3> QED  BY <3>4, <3>5, <3>6, SeqEqual
  <2> QED  BY <1>5, <2>5, <2>6, <2>7 DEF FQ!Next, FQ!Show
<1>9. CASE dae_next(player_idx) = decoder_idx
  <2>1. AtEnd /\ OnScreen' = HUGE
    BY <1>1, <1>6, <1>9 DEF AtEnd
  <2>2. Outrun = 1
    BY <1>1, <1>9, OutrunOfOne DEF Outrun, O
  <2>3. Waiting = <<>> /\ Waiting' = <<>>
    BY <1>7, <2>2 DEF Waiting, Shown
  <2>4. CASE screen = player_idx
    <3>1. OnScreen = Pts(0)
      BY <1>2, <1>9, <2>2, <2>4, WhatIsShown DEF Inv
    <3>2. OnScreen \in 1 .. FileFrames
      BY <2>2, <3>1, FileFramesAssumption DEF Inv, IInv, DataInv, TypeOK
    <3> QED  BY <1>5, <2>1, <2>3, <3>2 DEF FQ!Next, FQ!ShowLeftover
  <2>5. CASE screen # player_idx
    <3>1. OnScreen = HUGE
      BY <1>1, <2>1, <2>2, <2>5 DEF OnScreen, AtEnd
    <3> QED  BY <1>5, <2>1, <2>3, <3>1 DEF FQ!vars
  <2> QED  BY <2>4, <2>5
<1> QED  BY <1>8, <1>9

\* Moving player_idx to the slot shown changes nothing to see.
LEMMA AdvanceUnseen ==
    ASSUME Inv, PlayerAdvance, UNCHANGED <<decoder_idx, frame, dpc, screen>>
    PROVE  UNCHANGED FQ!vars
<1>1. /\ Outrun \in 1 .. NFrames - 1
      /\ Outrun' = Outrun - 1
      /\ \A i \in 0 .. NFrames - 2 : Pts(i)' = Pts(i + 1)
  BY DecoderAhead, RingAdvanced DEF Inv, IInv, PlayerAdvance
<1>2. /\ decoder_idx \in Slots /\ player_idx \in Slots
      /\ decoder_idx # player_idx /\ dae_next(player_idx) # decoder_idx
      /\ screen = dae_next(player_idx)
  BY DecoderAhead DEF Inv, IInv, TypeOK, RingInv, PlayerAdvance
<1>3. dae_next(player_idx) # player_idx
  BY <1>2, NextSlot, NFramesAssumption DEF Slots
<1>4. Outrun >= 2
  BY <1>2, NextSlot, NFramesAssumption
  DEF Outrun, dae_get_decoder_outrun, Slots
<1>5. Shown = 2 /\ Shown' = 1
  BY <1>2, <1>3 DEF Shown, PlayerAdvance
<1>6. Waiting' = Waiting
  <2>1. Waiting = [i \in 1 .. Outrun - 2 |-> Pts(i + 1)]
    BY <1>1, <1>5 DEF Waiting
  <2>2. Waiting' = [i \in 1 .. Outrun - 2 |-> Pts(i)']
    BY <1>1, <1>5 DEF Waiting
  <2>3. \A i \in 1 .. Outrun - 2 : Pts(i)' = Pts(i + 1)
    BY <1>1, NFramesAssumption
  <2> QED  BY <2>1, <2>2, <2>3
<1>7. OnScreen' = OnScreen
  BY <1>1, <1>4 DEF OnScreen
<1>8. AtEnd' = AtEnd
  BY DEF AtEnd, DecoderGone
<1> QED  BY <1>6, <1>7, <1>8 DEF FQ!vars

(* What select_frame is given shows the frames in the order of the stream,  *)
(* none twice and none skipped, up to the last one shown; after the end of  *)
(* the stream at most the marked slot comes behind it: the ring and its     *)
(* threads implement FrameQueue.                                            *)
THEOREM PlayRefines == PlaySpec => PlaysInOrder
<1>1. Init => FQ!Init
  BY StartsEmpty
<1>2. Inv /\ [PlayNext]_vars => [FQ!Next]_(FQ!vars)
  <2> SUFFICES ASSUME Inv, [PlayNext]_vars
               PROVE  FQ!Next \/ UNCHANGED FQ!vars
    OBVIOUS
  <2>1. CASE DecoderNext
    <3>1. CASE DecoderPublish
      BY <2>1, <3>1, PublishAppends DEF DecoderNext
    <3> QED  BY <2>1, <3>1, DecoderWorksUnseen
  <2>2. CASE PlayerNext
    <3>1. UNCHANGED <<decoder_idx, frame, dpc>>
      BY <2>2, PlayerMoves
    <3>2. CASE PlayerAdvance /\ UNCHANGED screen
      BY <3>1, <3>2, AdvanceUnseen
    <3>3. CASE PlayerSelect /\ UNCHANGED player_idx
      BY <3>1, <3>3, SelectShows
    <3>4. CASE UNCHANGED <<player_idx, screen>>
      <4>1. UNCHANGED <<OnScreen, Waiting>>
        BY <3>1, <3>4, RingKept, QueueKept DEF Inv, IInv
      <4>2. UNCHANGED AtEnd
        BY <3>1 DEF AtEnd, DecoderGone
      <4> QED  BY <4>1, <4>2 DEF FQ!vars
    <3> QED  BY <2>2, <3>2, <3>3, <3>4, PlayerMoves
  <2>3. CASE (MainPlay \/ MainQuit) /\ MainLeaves
    <3>1. UNCHANGED <<OnScreen, Waiting>>
      BY <2>3, MainMoves, RingKept, QueueKept DEF Inv, IInv
    <3>2. UNCHANGED AtEnd
      BY <2>3, MainMoves DEF AtEnd, DecoderGone, Inv, IInv, ThreadInv
    <3> QED  BY <3>1, <3>2 DEF FQ!vars
  <2>4. CASE UNCHANGED vars
    <3>1. UNCHANGED <<OnScreen, Waiting>>
      BY <2>4, RingKept, QueueKept DEF Inv, IInv, vars
    <3>2. UNCHANGED AtEnd
      BY <2>4 DEF AtEnd, DecoderGone, vars
    <3> QED  BY <3>1, <3>2 DEF FQ!vars
  <2> QED  BY <2>1, <2>2, <2>3, <2>4 DEF PlayNext
<1> QED  BY <1>1, <1>2, PlayDataInvariant, PTL DEF PlaySpec, PlaysInOrder, FQ!Spec

-----------------------------------------------------------------------------
(* Durations.  dae_prev goes round the ring the other way only when the     *)
(* range of an unsigned is a multiple of the number of slots, as it is for  *)
(* the 2^32 of the program when that is a power of two: the condition under *)
(* which the player may rely on durations.                                  *)

(* One less than a multiple of a number has the largest remainder by it.    *)
LEMMA OneBelowMultiple ==
    ASSUME NEW n \in Nat, n > 0, NEW u \in Nat, u > n, u % n = 0
    PROVE  (u - 1) % n = n - 1
<1> DEFINE q == u \div n
           c == (u - 1) \div n
           r == (u - 1) % n
           e == q - 1 - c
<1>1. q \in Int /\ u = n * q
  BY SMT
<1>2. c \in Int /\ r \in 0 .. n - 1 /\ u - 1 = n * c + r
  BY SMT
<1>3. e \in Int /\ n * e = r - (n - 1)
  BY <1>1, <1>2, SMT
<1>4. ~ (e >= 1)
  <2> SUFFICES ASSUME e >= 1 PROVE FALSE
    OBVIOUS
  <2>1. n * e >= n
    BY <1>3, SMT
  <2> QED  BY <1>2, <1>3, <2>1, SMT
<1>5. ~ (e <= -1)
  <2> SUFFICES ASSUME e <= -1 PROVE FALSE
    OBVIOUS
  <2>1. n * e <= -n
    BY <1>3, SMT
  <2> QED  BY <1>2, <1>3, <2>1, SMT
<1>6. e = 0
  BY <1>3, <1>4, <1>5, SMT
<1> QED  BY <1>2, <1>3, <1>6, SMT

(* dae_prev undoes dae_next.                                               *)
LEMMA PrevIsBefore ==
    ASSUME UIntRange % NFrames = 0, NEW i \in Slots
    PROVE  dae_prev(i) = IF i = 0 THEN NFrames - 1 ELSE i - 1
<1>1. CASE i = 0
  <2>1. (UIntRange - 1) % UIntRange = UIntRange - 1
    BY UIntAssumption, NFramesAssumption, SMT
  <2>2. (UIntRange - 1) % NFrames = NFrames - 1
    BY OneBelowMultiple, UIntAssumption, NFramesAssumption
  <2>3. i - 1 + UIntRange = UIntRange - 1
    BY <1>1, UIntAssumption
  <2> QED  BY <1>1, <2>1, <2>2, <2>3 DEF dae_prev
<1>2. CASE i # 0
  <2>1. i - 1 \in Nat /\ i - 1 < NFrames /\ i - 1 < UIntRange
    BY <1>2, UIntAssumption, NFramesAssumption DEF Slots
  <2>2. (i - 1 + UIntRange) % UIntRange = i - 1
    BY <2>1, UIntAssumption, SMT
  <2>3. (i - 1) % NFrames = i - 1
    BY <2>1, NFramesAssumption, SMT
  <2> QED  BY <1>2, <2>2, <2>3 DEF dae_prev
<1> QED  BY <1>1, <1>2

(* The slot before the decoder's holds the frame published last, and is    *)
(* behind every other pair of neighbours.                                  *)
LEMMA LastPublished ==
    ASSUME UIntRange % NFrames = 0, TypeOK, Outrun >= 1
    PROVE  /\ dae_prev(decoder_idx) = SlotAfter(player_idx, Outrun - 1)
           /\ \A i \in 0 .. Outrun - 2 :
                  SlotAfter(player_idx, i) # dae_prev(decoder_idx)
<1>1. decoder_idx \in Slots /\ player_idx \in Slots
  BY DEF TypeOK
<1>2. dae_prev(decoder_idx) = IF decoder_idx = 0 THEN NFrames - 1
                                                 ELSE decoder_idx - 1
  BY <1>1, PrevIsBefore
<1> QED  BY <1>1, <1>2, NFramesAssumption
         DEF Outrun, dae_get_decoder_outrun, SlotAfter, Slots

\* The durations of the frames behind the player are settled, and so is that
\* of the frame published last once the one behind it is ready.
DurationInv ==
    /\ DurationsSettled
    /\ dpc \in {"inc", "publish"} /\ Outrun >= 1 =>
           LET prev == frame[dae_prev(decoder_idx)]
           IN prev.duration = enc - prev.v_pts

(* Whoever leaves the indices, the frames in the ring and their durations  *)
(* as they are leaves what is settled settled.                             *)
LEMMA SettledKept ==
    ASSUME TypeOK, UNCHANGED <<decoder_idx, player_idx>>, DurationsSettled,
           \A s \in Slots : s # decoder_idx => frame'[s].v_pts = frame[s].v_pts,
           \A i \in 0 .. Outrun - 2 :
               LET s == SlotAfter(player_idx, i)
               IN frame'[s].duration = frame[s].duration
    PROVE  Outrun' = Outrun /\ DurationsSettled'
<1>1. Outrun' = Outrun
  BY DEF Outrun
<1>2. ASSUME NEW i \in 0 .. Outrun - 2
      PROVE  frame'[SlotAfter(player_idx, i)].duration =
               frame'[SlotAfter(player_idx, i + 1)].v_pts
                 - frame'[SlotAfter(player_idx, i)].v_pts
  <2>1. Outrun \in Nat /\ Outrun = O(decoder_idx, player_idx)
    BY OutrunRange DEF TypeOK, Outrun, O
  <2>2. i \in 0 .. Outrun - 1 /\ i + 1 \in 0 .. Outrun - 1
    BY <2>1
  <2>3. /\ SlotAfter(player_idx, i) \in Slots \ {decoder_idx}
        /\ SlotAfter(player_idx, i + 1) \in Slots \ {decoder_idx}
    BY <2>1, <2>2, SlotsBetween DEF TypeOK
  <2> QED  BY <2>3 DEF DurationsSettled
<1>3. \A i : SlotAfter(player_idx, i)' = SlotAfter(player_idx, i)
  BY DEF SlotAfter
<1> QED  BY <1>1, <1>2 DEF DurationsSettled, SlotAfter

(* The decoder keeps the durations settled.                                *)
LEMMA DecoderDuration ==
    ASSUME UIntRange % NFrames = 0, Inv, DurationInv, DecoderNext
    PROVE  DurationInv'
<1> USE DEF Inv, IInv, DurationInv, DecoderNext
<1>1. Outrun \in Nat /\ Outrun = O(decoder_idx, player_idx)
  BY OutrunRange DEF TypeOK, Outrun, O
<1>2. CASE DecoderFill \/ DecoderMarkEof
  <2>1. \A s \in Slots : s # decoder_idx => frame'[s] = frame[s]
    BY <1>2 DEF DecoderFill, DecoderMarkEof, TypeOK
  <2>2. \A i \in 0 .. Outrun - 2 : SlotAfter(player_idx, i) \in Slots \ {decoder_idx}
    BY <1>1, SlotsBetween DEF TypeOK
  <2>3. UNCHANGED <<decoder_idx, player_idx>> /\ dpc' \notin {"inc", "publish"}
    BY <1>2 DEF DecoderFill, DecoderMarkEof
  <2> QED  BY <2>1, <2>2, <2>3, SettledKept
<1>3. CASE DecoderSetDuration
  <2> DEFINE prev == dae_prev(decoder_idx)
  <2>1. prev \in Slots
    BY PrevSlot DEF TypeOK
  <2>2. /\ frame' = [frame EXCEPT ![prev].duration = enc - frame[prev].v_pts]
        /\ UNCHANGED <<decoder_idx, player_idx, enc>>
    BY <1>3 DEF DecoderSetDuration
  <2>3. /\ \A s \in Slots : frame'[s].v_pts = frame[s].v_pts
        /\ \A s \in Slots : s # prev => frame'[s].duration = frame[s].duration
        /\ frame'[prev].duration = enc - frame[prev].v_pts
    BY <2>1, <2>2 DEF TypeOK
  <2>4. \A i \in 0 .. Outrun - 2 :
            SlotAfter(player_idx, i) \in Slots /\ SlotAfter(player_idx, i) # prev
    BY <1>1, LastPublished, SlotsBetween DEF TypeOK
  <2>5. Outrun' = Outrun /\ DurationsSettled'
    BY <2>2, <2>3, <2>4, SettledKept
  <2>6. dae_prev(decoder_idx)' = prev
    BY <2>2 DEF dae_prev
  <2> QED  BY <2>1, <2>2, <2>3, <2>5, <2>6
<1>4. CASE DecoderPublish
  <2>1. /\ Outrun' = Outrun + 1
        /\ UNCHANGED <<player_idx, frame>> /\ dpc' = "top" /\ dpc = "publish"
    BY <1>4, RingPublished DEF DecoderPublish
  <2>2. ASSUME NEW i \in 0 .. Outrun - 1
        PROVE  frame[SlotAfter(player_idx, i)].duration =
                 frame[SlotAfter(player_idx, i + 1)].v_pts
                   - frame[SlotAfter(player_idx, i)].v_pts
    <3>1. CASE i < Outrun - 1
      BY <1>1, <3>1 DEF DurationsSettled
    <3>2. CASE i = Outrun - 1
      <4>1. SlotAfter(player_idx, i) = dae_prev(decoder_idx)
        BY <1>1, <3>2, LastPublished
      <4>2. SlotAfter(player_idx, i + 1) = decoder_idx
        BY <1>1, <3>2, OutrunRange DEF TypeOK
      <4>3. frame[decoder_idx].v_pts = enc
        BY <2>1 DEF DataInv
      <4> QED  BY <1>1, <2>1, <4>1, <4>2, <4>3
    <3> QED  BY <1>1, <3>1, <3>2
  <2> QED  BY <1>1, <2>1, <2>2 DEF DurationsSettled, SlotAfter
<1>5. CASE \/ DecoderStart \/ DecoderClearEof \/ DecoderTop \/ DecoderSleep
           \/ DecoderWake \/ DecoderRead \/ DecoderSetEof \/ DecoderDecode
           \/ DecoderIncTest \/ DecoderExit
  <2>1. UNCHANGED <<decoder_idx, player_idx, frame>>
    BY <1>5 DEF DecoderStart, DecoderClearEof, DecoderTop, DecoderSleep,
       DecoderWake, DecoderRead, DecoderSetEof, DecoderDecode, DecoderIncTest,
       DecoderExit
  <2>2. dpc' \in {"inc", "publish"} => dpc \in {"inc", "publish"} /\ enc' = enc
    BY <1>5 DEF DecoderStart, DecoderClearEof, DecoderTop, DecoderSleep,
       DecoderWake, DecoderRead, DecoderSetEof, DecoderDecode, DecoderIncTest,
       DecoderExit
  <2> QED  BY <2>1, <2>2 DEF DurationsSettled, Outrun, SlotAfter, dae_prev
<1> QED  BY <1>2, <1>3, <1>4, <1>5 DEF DecoderStep

(* The player keeps them settled.                                          *)
LEMMA PlayerDuration ==
    ASSUME Inv, DurationInv, PlayerNext
    PROVE  DurationInv'
<1>1. UNCHANGED <<decoder_idx, frame, dpc, enc>>
  BY PlayerMoves
<1>2. CASE UNCHANGED player_idx
  BY <1>1, <1>2 DEF DurationInv, DurationsSettled, Outrun, SlotAfter, dae_prev
<1>3. CASE PlayerAdvance
  <2>1. /\ decoder_idx \in Slots /\ player_idx \in Slots
        /\ decoder_idx # player_idx /\ player_idx' = dae_next(player_idx)
    BY <1>3, DecoderAhead DEF Inv, IInv, TypeOK, PlayerAdvance
  <2>2. Outrun \in 1 .. NFrames - 1 /\ Outrun' = Outrun - 1
    BY <1>1, <2>1, RingAdvanced DEF Inv, IInv
  <2>3. \A i \in 0 .. NFrames - 2 :
            SlotAfter(player_idx, i)' = SlotAfter(player_idx, i + 1)
    BY <2>1, OutrunAdvance DEF SlotAfter
  <2>4. DurationsSettled'
    <3>1. \A i \in 0 .. Outrun' - 2 :
              /\ SlotAfter(player_idx, i)' = SlotAfter(player_idx, i + 1)
              /\ SlotAfter(player_idx, i + 1)' = SlotAfter(player_idx, i + 2)
              /\ i + 1 \in 0 .. Outrun - 2
      BY <2>2, <2>3, NFramesAssumption
    <3> QED  BY <1>1, <3>1 DEF DurationInv, DurationsSettled, SlotAfter
  <2>5. dae_prev(decoder_idx)' = dae_prev(decoder_idx)
    BY <1>1 DEF dae_prev
  <2> QED  BY <1>1, <2>2, <2>4, <2>5 DEF DurationInv
<1> QED  BY <1>2, <1>3, PlayerMoves

(* With slots that divide the range of an unsigned, the player sleeps for  *)
(* the true distance to the next picture.                                  *)
THEOREM PlayDurationsSettled ==
    ASSUME UIntRange % NFrames = 0
    PROVE  PlaySpec => []DurationsSettled
<1>1. Init => DurationInv
  <2> SUFFICES ASSUME Init PROVE DurationInv
    OBVIOUS
  <2>1. Outrun = 0
    BY DEF Init, Outrun, dae_get_decoder_outrun
  <2> QED  BY <2>1 DEF Init, DurationInv, DurationsSettled
<1>2. Inv /\ DurationInv /\ [PlayNext]_vars => DurationInv'
  <2> SUFFICES ASSUME Inv, DurationInv, [PlayNext]_vars PROVE DurationInv'
    OBVIOUS
  <2>1. CASE (MainPlay \/ MainQuit) /\ MainLeaves
    BY <2>1, MainMoves
    DEF DurationInv, DurationsSettled, Outrun, SlotAfter, dae_prev
  <2>2. CASE UNCHANGED vars
    BY <2>2
    DEF vars, DurationInv, DurationsSettled, Outrun, SlotAfter, dae_prev
  <2> QED  BY <2>1, <2>2, DecoderDuration, PlayerDuration DEF PlayNext
<1>3. DurationInv => DurationsSettled
  BY DEF DurationInv
<1> QED  BY <1>1, <1>2, <1>3, PlayDataInvariant, PTL DEF PlaySpec
=============================================================================
