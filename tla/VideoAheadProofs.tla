------------------------- MODULE VideoAheadProofs -------------------------
(***************************************************************************)
(* Proofs about playing a file with decoding ahead, for every ring size    *)
(* and every length of the stream.                                         *)
(***************************************************************************)
EXTENDS VideoAhead, TLAPS

(* dae_next walks round the ring.                                          *)
LEMMA NextSlot ==
    ASSUME NEW i \in Slots
    PROVE  /\ dae_next(i) = (IF i = NFrames - 1 THEN 0 ELSE i + 1)
           /\ dae_next(i) \in Slots
<1>1. CASE i = NFrames - 1
  BY <1>1, NFramesAssumption, SMT DEF Slots, dae_next
<1>2. CASE i # NFrames - 1
  BY <1>2, NFramesAssumption, SMT DEF Slots, dae_next
<1> QED  BY <1>1, <1>2

(* dae_prev stays inside the ring.                                         *)
LEMMA PrevSlot ==
    ASSUME NEW i \in Slots
    PROVE  dae_prev(i) \in Slots
<1> DEFINE w == (i - 1 + UIntRange) % UIntRange
<1>1. w \in Nat
  BY NFramesAssumption, UIntAssumption, SMT DEF Slots
<1>2. w % NFrames \in 0 .. NFrames - 1
  BY <1>1, NFramesAssumption, SMT
<1> QED  BY <1>2 DEF dae_prev, Slots




(* The playing part of the invariant, and the steps it is preserved by.    *)
USE DEF SetState, DecoderAt, PlayerAt, MainAt, decVars, playVars, mainVars,
        Threads, Registered

(* The initial states satisfy the invariant.                               *)
LEMMA InitInv == Init => TypeOK /\ ThreadInv /\ RingInv
<1> SUFFICES ASSUME Init PROVE TypeOK /\ ThreadInv /\ RingInv
  OBVIOUS
<1>1. 0 \in Slots /\ 0 \in VPts
  BY NFramesAssumption, FileFramesAssumption DEF Slots, VPts, HUGE
<1>2. TypeOK
  <2>1. frame \in [Slots -> [v_pts : VPts, duration : Int]]
    BY <1>1 DEF Init
  <2>2. state \in [Threads -> PthStates]
    BY DEF Init, PthStates
  <2>3. 0 \in 0 .. FileFrames
    BY FileFramesAssumption
  <2>4. decoder_idx \in Slots /\ player_idx \in Slots /\ screen \in Slots
    BY <1>1 DEF Init
  <2>5. dpc \in DecoderPlaces /\ ppc \in PlayerPlaces /\ mpc \in MainPlaces
    BY DEF Init, DecoderPlaces, PlayerPlaces, MainPlaces
  <2>6. eof \in BOOLEAN /\ can_blit \in BOOLEAN
    BY DEF Init
  <2>7. /\ pos \in 0 .. FileFrames /\ enc \in 0 .. FileFrames
        /\ shva_prev \in Int /\ mi \in 1 .. 3
    BY <2>3 DEF Init
  <2> QED  BY <2>1, <2>2, <2>4, <2>5, <2>6, <2>7 DEF TypeOK
<1>3. ThreadInv
  BY DEF Init, ThreadInv
<1>4. RingInv
  BY DEF Init, RingInv
<1> QED  BY <1>2, <1>3, <1>4

(* A step of the decoder keeps the types.                                   *)
LEMMA DecoderType ==
    ASSUME TypeOK, DecoderNext
    PROVE  TypeOK'
<1>1. CASE DecoderStart
  BY <1>1
  DEF DecoderStart, TypeOK, PthStates, DecoderPlaces, DecoderNext
<1>2. CASE DecoderClearEof
  BY <1>2
  DEF DecoderClearEof, TypeOK, DecoderPlaces, DecoderNext
<1>3. CASE DecoderTop
  BY <1>3
  DEF DecoderTop, TypeOK, DecoderPlaces, DecoderNext
<1>4. CASE DecoderSleep
  BY <1>4
  DEF DecoderSleep, TypeOK, PthStates, DecoderPlaces, DecoderNext
<1>5. CASE DecoderWake
  BY <1>5
  DEF DecoderWake, TypeOK, DecoderPlaces, DecoderNext
<1>6. CASE DecoderRead
  BY <1>6, FileFramesAssumption
  DEF DecoderRead, TypeOK, VPts, HUGE, DecoderPlaces, DecoderNext
<1>7. CASE DecoderMarkEof
  <2>1. HUGE \in VPts
    BY FileFramesAssumption DEF HUGE, VPts
  <2> QED  BY <1>7, <2>1 DEF DecoderMarkEof, TypeOK, DecoderPlaces, DecoderNext
<1>8. CASE DecoderSetEof
  BY <1>8
  DEF DecoderSetEof, TypeOK, DecoderPlaces, DecoderNext
<1>9. CASE DecoderDecode
  BY <1>9
  DEF DecoderDecode, TypeOK, DecoderPlaces, DecoderNext
<1>10. CASE DecoderFill
  BY <1>10, FileFramesAssumption
  DEF DecoderFill, TypeOK, VPts, HUGE, DecoderPlaces, DecoderNext
<1>11. CASE DecoderSetDuration
  <2>1. dae_prev(decoder_idx) \in Slots
    BY PrevSlot DEF TypeOK
  <2>2. enc - frame[dae_prev(decoder_idx)].v_pts \in Int
    BY <2>1, FileFramesAssumption DEF TypeOK, VPts, HUGE
  <2> QED  BY <1>11, <2>1, <2>2
           DEF DecoderSetDuration, TypeOK, DecoderPlaces, DecoderNext
<1>12. CASE DecoderIncTest
  BY <1>12
  DEF DecoderIncTest, TypeOK, DecoderPlaces, DecoderNext
<1>13. CASE DecoderPublish
  <2>1. dae_next(decoder_idx) \in Slots
    BY NextSlot DEF TypeOK
  <2> QED  BY <1>13, <2>1
  DEF DecoderPublish, TypeOK, DecoderPlaces, DecoderNext
<1>14. CASE DecoderExit
  BY <1>14
  DEF DecoderExit, TypeOK, PthStates, DecoderPlaces, DecoderNext
<1> QED
  BY <1>1, <1>2, <1>3, <1>4, <1>5, <1>6, <1>7, <1>8, <1>9, <1>10, <1>11,
     <1>12, <1>13, <1>14
  DEF DecoderNext, DecoderStep

(* A step of the player keeps the types.                                    *)
LEMMA PlayerType ==
    ASSUME TypeOK, PlayerNext
    PROVE  TypeOK'
<1>1. CASE PlayerStart
  BY <1>1
  DEF PlayerStart, TypeOK, PthStates, PlayerPlaces, PlayerNext, PlayerLeaves
<1>2. CASE PlayerClearEof
  BY <1>2
  DEF PlayerClearEof, TypeOK, PlayerPlaces, PlayerNext, PlayerLeaves
<1>3. CASE PlayerTop
  BY <1>3
  DEF PlayerTop, TypeOK, PlayerPlaces, PlayerNext, PlayerLeaves
<1>4. CASE PlayerSleep
  BY <1>4
  DEF PlayerSleep, TypeOK, PthStates, PlayerPlaces, PlayerNext, PlayerLeaves
<1>5. CASE PlayerWake
  BY <1>5
  DEF PlayerWake, TypeOK, PlayerPlaces, PlayerNext, PlayerLeaves
<1>6. CASE PlayerCopy
  BY <1>6
  DEF PlayerCopy, TypeOK, PlayerPlaces, PlayerNext, PlayerLeaves
<1>7. CASE PlayerTry
  BY <1>7
  DEF PlayerTry, TypeOK, PlayerPlaces, PlayerNext, PlayerLeaves
<1>8. CASE PlayerForce
  BY <1>8
  DEF PlayerForce, TypeOK, PlayerPlaces, PlayerNext, PlayerLeaves
<1>9. CASE PlayerWaitMore
  BY <1>9
  DEF PlayerWaitMore, TypeOK, PlayerPlaces, PlayerNext, PlayerLeaves
<1>10. CASE PlayerWaited
  BY <1>10
  DEF PlayerWaited, TypeOK, PlayerPlaces, PlayerNext, PlayerLeaves
<1>11. CASE PlayerSelect
  <2>1. dae_next(player_idx) \in Slots
    BY NextSlot DEF TypeOK
  <2> QED  BY <1>11, <2>1
           DEF PlayerSelect, TypeOK, PlayerPlaces, PlayerNext, PlayerLeaves
<1>12. CASE PlayerIncTest
  BY <1>12
  DEF PlayerIncTest, TypeOK, PlayerPlaces, PlayerNext, PlayerLeaves
<1>13. CASE PlayerAdvance
  <2>1. dae_next(player_idx) \in Slots
    BY NextSlot DEF TypeOK
  <2> QED  BY <1>13, <2>1
           DEF PlayerAdvance, TypeOK, PlayerPlaces, PlayerNext, PlayerLeaves
<1>14. CASE PlayerReturn
  BY <1>14
  DEF PlayerReturn, TypeOK, PlayerPlaces, PlayerNext, PlayerLeaves
<1>15. CASE PlayerExit
  BY <1>15
  DEF PlayerExit, TypeOK, PthStates, PlayerPlaces, PlayerNext, PlayerLeaves
<1> QED
  BY <1>1, <1>2, <1>3, <1>4, <1>5, <1>6, <1>7, <1>8, <1>9, <1>10, <1>11,
     <1>12, <1>13, <1>14, <1>15
  DEF PlayerNext, PlayerStep

(* A step of main keeps the types.                                          *)
LEMMA MainType ==
    ASSUME TypeOK, mpc = "stopping" => mi \in 1 .. 2,
           MainPlay \/ MainQuit, MainLeaves
    PROVE  TypeOK'
<1>1. CASE MainRunDecoders
  BY <1>1
  DEF MainRunDecoders, TypeOK, PthStates, DecoderPlaces, PlayerPlaces, MainPlaces,
      MainLeaves
<1>2. CASE MainDecoderRuns
  BY <1>2
  DEF MainDecoderRuns, TypeOK, MainPlaces, MainLeaves
<1>3. CASE MainOutrun
  BY <1>3
  DEF MainOutrun, TypeOK, MainPlaces, MainLeaves
<1>4. CASE MainRunPlayers
  BY <1>4
  DEF MainRunPlayers, TypeOK, PthStates, DecoderPlaces, PlayerPlaces, MainPlaces,
      MainLeaves
<1>5. CASE MainPlayerRuns
  BY <1>5
  DEF MainPlayerRuns, TypeOK, MainPlaces, MainLeaves
<1>6. CASE MainPlayedEof
  BY <1>6
  DEF MainPlayedEof, TypeOK, MainPlaces, MainLeaves
<1>7. CASE MainQuit
  BY <1>7
  DEF MainQuit, TypeOK, MainPlaces, MainLeaves
<1>8. CASE MainStop
  BY <1>8
  DEF MainStop, TypeOK, PthStates, MainPlaces, MainLeaves
<1>9. CASE MainStopped
  BY <1>9
  DEF MainStopped, TypeOK, MainPlaces, MainLeaves
<1>10. CASE MainUninit
  BY <1>10
  DEF MainUninit, TypeOK, MainPlaces, MainLeaves
<1> QED
  BY <1>1, <1>2, <1>3, <1>4, <1>5, <1>6, <1>7, <1>8, <1>9, <1>10
  DEF MainPlay

(* The three keep what is known of the threads.                             *)
LEMMA DecoderThread ==
    ASSUME TypeOK, ThreadInv, DecoderNext
    PROVE  ThreadInv'
<1>1. CASE DecoderStart
  BY <1>1 DEF DecoderStart, TypeOK, PthStates, ThreadInv, DecoderNext
<1>2. CASE DecoderClearEof
  BY <1>2 DEF DecoderClearEof, TypeOK, PthStates, ThreadInv, DecoderNext
<1>3. CASE DecoderTop
  BY <1>3 DEF DecoderTop, TypeOK, PthStates, ThreadInv, DecoderNext
<1>4. CASE DecoderSleep
  BY <1>4 DEF DecoderSleep, TypeOK, PthStates, ThreadInv, DecoderNext
<1>5. CASE DecoderWake
  BY <1>5 DEF DecoderWake, TypeOK, PthStates, ThreadInv, DecoderNext
<1>6. CASE DecoderRead
  BY <1>6 DEF DecoderRead, TypeOK, PthStates, ThreadInv, DecoderNext
<1>7. CASE DecoderMarkEof
  BY <1>7 DEF DecoderMarkEof, TypeOK, PthStates, ThreadInv, DecoderNext
<1>8. CASE DecoderSetEof
  BY <1>8 DEF DecoderSetEof, TypeOK, PthStates, ThreadInv, DecoderNext
<1>9. CASE DecoderDecode
  BY <1>9 DEF DecoderDecode, TypeOK, PthStates, ThreadInv, DecoderNext
<1>10. CASE DecoderFill
  BY <1>10 DEF DecoderFill, TypeOK, PthStates, ThreadInv, DecoderNext
<1>11. CASE DecoderSetDuration
  BY <1>11 DEF DecoderSetDuration, TypeOK, PthStates, ThreadInv, DecoderNext
<1>12. CASE DecoderIncTest
  BY <1>12 DEF DecoderIncTest, TypeOK, PthStates, ThreadInv, DecoderNext
<1>13. CASE DecoderPublish
  BY <1>13 DEF DecoderPublish, TypeOK, PthStates, ThreadInv, DecoderNext
<1>14. CASE DecoderExit
  BY <1>14 DEF DecoderExit, TypeOK, PthStates, ThreadInv, DecoderNext
<1> QED
  BY <1>1, <1>2, <1>3, <1>4, <1>5, <1>6, <1>7, <1>8, <1>9, <1>10, <1>11,
     <1>12, <1>13, <1>14
  DEF DecoderNext, DecoderStep

(* A step of the player keeps what is known of the threads.                *)
LEMMA PlayerThread ==
    ASSUME TypeOK, ThreadInv, PlayerNext
    PROVE  ThreadInv'
<1>1. CASE PlayerStart
  BY <1>1
  DEF PlayerStart, TypeOK, PthStates, ThreadInv, PlayerNext, PlayerLeaves
<1>2. CASE PlayerClearEof
  BY <1>2
  DEF PlayerClearEof, TypeOK, PthStates, ThreadInv, PlayerNext, PlayerLeaves
<1>3. CASE PlayerTop
  BY <1>3 DEF PlayerTop, TypeOK, PthStates, ThreadInv, PlayerNext, PlayerLeaves
<1>4. CASE PlayerSleep
  BY <1>4
  DEF PlayerSleep, TypeOK, PthStates, ThreadInv, PlayerNext, PlayerLeaves
<1>5. CASE PlayerWake
  BY <1>5
  DEF PlayerWake, TypeOK, PthStates, ThreadInv, PlayerNext, PlayerLeaves
<1>6. CASE PlayerCopy
  BY <1>6
  DEF PlayerCopy, TypeOK, PthStates, ThreadInv, PlayerNext, PlayerLeaves
<1>7. CASE PlayerTry
  BY <1>7 DEF PlayerTry, TypeOK, PthStates, ThreadInv, PlayerNext, PlayerLeaves
<1>8. CASE PlayerForce
  BY <1>8
  DEF PlayerForce, TypeOK, PthStates, ThreadInv, PlayerNext, PlayerLeaves
<1>9. CASE PlayerWaitMore
  BY <1>9
  DEF PlayerWaitMore, TypeOK, PthStates, ThreadInv, PlayerNext, PlayerLeaves
<1>10. CASE PlayerWaited
  BY <1>10
  DEF PlayerWaited, TypeOK, PthStates, ThreadInv, PlayerNext, PlayerLeaves
<1>11. CASE PlayerSelect
  BY <1>11
  DEF PlayerSelect, TypeOK, PthStates, ThreadInv, PlayerNext, PlayerLeaves
<1>12. CASE PlayerIncTest
  BY <1>12
  DEF PlayerIncTest, TypeOK, PthStates, ThreadInv, PlayerNext, PlayerLeaves
<1>13. CASE PlayerAdvance
  BY <1>13
  DEF PlayerAdvance, TypeOK, PthStates, ThreadInv, PlayerNext, PlayerLeaves
<1>14. CASE PlayerReturn
  BY <1>14
  DEF PlayerReturn, TypeOK, PthStates, ThreadInv, PlayerNext, PlayerLeaves
<1>15. CASE PlayerExit
  BY <1>15
  DEF PlayerExit, TypeOK, PthStates, ThreadInv, PlayerNext, PlayerLeaves
<1> QED
  BY <1>1, <1>2, <1>3, <1>4, <1>5, <1>6, <1>7, <1>8, <1>9, <1>10, <1>11,
     <1>12, <1>13, <1>14, <1>15
  DEF PlayerNext, PlayerStep

(* A step of main keeps it.                                                *)
LEMMA MainThread ==
    ASSUME TypeOK, ThreadInv, MainPlay \/ MainQuit, MainLeaves
    PROVE  ThreadInv'
<1>1. CASE MainRunDecoders
  BY <1>1 DEF MainRunDecoders, TypeOK, PthStates, ThreadInv, MainLeaves
<1>2. CASE MainDecoderRuns
  BY <1>2 DEF MainDecoderRuns, TypeOK, PthStates, ThreadInv, MainLeaves
<1>3. CASE MainOutrun
  BY <1>3 DEF MainOutrun, TypeOK, PthStates, ThreadInv, MainLeaves
<1>4. CASE MainRunPlayers
  BY <1>4 DEF MainRunPlayers, TypeOK, PthStates, ThreadInv, MainLeaves
<1>5. CASE MainPlayerRuns
  BY <1>5 DEF MainPlayerRuns, TypeOK, PthStates, ThreadInv, MainLeaves
<1>6. CASE MainPlayedEof
  BY <1>6 DEF MainPlayedEof, TypeOK, PthStates, ThreadInv, MainLeaves
<1>7. CASE MainQuit
  BY <1>7 DEF MainQuit, TypeOK, PthStates, ThreadInv, MainLeaves
<1>8. CASE MainStop
  BY <1>8 DEF MainStop, TypeOK, PthStates, ThreadInv, MainLeaves
<1>9. CASE MainStopped
  BY <1>9 DEF MainStopped, TypeOK, PthStates, ThreadInv, MainLeaves
<1>10. CASE MainUninit
  BY <1>10 DEF MainUninit, TypeOK, PthStates, ThreadInv, MainLeaves
<1> QED
  BY <1>1, <1>2, <1>3, <1>4, <1>5, <1>6, <1>7, <1>8, <1>9, <1>10
  DEF MainPlay

(* And what is known of the ring.                                           *)
LEMMA DecoderRing ==
    ASSUME TypeOK, ThreadInv, RingInv, DecoderNext
    PROVE  RingInv'
<1>1. CASE DecoderStart
  BY <1>1
  DEF DecoderStart, RingInv, TypeOK, ThreadInv, DecoderGone, AtEnd, DecoderNext
<1>2. CASE DecoderClearEof
  BY <1>2
  DEF DecoderClearEof, RingInv, TypeOK, ThreadInv, DecoderGone, AtEnd, DecoderNext
<1>3. CASE DecoderTop
  BY <1>3 DEF DecoderTop, RingInv, TypeOK, ThreadInv, DecoderGone, AtEnd, DecoderNext
<1>4. CASE DecoderSleep
  BY <1>4
  DEF DecoderSleep, RingInv, TypeOK, ThreadInv, DecoderGone, AtEnd, DecoderNext
<1>5. CASE DecoderWake
  BY <1>5 DEF DecoderWake, RingInv, TypeOK, ThreadInv, DecoderGone, AtEnd, DecoderNext
<1>6. CASE DecoderRead
  BY <1>6 DEF DecoderRead, RingInv, TypeOK, ThreadInv, DecoderGone, AtEnd, DecoderNext
<1>7. CASE DecoderMarkEof
  BY <1>7
  DEF DecoderMarkEof, RingInv, TypeOK, ThreadInv, DecoderGone, AtEnd, DecoderNext
<1>8. CASE DecoderSetEof
  BY <1>8
  DEF DecoderSetEof, RingInv, TypeOK, ThreadInv, DecoderGone, AtEnd, DecoderNext
<1>9. CASE DecoderDecode
  BY <1>9
  DEF DecoderDecode, RingInv, TypeOK, ThreadInv, DecoderGone, AtEnd, DecoderNext
<1>10. CASE DecoderFill
  BY <1>10
  DEF DecoderFill, RingInv, TypeOK, ThreadInv, DecoderGone, AtEnd, DecoderNext
<1>11. CASE DecoderSetDuration
  BY <1>11
  DEF DecoderSetDuration, RingInv, TypeOK, ThreadInv, DecoderGone, AtEnd, DecoderNext
<1>12. CASE DecoderIncTest
  BY <1>12
  DEF DecoderIncTest, RingInv, TypeOK, ThreadInv, DecoderGone, AtEnd, DecoderNext
<1>13. CASE DecoderPublish
  <2>1. /\ decoder_idx \in Slots /\ player_idx \in Slots
        /\ decoder_idx # player_idx \/ ppc = "none"
    BY DEF TypeOK, RingInv
  <2>2. /\ dae_next(decoder_idx) \in Slots /\ dae_next(player_idx) \in Slots
        /\ decoder_idx # player_idx =>
               dae_next(decoder_idx) # dae_next(player_idx)
    BY <2>1, NextSlot, NFramesAssumption DEF Slots
  <2> QED  BY <1>13, <2>1, <2>2
           DEF DecoderPublish, RingInv, ThreadInv, DecoderGone, AtEnd, DecoderNext
<1>14. CASE DecoderExit
  BY <1>14
  DEF DecoderExit, RingInv, TypeOK, ThreadInv, DecoderGone, AtEnd, DecoderNext
<1> QED
  BY <1>1, <1>2, <1>3, <1>4, <1>5, <1>6, <1>7, <1>8, <1>9, <1>10, <1>11,
     <1>12, <1>13, <1>14
  DEF DecoderNext, DecoderStep

(* A step of the player keeps what is known of the ring.                   *)
LEMMA PlayerRing ==
    ASSUME TypeOK, ThreadInv, RingInv, PlayerNext
    PROVE  RingInv'
<1>1. CASE PlayerStart
  BY <1>1
  DEF PlayerStart, RingInv, TypeOK, ThreadInv, DecoderGone, AtEnd, PlayerNext,
      PlayerLeaves
<1>2. CASE PlayerClearEof
  BY <1>2
  DEF PlayerClearEof, RingInv, TypeOK, ThreadInv, DecoderGone, AtEnd, PlayerNext,
      PlayerLeaves
<1>3. CASE PlayerTop
  BY <1>3
  DEF PlayerTop, RingInv, TypeOK, ThreadInv, DecoderGone, AtEnd, PlayerNext,
      PlayerLeaves
<1>4. CASE PlayerSleep
  BY <1>4
  DEF PlayerSleep, RingInv, TypeOK, ThreadInv, DecoderGone, AtEnd, PlayerNext,
      PlayerLeaves
<1>5. CASE PlayerWake
  BY <1>5
  DEF PlayerWake, RingInv, TypeOK, ThreadInv, DecoderGone, AtEnd, PlayerNext,
      PlayerLeaves
<1>6. CASE PlayerCopy
  BY <1>6
  DEF PlayerCopy, RingInv, TypeOK, ThreadInv, DecoderGone, AtEnd, PlayerNext,
      PlayerLeaves
<1>7. CASE PlayerTry
  BY <1>7
  DEF PlayerTry, RingInv, TypeOK, ThreadInv, DecoderGone, AtEnd, PlayerNext,
      PlayerLeaves
<1>8. CASE PlayerForce
  BY <1>8
  DEF PlayerForce, RingInv, TypeOK, ThreadInv, DecoderGone, AtEnd, PlayerNext,
      PlayerLeaves
<1>9. CASE PlayerWaitMore
  BY <1>9
  DEF PlayerWaitMore, RingInv, TypeOK, ThreadInv, DecoderGone, AtEnd, PlayerNext,
      PlayerLeaves
<1>10. CASE PlayerWaited
  BY <1>10
  DEF PlayerWaited, RingInv, TypeOK, ThreadInv, DecoderGone, AtEnd, PlayerNext,
      PlayerLeaves
<1>11. CASE PlayerSelect
  BY <1>11
  DEF PlayerSelect, RingInv, TypeOK, ThreadInv, DecoderGone, AtEnd, PlayerNext,
      PlayerLeaves
<1>12. CASE PlayerIncTest
  BY <1>12, NextSlot, NFramesAssumption
  DEF PlayerIncTest, RingInv, TypeOK, ThreadInv, DecoderGone, AtEnd, PlayerNext,
      PlayerLeaves, Slots
<1>13. CASE PlayerAdvance
  <2>1. /\ decoder_idx \in Slots /\ player_idx \in Slots
        /\ decoder_idx # player_idx
    BY <1>13 DEF PlayerAdvance, TypeOK, RingInv
  <2>2. dae_next(decoder_idx) # dae_next(player_idx)
    BY <2>1, NextSlot, NFramesAssumption DEF Slots
  <2> QED  BY <1>13, <2>1, <2>2
           DEF PlayerAdvance, RingInv, ThreadInv, DecoderGone, AtEnd, PlayerNext,
               PlayerLeaves
<1>14. CASE PlayerReturn
  BY <1>14
  DEF PlayerReturn, RingInv, TypeOK, ThreadInv, DecoderGone, AtEnd, PlayerNext,
      PlayerLeaves
<1>15. CASE PlayerExit
  BY <1>15
  DEF PlayerExit, RingInv, TypeOK, ThreadInv, DecoderGone, AtEnd, PlayerNext,
      PlayerLeaves
<1> QED
  BY <1>1, <1>2, <1>3, <1>4, <1>5, <1>6, <1>7, <1>8, <1>9, <1>10, <1>11,
     <1>12, <1>13, <1>14, <1>15
  DEF PlayerNext, PlayerStep

(* A step of main keeps it.                                                *)
LEMMA MainRing ==
    ASSUME TypeOK, ThreadInv, RingInv, MainPlay \/ MainQuit, MainLeaves
    PROVE  RingInv'
<1>1. CASE MainRunDecoders
  BY <1>1
  DEF MainRunDecoders, RingInv, TypeOK, ThreadInv, DecoderGone, AtEnd, MainLeaves
<1>2. CASE MainDecoderRuns
  BY <1>2
  DEF MainDecoderRuns, RingInv, TypeOK, ThreadInv, DecoderGone, AtEnd, MainLeaves
<1>3. CASE MainOutrun
  BY <1>3, NFramesAssumption
  DEF MainOutrun, RingInv, TypeOK, ThreadInv, DecoderGone, AtEnd, MainLeaves, Outrun,
      dae_get_decoder_outrun, Slots
<1>4. CASE MainRunPlayers
  BY <1>4
  DEF MainRunPlayers, RingInv, TypeOK, ThreadInv, DecoderGone, AtEnd, MainLeaves
<1>5. CASE MainPlayerRuns
  BY <1>5
  DEF MainPlayerRuns, RingInv, TypeOK, ThreadInv, DecoderGone, AtEnd, MainLeaves
<1>6. CASE MainPlayedEof
  BY <1>6
  DEF MainPlayedEof, RingInv, TypeOK, ThreadInv, DecoderGone, AtEnd, MainLeaves
<1>7. CASE MainQuit
  BY <1>7 DEF MainQuit, RingInv, TypeOK, ThreadInv, DecoderGone, AtEnd, MainLeaves
<1>8. CASE MainStop
  BY <1>8 DEF MainStop, RingInv, TypeOK, ThreadInv, DecoderGone, AtEnd, MainLeaves
<1>9. CASE MainStopped
  BY <1>9 DEF MainStopped, RingInv, TypeOK, ThreadInv, DecoderGone, AtEnd, MainLeaves
<1>10. CASE MainUninit
  BY <1>10 DEF MainUninit, RingInv, TypeOK, ThreadInv, DecoderGone, AtEnd, MainLeaves
<1> QED
  BY <1>1, <1>2, <1>3, <1>4, <1>5, <1>6, <1>7, <1>8, <1>9, <1>10
  DEF MainPlay

(* The invariant is inductive.                                              *)
IInv == TypeOK /\ ThreadInv /\ RingInv

(* The invariant, in every behaviour.                                      *)
THEOREM PlayInvariant == PlaySpec => []IInv
<1>1. Init => IInv
  BY InitInv DEF IInv
<1>2. IInv /\ [PlayNext]_vars => IInv'
  <2> SUFFICES ASSUME IInv, [PlayNext]_vars PROVE IInv'
    OBVIOUS
  <2>1. CASE DecoderNext
    BY <2>1, DecoderType, DecoderThread, DecoderRing DEF IInv
  <2>2. CASE PlayerNext
    BY <2>2, PlayerType, PlayerThread, PlayerRing DEF IInv
  <2>3. CASE (MainPlay \/ MainQuit) /\ MainLeaves
    BY <2>3, MainType, MainThread, MainRing DEF IInv, ThreadInv
  <2>4. CASE UNCHANGED vars
    BY <2>4 DEF IInv, vars, TypeOK, ThreadInv, RingInv, DecoderGone, AtEnd
  <2> QED  BY <2>1, <2>2, <2>3, <2>4 DEF PlayNext
<1> QED  BY <1>1, <1>2, PTL DEF PlaySpec

(* Types: whatever the interleaving, the indices stay inside the ring.      *)
THEOREM PlayTypeOK == PlaySpec => []TypeOK
<1>1. IInv => TypeOK
  BY DEF IInv
<1> QED  BY <1>1, PlayInvariant, PTL

(* The decoder never works in the slot on the screen.                       *)
THEOREM PlayNoTearing == PlaySpec => []NoTearing
<1>1. IInv => NoTearing
  BY DEF IInv, RingInv, NoTearing, DecoderOwnsSlot, DecoderGone, AtEnd
<1> QED  BY <1>1, PlayInvariant, PTL

(* The player switches to a slot the decoder has published or, at the end   *)
(* of the stream, to the one it has marked as the end.                      *)
THEOREM PlayOnlyDecodedShown == PlaySpec => []OnlyDecodedShown
<1>1. IInv => OnlyDecodedShown
  <2> SUFFICES ASSUME IInv, ppc = "select" PROVE OnlyDecodedShown
    BY DEF OnlyDecodedShown
  <2>1. /\ decoder_idx \in Slots /\ player_idx \in Slots
        /\ decoder_idx # player_idx
        /\ dae_next(player_idx) # decoder_idx \/ AtEnd
    BY DEF IInv, TypeOK, RingInv
  <2>2. CASE dae_next(player_idx) # decoder_idx
    <3>1. Outrun >= 2
      BY <2>1, <2>2, NextSlot, NFramesAssumption
      DEF Outrun, dae_get_decoder_outrun, Slots
    <3> QED  BY <3>1 DEF OnlyDecodedShown
  <2>3. CASE dae_next(player_idx) = decoder_idx
    BY <2>1, <2>3 DEF OnlyDecodedShown, AtEnd
  <2> QED  BY <2>2, <2>3
<1> QED  BY <1>1, PlayInvariant, PTL

(* A thread whose record is freed has left its routine.                     *)
THEOREM PlayStoppedThreadsGone == PlaySpec => []StoppedThreadsGone
<1>1. IInv => StoppedThreadsGone
  BY DEF IInv, ThreadInv, TypeOK, StoppedThreadsGone
<1> QED  BY <1>1, PlayInvariant, PTL
-----------------------------------------------------------------------------
(* Playing with seeks.  The ring of SeekSpec is not what it is in PlaySpec  *)
(* (a reset takes the slots away from under the frames), but the indices    *)
(* stay inside it, and main and the threads keep out of each other's way.   *)

\* A thread that main has put to sleep, or that has left.
Quiet(t, place) == \/ state[t] = "ASleep" /\ place = "asleep"
                   \/ state[t] = "Stand" /\ place = "done"

\* A thread sleeps only where main halts it, and whom main has halted stays
\* so until main restarts it.
HaltInv ==
    /\ mpc = "run_decoders" <=> dpc = "none"
    /\ mpc \in {"run_decoders", "wait_decoder", "outrun", "run_players"}
            <=> ppc = "none"
    /\ dpc = "start" => mpc = "wait_decoder"
    /\ ppc = "start" => mpc = "wait_player"
    /\ state["decoder"] = "Stand" => dpc \in {"none", "start", "done"}
    /\ state["player"] = "Stand" => ppc \in {"none", "start", "done"}
    /\ dpc \in {"none", "start"} => state["decoder"] = "Stand"
    /\ ppc \in {"none", "start"} => state["player"] = "Stand"
    /\ state["decoder"] = "ASleep" => dpc = "asleep"
    /\ state["player"] = "ASleep" => ppc = "asleep"
    /\ dpc = "sleep" => state["decoder"] = "Sleep"
    /\ ppc = "sleep" => state["player"] = "Sleep"
    /\ state["decoder"] = "Sleep" => mpc = "halting" /\ mi = 1
    /\ state["player"] = "Sleep" => mpc = "halting" /\ mi = 2
    /\ mpc \in {"halting", "stopping", "restarting"} => mi \in 1 .. 2
    /\ mpc = "halting" /\ mi = 1 =>
           state["decoder"] \in {"Sleep", "ASleep", "Stand"}
    /\ mpc = "halting" /\ mi = 2 =>
           state["player"] \in {"Sleep", "ASleep", "Stand"}
    /\ mpc \in {"halt", "halting"} => /\ mi > 1 => Quiet("decoder", dpc)
                                      /\ mi > 2 => Quiet("player", ppc)
    /\ mpc \in {"seek_outrun", "reset"} =>
           Quiet("decoder", dpc) /\ Quiet("player", ppc)

(* A step of the decoder keeps it.                                         *)
LEMMA DecoderHalt ==
    ASSUME TypeOK, HaltInv, DecoderNext
    PROVE  HaltInv'
<1>1. CASE DecoderStart
  BY <1>1 
  DEF DecoderStart, TypeOK, PthStates, HaltInv, Quiet, DecoderNext
<1>2. CASE DecoderClearEof
  BY <1>2 
  DEF DecoderClearEof, TypeOK, PthStates, HaltInv, Quiet, DecoderNext
<1>3. CASE DecoderTop
  BY <1>3 
  DEF DecoderTop, TypeOK, PthStates, HaltInv, Quiet, DecoderNext
<1>4. CASE DecoderSleep
  BY <1>4 
  DEF DecoderSleep, TypeOK, PthStates, HaltInv, Quiet, DecoderNext
<1>5. CASE DecoderWake
  BY <1>5 
  DEF DecoderWake, TypeOK, PthStates, HaltInv, Quiet, DecoderNext
<1>6. CASE DecoderRead
  BY <1>6 
  DEF DecoderRead, TypeOK, PthStates, HaltInv, Quiet, DecoderNext
<1>7. CASE DecoderMarkEof
  BY <1>7 
  DEF DecoderMarkEof, TypeOK, PthStates, HaltInv, Quiet, DecoderNext
<1>8. CASE DecoderSetEof
  BY <1>8 
  DEF DecoderSetEof, TypeOK, PthStates, HaltInv, Quiet, DecoderNext
<1>9. CASE DecoderDecode
  BY <1>9 
  DEF DecoderDecode, TypeOK, PthStates, HaltInv, Quiet, DecoderNext
<1>10. CASE DecoderFill
  BY <1>10 
  DEF DecoderFill, TypeOK, PthStates, HaltInv, Quiet, DecoderNext
<1>11. CASE DecoderSetDuration
  BY <1>11 
  DEF DecoderSetDuration, TypeOK, PthStates, HaltInv, Quiet, DecoderNext
<1>12. CASE DecoderIncTest
  BY <1>12 
  DEF DecoderIncTest, TypeOK, PthStates, HaltInv, Quiet, DecoderNext
<1>13. CASE DecoderPublish
  BY <1>13 
  DEF DecoderPublish, TypeOK, PthStates, HaltInv, Quiet, DecoderNext
<1>14. CASE DecoderExit
  BY <1>14 
  DEF DecoderExit, TypeOK, PthStates, HaltInv, Quiet, DecoderNext
<1> QED
  BY <1>1, <1>2, <1>3, <1>4, <1>5, <1>6, <1>7, <1>8, <1>9, <1>10,
     <1>11, <1>12, <1>13, <1>14
  DEF DecoderNext, DecoderStep

(* A step of the player keeps it.                                          *)
LEMMA PlayerHalt ==
    ASSUME TypeOK, HaltInv, PlayerNext
    PROVE  HaltInv'
<1>1. CASE PlayerStart
  BY <1>1 
  DEF PlayerStart, TypeOK, PthStates, HaltInv, Quiet,
      PlayerNext, PlayerLeaves
<1>2. CASE PlayerClearEof
  BY <1>2 
  DEF PlayerClearEof, TypeOK, PthStates, HaltInv, Quiet,
      PlayerNext, PlayerLeaves
<1>3. CASE PlayerTop
  BY <1>3 
  DEF PlayerTop, TypeOK, PthStates, HaltInv, Quiet,
      PlayerNext, PlayerLeaves
<1>4. CASE PlayerSleep
  BY <1>4 
  DEF PlayerSleep, TypeOK, PthStates, HaltInv, Quiet,
      PlayerNext, PlayerLeaves
<1>5. CASE PlayerWake
  BY <1>5 
  DEF PlayerWake, TypeOK, PthStates, HaltInv, Quiet,
      PlayerNext, PlayerLeaves
<1>6. CASE PlayerCopy
  BY <1>6 
  DEF PlayerCopy, TypeOK, PthStates, HaltInv, Quiet,
      PlayerNext, PlayerLeaves
<1>7. CASE PlayerTry
  BY <1>7 
  DEF PlayerTry, TypeOK, PthStates, HaltInv, Quiet,
      PlayerNext, PlayerLeaves
<1>8. CASE PlayerForce
  BY <1>8 
  DEF PlayerForce, TypeOK, PthStates, HaltInv, Quiet,
      PlayerNext, PlayerLeaves
<1>9. CASE PlayerWaitMore
  BY <1>9 
  DEF PlayerWaitMore, TypeOK, PthStates, HaltInv, Quiet,
      PlayerNext, PlayerLeaves
<1>10. CASE PlayerWaited
  BY <1>10 
  DEF PlayerWaited, TypeOK, PthStates, HaltInv, Quiet,
      PlayerNext, PlayerLeaves
<1>11. CASE PlayerSelect
  BY <1>11 
  DEF PlayerSelect, TypeOK, PthStates, HaltInv, Quiet,
      PlayerNext, PlayerLeaves
<1>12. CASE PlayerIncTest
  BY <1>12 
  DEF PlayerIncTest, TypeOK, PthStates, HaltInv, Quiet,
      PlayerNext, PlayerLeaves
<1>13. CASE PlayerAdvance
  BY <1>13 
  DEF PlayerAdvance, TypeOK, PthStates, HaltInv, Quiet,
      PlayerNext, PlayerLeaves
<1>14. CASE PlayerReturn
  BY <1>14 
  DEF PlayerReturn, TypeOK, PthStates, HaltInv, Quiet,
      PlayerNext, PlayerLeaves
<1>15. CASE PlayerExit
  BY <1>15 
  DEF PlayerExit, TypeOK, PthStates, HaltInv, Quiet,
      PlayerNext, PlayerLeaves
<1> QED
  BY <1>1, <1>2, <1>3, <1>4, <1>5, <1>6, <1>7, <1>8, <1>9, <1>10,
     <1>11, <1>12, <1>13, <1>14, <1>15
  DEF PlayerNext, PlayerStep

(* A step of main keeps it, without a seek ...                             *)
LEMMA MainHaltPlay ==
    ASSUME TypeOK, HaltInv, MainPlay \/ MainQuit, MainLeaves
    PROVE  HaltInv'
<1>1. CASE MainRunDecoders
  BY <1>1 
  DEF MainRunDecoders, TypeOK, PthStates, HaltInv, Quiet, MainLeaves
<1>2. CASE MainDecoderRuns
  BY <1>2 
  DEF MainDecoderRuns, TypeOK, PthStates, HaltInv, Quiet, MainLeaves
<1>3. CASE MainOutrun
  BY <1>3 
  DEF MainOutrun, TypeOK, PthStates, HaltInv, Quiet, MainLeaves
<1>4. CASE MainRunPlayers
  BY <1>4 
  DEF MainRunPlayers, TypeOK, PthStates, HaltInv, Quiet, MainLeaves
<1>5. CASE MainPlayerRuns
  BY <1>5 
  DEF MainPlayerRuns, TypeOK, PthStates, HaltInv, Quiet, MainLeaves
<1>6. CASE MainPlayedEof
  BY <1>6 
  DEF MainPlayedEof, TypeOK, PthStates, HaltInv, Quiet, MainLeaves
<1>7. CASE MainQuit
  BY <1>7 
  DEF MainQuit, TypeOK, PthStates, HaltInv, Quiet, MainLeaves
<1>8. CASE MainStop
  BY <1>8 
  DEF MainStop, TypeOK, PthStates, HaltInv, Quiet, MainLeaves
<1>9. CASE MainStopped
  BY <1>9 
  DEF MainStopped, TypeOK, PthStates, HaltInv, Quiet, MainLeaves
<1>10. CASE MainUninit
  BY <1>10 
  DEF MainUninit, TypeOK, PthStates, HaltInv, Quiet, MainLeaves
<1> QED
  BY <1>1, <1>2, <1>3, <1>4, <1>5, <1>6, <1>7, <1>8, <1>9, <1>10
  DEF MainPlay

(* ... and with one.                                                       *)
LEMMA MainHaltSeek ==
    ASSUME TypeOK, HaltInv, MainSeekKey \/ MainSeeking, MainLeaves
    PROVE  HaltInv'
<1>1. CASE MainSeekKey
  BY <1>1 
  DEF MainSeekKey, TypeOK, PthStates, HaltInv, Quiet, MainLeaves
<1>2. CASE MainHalt
  BY <1>2 
  DEF MainHalt, TypeOK, PthStates, HaltInv, Quiet, MainLeaves
<1>3. CASE MainHalted
  BY <1>3 
  DEF MainHalted, TypeOK, PthStates, HaltInv, Quiet, MainLeaves
<1>4. CASE MainSeek
  BY <1>4 
  DEF MainSeek, TypeOK, PthStates, HaltInv, Quiet, MainLeaves
<1>5. CASE MainSeekOutrun
  BY <1>5 
  DEF MainSeekOutrun, TypeOK, PthStates, HaltInv, Quiet, MainLeaves
<1>6. CASE MainReset
  BY <1>6 
  DEF MainReset, TypeOK, PthStates, HaltInv, Quiet, MainLeaves
<1>7. CASE MainRestart
  BY <1>7 
  DEF MainRestart, TypeOK, PthStates, HaltInv, Quiet, MainLeaves
<1>8. CASE MainRestarted
  BY <1>8 
  DEF MainRestarted, TypeOK, PthStates, HaltInv, Quiet, MainLeaves
<1>9. CASE MainResume
  BY <1>9 
  DEF MainResume, TypeOK, PthStates, HaltInv, Quiet, MainLeaves
<1> QED
  BY <1>1, <1>2, <1>3, <1>4, <1>5, <1>6, <1>7, <1>8, <1>9
  DEF MainSeeking

(* A seek keeps the types.                                                 *)
LEMMA MainSeekType ==
    ASSUME TypeOK, HaltInv, MainSeekKey \/ MainSeeking, MainLeaves
    PROVE  TypeOK'
<1> 0 \in Slots
  BY NFramesAssumption DEF Slots
<1>1. CASE MainSeekKey
  BY <1>1 
  DEF MainSeekKey, TypeOK, PthStates, MainPlaces, HaltInv,
      MainLeaves
<1>2. CASE MainHalt
  BY <1>2 
  DEF MainHalt, TypeOK, PthStates, MainPlaces, HaltInv,
      MainLeaves
<1>3. CASE MainHalted
  BY <1>3 
  DEF MainHalted, TypeOK, PthStates, MainPlaces, HaltInv,
      MainLeaves
<1>4. CASE MainSeek
  BY <1>4 
  DEF MainSeek, TypeOK, PthStates, MainPlaces, HaltInv,
      MainLeaves
<1>5. CASE MainSeekOutrun
  BY <1>5 
  DEF MainSeekOutrun, TypeOK, PthStates, MainPlaces, HaltInv,
      MainLeaves
<1>6. CASE MainReset
  BY <1>6 
  DEF MainReset, TypeOK, PthStates, MainPlaces, HaltInv,
      MainLeaves
<1>7. CASE MainRestart
  BY <1>7 
  DEF MainRestart, TypeOK, PthStates, MainPlaces, HaltInv,
      MainLeaves
<1>8. CASE MainRestarted
  BY <1>8 
  DEF MainRestarted, TypeOK, PthStates, MainPlaces, HaltInv,
      MainLeaves
<1>9. CASE MainResume
  BY <1>9 
  DEF MainResume, TypeOK, PthStates, MainPlaces, HaltInv,
      MainLeaves
<1> QED
  BY <1>1, <1>2, <1>3, <1>4, <1>5, <1>6, <1>7, <1>8, <1>9
  DEF MainSeeking

(* The invariant of playing with seeks, in every behaviour.                *)
THEOREM SeekInvariant == SeekSpec => [](TypeOK /\ HaltInv)
<1>1. Init => TypeOK /\ HaltInv
  BY InitInv DEF Init, HaltInv
<1>2. TypeOK /\ HaltInv /\ [SeekNext]_vars => (TypeOK /\ HaltInv)'
  <2> SUFFICES ASSUME TypeOK, HaltInv, [SeekNext]_vars
               PROVE  TypeOK' /\ HaltInv'
    OBVIOUS
  <2>1. CASE DecoderNext
    BY <2>1, DecoderType, DecoderHalt
  <2>2. CASE PlayerNext
    BY <2>2, PlayerType, PlayerHalt
  <2>3. CASE (MainPlay \/ MainQuit) /\ MainLeaves
    BY <2>3, MainType, MainHaltPlay DEF HaltInv
  <2>4. CASE (MainSeekKey \/ MainSeeking) /\ MainLeaves
    BY <2>4, MainSeekType, MainHaltSeek
  <2>5. CASE UNCHANGED vars
    BY <2>5 DEF vars, TypeOK, HaltInv, Quiet
  <2> QED  BY <2>1, <2>2, <2>3, <2>4, <2>5 DEF SeekNext, PlayNext
<1> QED  BY <1>1, <1>2, PTL DEF SeekSpec

(* Seeking leaves the indices inside the ring and the rest in its type.    *)
THEOREM SeekTypeOK == SeekSpec => []TypeOK
<1> QED  BY SeekInvariant, PTL

(* Main moves the demuxer and resets the ring with both threads asleep or  *)
(* gone.                                                                   *)
THEOREM SeekSeekExclusive == SeekSpec => []SeekExclusive
<1>1. HaltInv => SeekExclusive
  BY DEF HaltInv, Quiet, SeekExclusive
<1> QED  BY <1>1, SeekInvariant, PTL
=============================================================================
