------------------------- MODULE AudioOutputProofs -------------------------
(***************************************************************************)
(* Proofs about the fifo between the audio player and the callback of JACK,*)
(* for every size of the fifo, range of its counters and length of the     *)
(* stream.                                                                 *)
(***************************************************************************)
EXTENDS AudioOutput, TLAPS

Playing ==
    {"play", "spin", "paused", "clear", "signal", "halt_dec", "stop_dec"}
Resetting == {"reset", "reset_ptr", "reset_rndx", "reset_wndx", "reset_end"}

(* Where the player is when main has asked it for something.               *)
ThreadInv ==
    /\ mpc \in Playing \cup Resetting
                \cup {"halt", "stop", "restart", "close", "closed"}
    /\ mpc \in Playing => state = "Run"
    /\ mpc = "halt" => state \in {"Sleep", "ASleep"}
    /\ mpc = "stop" => state \in {"Canceling", "Stand"}
    /\ mpc \in Resetting => state \in {"ASleep", "Stand"}
    /\ mpc = "restart" => state = "ASleep"
    /\ mpc \in {"close", "closed"} => state = "Stand"
    /\ state = "ASleep" => ppc = "asleep"
    /\ state = "Stand" <=> ppc = "gone"
    /\ ppc = "exit" => state = "Canceling"

(* A reset that meets no callback finds it outside, and keeps it there.    *)
ResetInv ==
    /\ mpc \in {"reset_ptr", "reset_rndx", "reset_wndx", "reset_end"} => paused
    /\ mpc \in {"reset_rndx", "reset_wndx", "reset_end"} => ~InRead
    /\ InReset => wptr = 0 /\ rptr = 0
    /\ mpc = "reset_wndx" => rndx = 0

(* The room the player has found and the sound the callback has found are  *)
(* still there: each side only makes more of what the other needs.         *)
RoomInv ==
    /\ cpc \notin {"copy", "drain"} => left = 0
    /\ cpc \in {"copy", "drain"} => left <= Size
    /\ ppc \in {"room", "write", "publish"} => playsize <= a_len
    /\ ppc \in {"write", "publish"} => playsize + Size <= BufSize

(* The counters and the pointers agree.                                    *)
CountInv ==
    ~InReset => /\ Size <= BufSize
                /\ wptr - rptr = Size \/ wptr - rptr = Size - BufSize

(* What the fifo holds follows what was heard, and the decoder goes on     *)
(* where the fifo ends.                                                    *)
Drained == IF cpc = "drain" THEN heard - Piece ELSE heard
DataInv ==
    /\ heard # Broken
    /\ ~InReset => \A k \in 0 .. BufSize - 1 :
           k < Size => cell[(rptr + k) % BufSize] = Drained + 1 + k
    /\ (mpc \notin Resetting /\ state # "Stand") => Drained + Size = src - a_len
    /\ (mpc \in Resetting /\ state = "ASleep") =>
           /\ a_len = 0
           /\ mpc \notin {"reset", "reset_ptr"} => heard = src
    /\ mpc = "reset_end" => Size = 0
    /\ ppc = "publish" => \A k \in 0 .. BufSize - 1 :
           k < playsize => cell[(wptr + k) % BufSize] = src - a_len + 1 + k

Safe == ResetInv /\ RoomInv /\ CountInv /\ DataInv
Inv == TypeOK /\ a_len <= src /\ ThreadInv /\ (~torn => Safe)

-----------------------------------------------------------------------------
(* Arithmetic.                                                             *)

(* The remainder of what is below the divisor,                             *)
LEMMA ModSmall ==
    ASSUME NEW B \in Nat \ {0}, NEW x \in Int, 0 <= x, x < B
    PROVE  x % B = x
  BY SMT

(* of what is up to twice as large,                                        *)
LEMMA ModHigh ==
    ASSUME NEW B \in Nat \ {0}, NEW x \in Int, B <= x, x < 2 * B
    PROVE  x % B = x - B
  BY SMT

(* and of what is negative.                                                *)
LEMMA ModLow ==
    ASSUME NEW B \in Nat \ {0}, NEW x \in Int, -B <= x, x < 0
    PROVE  x % B = x + B
  BY SMT

(* Size is the distance of the counters round their range.                 *)
Around(w, r) == IF r <= w THEN w - r ELSE w - r + UIntRange

(* The distance is the remainder that av_fifo_size computes.               *)
LEMMA Distance ==
    ASSUME NEW w \in 0 .. UIntRange - 1, NEW r \in 0 .. UIntRange - 1
    PROVE  /\ (w - r) % UIntRange = Around(w, r)
           /\ Around(w, r) \in 0 .. UIntRange - 1
<1> USE FifoAssumption
<1>1. CASE r <= w
  <2>1. (w - r) % UIntRange = w - r
    BY <1>1, ModSmall
  <2> QED  BY <1>1, <2>1 DEF Around
<1>2. CASE w < r
  <2>1. (w - r) % UIntRange = w - r + UIntRange
    BY <1>2, ModLow
  <2> QED  BY <1>2, <2>1 DEF Around
<1> QED  BY <1>1, <1>2

(* Moving a counter by n moves the distance by n.                          *)
LEMMA CountUp ==
    ASSUME NEW w \in 0 .. UIntRange - 1, NEW r \in 0 .. UIntRange - 1,
           NEW n \in Nat, Around(w, r) + n < UIntRange
    PROVE  /\ (w + n) % UIntRange \in 0 .. UIntRange - 1
           /\ Around((w + n) % UIntRange, r) = Around(w, r) + n
<1> USE FifoAssumption
<1>0. n < UIntRange
  BY Distance
<1>1. CASE w + n < UIntRange
  <2>1. (w + n) % UIntRange = w + n
    BY <1>1, ModSmall
  <2> QED  BY <1>1, <2>1 DEF Around
<1>2. CASE UIntRange <= w + n
  <2>0. w + n < 2 * UIntRange
    BY <1>0
  <2>1. (w + n) % UIntRange = (w + n) - UIntRange
    <3>1. UIntRange \in Nat \ {0} /\ w + n \in Int
      OBVIOUS
    <3> QED  BY <1>2, <2>0, <3>1, ModHigh, Zenon
  <2> QED  BY <1>0, <1>2, <2>1 DEF Around
<1> QED  BY <1>1, <1>2

(* Moving the other counter by n makes it n smaller.                       *)
LEMMA CountDown ==
    ASSUME NEW w \in 0 .. UIntRange - 1, NEW r \in 0 .. UIntRange - 1,
           NEW n \in Nat, n <= Around(w, r)
    PROVE  /\ (r + n) % UIntRange \in 0 .. UIntRange - 1
           /\ Around(w, (r + n) % UIntRange) = Around(w, r) - n
<1> USE FifoAssumption
<1>0. n < UIntRange
  BY Distance
<1>1. CASE r + n < UIntRange
  <2>1. (r + n) % UIntRange = r + n
    BY <1>1, ModSmall
  <2> QED  BY <1>1, <2>1 DEF Around
<1>2. CASE UIntRange <= r + n
  <2>0. r + n < 2 * UIntRange
    BY <1>0
  <2>1. (r + n) % UIntRange = (r + n) - UIntRange
    <3>1. UIntRange \in Nat \ {0} /\ r + n \in Int
      OBVIOUS
    <3> QED  BY <1>2, <2>0, <3>1, ModHigh, Zenon
  <2> QED  BY <1>0, <1>2, <2>1 DEF Around
<1> QED  BY <1>1, <1>2

(* A place in the memory.                                                  *)
Wrap(x) == IF x < BufSize THEN x ELSE x - BufSize

(* It wraps once.                                                          *)
LEMMA Place ==
    ASSUME NEW x \in Nat, x < BufSize + BufSize
    PROVE  x % BufSize = Wrap(x) /\ Wrap(x) \in 0 .. BufSize - 1
<1> USE FifoAssumption
<1>1. CASE x < BufSize
  BY <1>1, ModSmall DEF Wrap
<1>2. CASE BufSize <= x
  <2>1. x < 2 * BufSize
    OBVIOUS
  <2>2. x % BufSize = x - BufSize
    <3>1. BufSize \in Nat \ {0} /\ x \in Int
      OBVIOUS
    <3> QED  BY <1>2, <2>1, <3>1, ModHigh, Zenon
  <2> QED  BY <1>2, <2>2 DEF Wrap
<1> QED  BY <1>1, <1>2

(* How far a place lies behind another.                                    *)
LEMMA Offset ==
    ASSUME NEW p \in 0 .. BufSize - 1, NEW i \in 0 .. BufSize - 1
    PROVE  (i - p) % BufSize = IF p <= i THEN i - p ELSE i - p + BufSize
<1> USE FifoAssumption
<1>1. CASE p <= i
  BY <1>1, ModSmall
<1>2. CASE i < p
  BY <1>2, ModLow
<1> QED  BY <1>1, <1>2

-----------------------------------------------------------------------------
(* The threads.                                                            *)
USE DEF At, Step, CallAt, MainAt, OthersOfPlayer, OthersOfCallback,
        OthersOfMain, fifoVars, sourceVars, playVars, callVars, mainVars

(* Every step keeps what is known of the threads.                          *)
LEMMA ThreadStep ==
    ASSUME ThreadInv, Player \/ Callback \/ Decoder \/ User \/ Main
    PROVE  ThreadInv'
<1> USE DEF ThreadInv, Playing, Resetting
<1>1. CASE Player
  BY <1>1 DEF Player, PlayerTop, PlayerWake, PlayerSpace, PlayerFill,
     PlayerStarve, PlayerFed, PlayerClear, PlayerRoom, PlayerWrite,
     PlayerPublish, PlayerSafe, PlayerDoze, PlayerPause, PlayerUnsafe,
     PlayerExit
<1>2. CASE Callback
  BY <1>2 DEF Callback, CallbackStart, CallbackTest, CallbackSize,
     CallbackCopy, CallbackDrain, CallbackShort
<1>3. CASE User
  BY <1>3 DEF User, MainPause, MainResume, MainHaltDecoder
<1>4. CASE Main
  BY <1>4 DEF Main, MainHalt, MainHold, MainClear, MainSignal, MainHalted,
     MainReset, MainResetPtr, MainResetRead, MainResetWrite, MainResetEnd,
     MainRestart, MainClose
<1>5. CASE Decoder
  BY <1>5 DEF Decoder, DecoderFeeds, DecoderStops
<1> QED  BY <1>1, <1>2, <1>3, <1>4, <1>5

-----------------------------------------------------------------------------
(* The fifo when nothing happens to it.                                    *)

(* av_fifo_size is the distance of the counters.                           *)
LEMMA SizeIsDistance ==
    ASSUME NumbersOK
    PROVE  Size = Around(wndx, rndx) /\ Size \in 0 .. UIntRange - 1
  BY Distance DEF NumbersOK, Size

(* What is copied at once stays inside the memory.                         *)
LEMMA PieceFits ==
    ASSUME NumbersOK
    PROVE  Piece \in 0 .. left /\ Piece <= BufSize - rptr /\ left \in Nat
  BY FifoAssumption, SoundAssumption DEF NumbersOK, Piece, Smaller

(* The player is in its loop, so that main waits or is not resetting.      *)
LEMMA PlayerAwake ==
    ASSUME ThreadInv, ppc \notin {"asleep", "gone"}
    PROVE  ~InReset /\ mpc \notin Resetting /\ state # "Stand"
  BY DEF ThreadInv, InReset, Resetting

(* While the callback reads, main does not clear the fifo.                 *)
LEMMA ReadUndisturbed ==
    ASSUME ResetInv, InRead
    PROVE  mpc \notin {"reset_rndx", "reset_wndx", "reset_end"} /\ ~InReset
  BY DEF ResetInv, InReset

(* The variables that are no numbers keep their types.                     *)
LEMMA FlagsStep ==
    ASSUME FlagsOK, Player \/ Callback \/ Decoder \/ User \/ Main
    PROVE  FlagsOK'
<1> USE DEF FlagsOK
<1>1. CASE Player
  <2>1. CASE PlayerTop
    BY <2>1, Zenon DEF PlayerTop, At, Step
  <2>2. CASE PlayerWake
    BY <2>2, Zenon DEF PlayerWake, At, Step
  <2>3. CASE PlayerSpace
    BY <2>3, Zenon DEF PlayerSpace, At, Step
  <2>4. CASE PlayerFill
    BY <2>4, Zenon DEF PlayerFill, At, Step
  <2>5. CASE PlayerStarve
    BY <2>5, Zenon DEF PlayerStarve, At, Step
  <2>6. CASE PlayerFed
    BY <2>6, Zenon DEF PlayerFed, At, Step
  <2>7. CASE PlayerClear
    BY <2>7, Zenon DEF PlayerClear, At, Step
  <2>8. CASE PlayerRoom
    BY <2>8, Zenon DEF PlayerRoom, At, Step
  <2>9. CASE PlayerWrite
    BY <2>9, Zenon DEF PlayerWrite, At, Step
  <2>10. CASE PlayerPublish
    BY <2>10, Zenon DEF PlayerPublish, At, Step
  <2>11. CASE PlayerSafe
    BY <2>11, Zenon DEF PlayerSafe, At, Step
  <2>12. CASE PlayerDoze
    BY <2>12, Zenon DEF PlayerDoze, At, Step
  <2>13. CASE PlayerPause
    BY <2>13, Zenon DEF PlayerPause, At, Step
  <2>14. CASE PlayerUnsafe
    BY <2>14, Zenon DEF PlayerUnsafe, At, Step
  <2>15. CASE PlayerExit
    BY <2>15, Zenon DEF PlayerExit, At, Step
  <2> QED
    BY <1>1, <2>1, <2>2, <2>3, <2>4, <2>5, <2>6, <2>7, <2>8,
       <2>9, <2>10, <2>11, <2>12, <2>13, <2>14, <2>15, Zenon DEF Player
<1>2. CASE Callback
  <2>1. underrun' \in BOOLEAN /\ short' \in BOOLEAN
    <3>1. CASE CallbackSize
      BY <3>1, SMT DEF CallbackSize
    <3>2. CASE ~CallbackSize
      BY <1>2, <3>2, Zenon DEF Callback, CallbackStart, CallbackTest,
         CallbackCopy, CallbackDrain, CallbackShort
    <3> QED  BY <3>1, <3>2
  <2>2. UNCHANGED <<paused, in_pause, can_aseek, audio_eof, torn, decoding, state>>
    BY <1>2, Zenon DEF Callback, CallbackStart, CallbackTest, CallbackSize,
       CallbackCopy, CallbackDrain, CallbackShort
  <2> QED  BY <2>1, <2>2
<1>3. CASE User \/ MainHalt \/ MainHold \/ MainClear \/ MainSignal \/ MainHalted
  <2>1. CASE MainPause
    BY <2>1, Zenon DEF MainPause
  <2>2. CASE MainResume
    BY <2>2, Zenon DEF MainResume
  <2>3. CASE MainHalt
    BY <2>3, Zenon DEF MainHalt
  <2>8. CASE MainHaltDecoder
    BY <2>8, Zenon DEF MainHaltDecoder
  <2>4. CASE MainHold
    BY <2>4, Zenon DEF MainHold
  <2>5. CASE MainClear
    BY <2>5, Zenon DEF MainClear
  <2>6. CASE MainSignal
    BY <2>6, Zenon DEF MainSignal
  <2>7. CASE MainHalted
    BY <2>7, Zenon DEF MainHalted
  <2> QED
    BY <1>3, <2>1, <2>2, <2>3, <2>4, <2>5, <2>6, <2>7, <2>8, Zenon DEF User
<1>4. CASE MainReset \/ MainResetEnd \/ MainRestart \/ MainClose
  <2>1. CASE MainReset
    BY <2>1, Zenon DEF MainReset
  <2>2. CASE MainResetEnd
    BY <2>2, Zenon DEF MainResetEnd
  <2>3. CASE MainRestart
    BY <2>3, Zenon DEF MainRestart
  <2>4. CASE MainClose
    BY <2>4, Zenon DEF MainClose
  <2> QED  BY <1>4, <2>1, <2>2, <2>3, <2>4, Zenon
<1>5. CASE MainResetPtr \/ MainResetRead \/ MainResetWrite
  <2>1. torn' = InRead
    BY <1>5, Zenon DEF MainResetPtr, MainResetRead, MainResetWrite
  <2>2. torn' \in BOOLEAN
    BY <2>1, SMT DEF InRead
  <2>3. UNCHANGED <<paused, underrun, in_pause, can_aseek, audio_eof, short,
                    decoding, state>>
    BY <1>5, Zenon DEF MainResetPtr, MainResetRead, MainResetWrite
  <2> QED  BY <2>2, <2>3
<1>6. CASE Decoder
  <2>1. CASE DecoderFeeds
    BY <2>1, Zenon DEF DecoderFeeds
  <2>2. CASE DecoderStops
    BY <2>2, Zenon DEF DecoderStops
  <2> QED  BY <1>6, <2>1, <2>2, Zenon DEF Decoder
<1> QED  BY <1>1, <1>2, <1>3, <1>4, <1>5, <1>6 DEF Main

(* The numbers keep their types in a step of the player, which relies on   *)
(* the room it found,                                                      *)
LEMMA PlayerType ==
    ASSUME NumbersOK, a_len <= src, ThreadInv, RoomInv, CountInv, Player
    PROVE  NumbersOK' /\ a_len' <= src'
<1>0. Size \in Nat
  BY SizeIsDistance
<1> USE FifoAssumption, SoundAssumption DEF NumbersOK
<1>1. CASE PlayerTop
  BY <1>1 DEF PlayerTop
<1>7. CASE PlayerWake
  BY <1>7 DEF PlayerWake
<1>8. CASE PlayerStarve
  BY <1>8 DEF PlayerStarve
<1>9. CASE PlayerSafe
  BY <1>9 DEF PlayerSafe
<1>10. CASE PlayerDoze
  BY <1>10 DEF PlayerDoze
<1>11. CASE PlayerPause
  BY <1>11 DEF PlayerPause
<1>12. CASE PlayerUnsafe
  BY <1>12 DEF PlayerUnsafe
<1>13. CASE PlayerExit
  BY <1>13 DEF PlayerExit
<1>2. CASE PlayerSpace \/ PlayerRoom
  <2>1. ~InReset
    BY <1>2, PlayerAwake DEF PlayerSpace, PlayerRoom
  <2>2. Size <= BufSize
    BY <2>1 DEF CountInv
  <2>3. playsize' \in 0 .. Outburst
    <3>1. CASE PlayerSpace
      BY <1>0, <2>2, <3>1 DEF PlayerSpace, Space, Smaller
    <3>2. CASE PlayerRoom
      BY <1>0, <2>2, <3>2 DEF PlayerRoom, Space, Smaller
    <3> QED  BY <1>2, <3>1, <3>2
  <2> QED  BY <1>2, <2>3 DEF PlayerSpace, PlayerRoom
<1>3. CASE PlayerFill \/ PlayerFed
  <2>1. a_len' \in 0 .. ABufSize /\ src' \in 0 .. FileUnits /\ a_len' <= src'
    <3>1. CASE \E n \in 1 .. Smaller(ABufSize - a_len, FileUnits - src) :
                  a_len' = a_len + n /\ src' = src + n
      BY <3>1 DEF Smaller
    <3>2. CASE a_len' = a_len /\ src' = src
      BY <3>2
    <3> QED  BY <1>3, <3>1, <3>2 DEF PlayerFill, PlayerFed
  <2> QED  BY <1>3, <2>1 DEF PlayerFill, PlayerFed
<1>4. CASE PlayerClear
  BY <1>4 DEF PlayerClear, Smaller
<1>5. CASE PlayerWrite
  <2>1. playsize <= a_len
    BY <1>5 DEF PlayerWrite, RoomInv
  <2>2. ASSUME NEW i \in 0 .. BufSize - 1
        PROVE  cell'[i] \in 0 .. FileUnits
    <3> DEFINE k == (i - wptr) % BufSize
    <3>1. k \in 0 .. BufSize - 1
      OBVIOUS
    <3>2. cell'[i] = IF k < playsize THEN src - a_len + 1 + k ELSE cell[i]
      BY <1>5 DEF PlayerWrite
    <3> HIDE DEF k
    <3> QED  BY <2>1, <3>1, <3>2
  <2>3. cell' \in [0 .. BufSize - 1 -> 0 .. FileUnits]
    BY <1>5, <2>2 DEF PlayerWrite
  <2> QED  BY <1>5, <2>3 DEF PlayerWrite
<1>6. CASE PlayerPublish
  <2>1. playsize <= a_len
    BY <1>6 DEF PlayerPublish, RoomInv
  <2>2. wndx' \in 0 .. UIntRange - 1 /\ wptr' \in 0 .. BufSize - 1
    BY <1>6 DEF PlayerPublish
  <2> QED  BY <1>6, <2>1, <2>2 DEF PlayerPublish
<1> QED
  BY <1>1, <1>2, <1>3, <1>4, <1>5, <1>6, <1>7, <1>8, <1>9, <1>10, <1>11,
     <1>12, <1>13
  DEF Player

(* of the callback, which relies on the sound it found,                    *)
LEMMA CallbackType ==
    ASSUME NumbersOK, a_len <= src, ThreadInv, RoomInv, CountInv, Callback
    PROVE  NumbersOK' /\ a_len' <= src'
<1>0. /\ Size \in Nat
      /\ Piece \in 0 .. left /\ Piece <= BufSize - rptr /\ left \in Nat
  BY SizeIsDistance, PieceFits
<1> USE FifoAssumption, SoundAssumption DEF NumbersOK
<1>1. CASE CallbackStart
  BY <1>1 DEF CallbackStart, RoomInv
<1>5. CASE CallbackTest
  BY <1>5 DEF CallbackTest
<1>6. CASE CallbackShort
  BY <1>6 DEF CallbackShort
<1>2. CASE CallbackSize
  BY <1>0, <1>2 DEF CallbackSize, Smaller
<1>3. CASE CallbackCopy
  <2>1. heard' \in -1 .. FileUnits
    <3>1. CASE Piece = 0 \/ heard' = Broken
      BY <1>3, <3>1 DEF CallbackCopy, Broken
    <3>2. CASE Piece # 0 /\ heard' # Broken
      <4>1. /\ \A k \in 0 .. Piece - 1 : cell[rptr + k] = heard + 1 + k
            /\ heard' = heard + Piece
        BY <1>3, <3>2 DEF CallbackCopy
      <4>2. Piece - 1 \in 0 .. Piece - 1 /\ rptr + (Piece - 1) \in 0 .. BufSize - 1
        BY <1>0, <3>2
      <4>3. cell[rptr + (Piece - 1)] = heard + 1 + (Piece - 1)
        BY <4>1, <4>2
      <4> QED  BY <4>1, <4>2, <4>3, <1>0
    <3> QED  BY <3>1, <3>2
  <2> QED  BY <1>3, <2>1 DEF CallbackCopy
<1>4. CASE CallbackDrain
  <2>1. left' \in 0 .. frames
    BY <1>0, <1>4 DEF CallbackDrain
  <2>2. rptr' \in 0 .. BufSize - 1 /\ rndx' \in 0 .. UIntRange - 1
    BY <1>0, <1>4 DEF CallbackDrain
  <2> QED  BY <1>4, <2>1, <2>2 DEF CallbackDrain
<1> QED  BY <1>1, <1>2, <1>3, <1>4, <1>5, <1>6 DEF Callback

(* and of main and the decoder.                                            *)
LEMMA MainType ==
    ASSUME NumbersOK, a_len <= src, User \/ Main \/ Decoder
    PROVE  NumbersOK' /\ a_len' <= src'
<1> USE FifoAssumption, SoundAssumption DEF NumbersOK
<1>1. CASE MainPause
  BY <1>1 DEF MainPause
<1>2. CASE MainResume
  BY <1>2 DEF MainResume
<1>3. CASE MainHalt
  BY <1>3 DEF MainHalt
<1>15. CASE MainHaltDecoder
  BY <1>15 DEF MainHaltDecoder
<1>16. CASE Decoder
  BY <1>16 DEF Decoder, DecoderFeeds, DecoderStops
<1>4. CASE MainHold
  BY <1>4 DEF MainHold
<1>5. CASE MainClear
  BY <1>5 DEF MainClear
<1>6. CASE MainSignal
  BY <1>6 DEF MainSignal
<1>7. CASE MainHalted
  BY <1>7 DEF MainHalted
<1>8. CASE MainReset
  BY <1>8 DEF MainReset
<1>9. CASE MainResetPtr
  BY <1>9 DEF MainResetPtr
<1>10. CASE MainResetRead
  BY <1>10 DEF MainResetRead
<1>11. CASE MainResetWrite
  BY <1>11 DEF MainResetWrite
<1>12. CASE MainResetEnd
  BY <1>12 DEF MainResetEnd
<1>13. CASE MainRestart
  BY <1>13 DEF MainRestart
<1>14. CASE MainClose
  BY <1>14 DEF MainClose
<1> QED
  BY <1>1, <1>2, <1>3, <1>4, <1>5, <1>6, <1>7, <1>8, <1>9,
     <1>10, <1>11, <1>12, <1>13, <1>14, <1>15, <1>16
  DEF User, Main

-----------------------------------------------------------------------------
(* The player keeps the fifo.                                              *)

(* A step of the player that neither writes nor publishes.                 *)
LEMMA PlayerQuiet ==
    ASSUME NumbersOK, Safe, mpc \notin Resetting, state # "Stand",
           UNCHANGED <<fifoVars, callVars, mpc, paused, heard>>,
           src' - a_len' = src - a_len,
           ppc' \notin {"write", "publish"}, ppc' = "room" => playsize' <= a_len'
    PROVE  Safe'
<1> USE DEF Safe
<1>1. Size' = Size /\ Piece' = Piece /\ Drained' = Drained
  BY DEF Size, Piece, Smaller, Drained
<1>2. ResetInv'
  BY DEF ResetInv, InRead, InReset
<1>3. RoomInv'
  BY <1>1 DEF RoomInv
<1>4. CountInv'
  BY <1>1 DEF CountInv, InReset
<1>5. DataInv'
  BY <1>1 DEF DataInv, InReset, Resetting
<1> QED  BY <1>2, <1>3, <1>4, <1>5

Filled(n) ==
    cell' = [i \in 0 .. BufSize - 1 |->
                LET k == (i - wptr) % BufSize
                IN  IF k < n THEN src - a_len + 1 + k ELSE cell[i]]

(* What is written is what is to be played next ...                        *)
LEMMA FifoFill ==
    ASSUME NumbersOK, Filled(playsize), NEW k \in 0 .. BufSize - 1, k < playsize
    PROVE  cell'[(wptr + k) % BufSize] = src - a_len + 1 + k
<1> DEFINE i == (wptr + k) % BufSize
<1>1. wptr \in 0 .. BufSize - 1 /\ wptr + k \in Nat /\ wptr + k < BufSize + BufSize
  BY FifoAssumption DEF NumbersOK
<1>2. i = Wrap(wptr + k) /\ i \in 0 .. BufSize - 1
  BY <1>1, Place
<1> HIDE DEF i
<1>3. (i - wptr) % BufSize = k
  BY <1>1, <1>2, FifoAssumption, Offset DEF Wrap
<1>4. cell'[i] = IF k < playsize THEN src - a_len + 1 + k ELSE cell[i]
  BY <1>2, <1>3, Zenon DEF Filled
<1>5. cell'[i] = src - a_len + 1 + k
  BY <1>4, Zenon
<1> QED  BY <1>5 DEF i

(* ... and what waits to be heard is not written over.                     *)
LEMMA FifoRest ==
    ASSUME NumbersOK, Filled(playsize), playsize + Size <= BufSize,
           wptr - rptr = Size \/ wptr - rptr = Size - BufSize,
           NEW k \in 0 .. BufSize - 1, k < Size
    PROVE  cell'[(rptr + k) % BufSize] = cell[(rptr + k) % BufSize]
<1> DEFINE i == (rptr + k) % BufSize
<1>0. Size \in Nat
  BY SizeIsDistance
<1>1. rptr \in 0 .. BufSize - 1 /\ rptr + k \in Nat /\ rptr + k < BufSize + BufSize
  BY FifoAssumption DEF NumbersOK
<1>2. i = Wrap(rptr + k) /\ i \in 0 .. BufSize - 1
  BY <1>1, Place
<1> HIDE DEF i
<1>3. (i - wptr) % BufSize = BufSize - Size + k
  <2>1. wptr \in 0 .. BufSize - 1
    BY DEF NumbersOK
  <2>2. (i - wptr) % BufSize = IF wptr <= i THEN i - wptr ELSE i - wptr + BufSize
    BY <1>2, <2>1, Offset
  <2>3. Size <= BufSize
    BY <1>0, FifoAssumption DEF NumbersOK
  <2> QED  BY <1>0, <1>1, <1>2, <2>1, <2>2, <2>3, FifoAssumption DEF Wrap
<1> DEFINE m == BufSize - Size + k
<1>4. cell'[i] = IF m < playsize THEN src - a_len + 1 + m ELSE cell[i]
  BY <1>2, <1>3, Zenon DEF Filled
<1>5. ~(m < playsize)
  BY <1>0, FifoAssumption DEF NumbersOK
<1>6. cell'[i] = cell[i]
  BY <1>4, <1>5, Zenon
<1> QED  BY <1>6 DEF i

(* Once it is counted, it follows what was there.                          *)
LEMMA FifoNext ==
    ASSUME NumbersOK, Safe, mpc \notin Resetting, state # "Stand", ~InReset,
           ppc = "publish", NEW k \in 0 .. BufSize - 1, Size <= k,
           k < Size + playsize
    PROVE  cell[(rptr + k) % BufSize] = Drained + 1 + k
<1> USE DEF Safe
<1> DEFINE m == k - Size
<1>0. Size \in Nat
  BY SizeIsDistance
<1>1. /\ Size <= BufSize
      /\ wptr - rptr = Size \/ wptr - rptr = Size - BufSize
  BY DEF CountInv
<1>2. m \in 0 .. BufSize - 1 /\ m < playsize
  BY <1>0, FifoAssumption DEF NumbersOK
<1>3. cell[(wptr + m) % BufSize] = src - a_len + 1 + m
  BY <1>2 DEF DataInv
<1>4. (rptr + k) % BufSize = (wptr + m) % BufSize
  <2>1. /\ rptr + k \in Nat /\ rptr + k < BufSize + BufSize
        /\ wptr + m \in Nat /\ wptr + m < BufSize + BufSize
    BY <1>0, <1>2, FifoAssumption DEF NumbersOK
  <2>2. Wrap(rptr + k) = Wrap(wptr + m)
    BY <1>0, <1>1, <1>2, FifoAssumption DEF NumbersOK, Wrap
  <2> HIDE DEF m
  <2> QED  BY <2>1, <2>2, Place
<1>5. Drained + Size = src - a_len
  BY DEF DataInv
<1>6. Drained \in Int
  BY PieceFits DEF NumbersOK, Drained
<1>7. src - a_len + 1 + m = Drained + 1 + k
  BY <1>0, <1>5, <1>6 DEF NumbersOK
<1> QED  BY <1>3, <1>4, <1>7

(* Every step of the player.                                               *)
LEMMA PlayerSafeStep ==
    ASSUME NumbersOK, NumbersOK', ThreadInv, Safe, Player
    PROVE  Safe'
<1>1. /\ mpc \notin Resetting /\ state # "Stand" /\ ~InReset
  BY DEF ThreadInv, Resetting, InReset, Player, PlayerTop, PlayerWake,
     PlayerSpace, PlayerFill,
     PlayerStarve, PlayerFed, PlayerClear, PlayerRoom, PlayerWrite,
     PlayerPublish, PlayerSafe, PlayerDoze, PlayerPause, PlayerUnsafe,
     PlayerExit
<1>2. CASE \/ PlayerTop \/ PlayerWake \/ PlayerSpace \/ PlayerStarve
           \/ PlayerSafe \/ PlayerDoze \/ PlayerPause \/ PlayerUnsafe
           \/ PlayerExit
  BY <1>1, <1>2, PlayerQuiet DEF NumbersOK, PlayerTop, PlayerWake, PlayerSpace,
     PlayerStarve, PlayerSafe, PlayerDoze, PlayerPause, PlayerUnsafe, PlayerExit
<1>3. CASE PlayerFill \/ PlayerFed
  <2>1. src' - a_len' = src - a_len
    <3>1. CASE \E n \in 1 .. Smaller(ABufSize - a_len, FileUnits - src) :
                  a_len' = a_len + n /\ src' = src + n
      BY <3>1, SoundAssumption DEF Smaller, NumbersOK
    <3>2. CASE a_len' = a_len /\ src' = src
      BY <3>2
    <3> QED  BY <1>3, <3>1, <3>2 DEF PlayerFill, PlayerFed
  <2>2. UNCHANGED <<fifoVars, callVars, mpc, paused, heard>>
    BY <1>3 DEF PlayerFill, PlayerFed
  <2>3. ppc' \notin {"write", "publish", "room"}
    BY <1>3 DEF PlayerFill, PlayerFed
  <2> QED
    BY <1>1, <2>1, <2>2, <2>3, PlayerQuiet
<1>4. CASE PlayerClear
  <2>1. playsize' <= a_len'
    BY <1>4 DEF NumbersOK, PlayerClear, Smaller
  <2>2. UNCHANGED <<fifoVars, sourceVars, callVars, mpc, paused, heard>>
    BY <1>4 DEF PlayerClear
  <2>3. ppc' \notin {"write", "publish"}
    BY <1>4 DEF PlayerClear
  <2> QED  BY <1>1, <2>1, <2>2, <2>3, PlayerQuiet
<1>0. /\ Size = Around(wndx, rndx) /\ Size' = Around(wndx', rndx')
      /\ Size \in Nat /\ Size' \in Nat
  <2>1. /\ wndx \in 0 .. UIntRange - 1 /\ rndx \in 0 .. UIntRange - 1
        /\ wndx' \in 0 .. UIntRange - 1 /\ rndx' \in 0 .. UIntRange - 1
    BY DEF NumbersOK
  <2>2. /\ Size = (wndx - rndx) % UIntRange
        /\ Size' = (wndx' - rndx') % UIntRange
    BY DEF Size
  <2>3. \A x \in 0 .. UIntRange - 1 : x \in Nat
    BY FifoAssumption
  <2> QED  BY <2>1, <2>2, <2>3, Distance
<1>5. CASE PlayerRoom
  <2> USE DEF Safe
  <2>1. Size' = Size /\ Piece' = Piece /\ Drained' = Drained
    BY <1>5 DEF PlayerRoom, Size, Piece, Smaller, Drained
  <2>2. playsize' <= playsize /\ playsize' + Size <= BufSize
    <3>1. Size <= BufSize
      BY <1>1, <1>5 DEF CountInv, PlayerRoom
    <3>2. playsize \in Nat
      BY DEF NumbersOK
    <3>3. playsize' = IF playsize < BufSize - Size THEN playsize
                      ELSE BufSize - Size
      BY <1>5 DEF PlayerRoom, Space, Smaller
    <3> QED  BY <1>0, <3>1, <3>2, <3>3, FifoAssumption
  <2>3. ResetInv'
    BY <1>5 DEF PlayerRoom, ResetInv, InRead, InReset
  <2>4. RoomInv'
    BY <1>5, <2>1, <2>2 DEF PlayerRoom, RoomInv, NumbersOK
  <2>5. CountInv'
    BY <1>5, <2>1 DEF PlayerRoom, CountInv, InReset
  <2>6. DataInv'
    BY <1>1, <1>5, <2>1 DEF PlayerRoom, DataInv, InReset, Resetting
  <2> QED  BY <2>3, <2>4, <2>5, <2>6
<1>6. CASE PlayerWrite
  <2> USE DEF Safe
  <2>1. Size' = Size /\ Piece' = Piece /\ Drained' = Drained
    BY <1>6 DEF PlayerWrite, Size, Piece, Smaller, Drained
  <2>3. ResetInv'
    BY <1>6 DEF PlayerWrite, ResetInv, InRead, InReset
  <2>4. RoomInv'
    BY <1>6, <2>1 DEF PlayerWrite, RoomInv
  <2>5. CountInv'
    BY <1>6, <2>1 DEF PlayerWrite, CountInv, InReset
  <2>6. DataInv'
    <3>1. ASSUME NEW k \in 0 .. BufSize - 1, k < Size
          PROVE  cell'[(rptr + k) % BufSize] = Drained + 1 + k
      <4>1. /\ Filled(playsize) /\ playsize + Size <= BufSize
            /\ wptr - rptr = Size \/ wptr - rptr = Size - BufSize
        BY <1>1, <1>6 DEF CountInv, RoomInv, PlayerWrite, Filled
      <4>2. cell[(rptr + k) % BufSize] = Drained + 1 + k
        BY <1>1, <3>1 DEF DataInv
      <4> QED  BY <3>1, <4>1, <4>2, FifoRest
    <3>2. ASSUME NEW k \in 0 .. BufSize - 1, k < playsize
          PROVE  cell'[(wptr + k) % BufSize] = src - a_len + 1 + k
      <4>1. Filled(playsize)
        BY <1>6 DEF PlayerWrite, Filled
      <4> QED  BY <3>2, <4>1, FifoFill
    <3> QED
      BY <1>1, <1>6, <2>1, <3>1, <3>2 DEF PlayerWrite, DataInv, InReset, Resetting
  <2> QED  BY <2>3, <2>4, <2>5, <2>6
<1>7. CASE PlayerPublish
  <2> USE DEF Safe
  <2>0. playsize + Size <= BufSize /\ playsize <= a_len /\ Size <= BufSize
    BY <1>1, <1>7 DEF PlayerPublish, RoomInv, CountInv
  <2>1. Size' = Size + playsize
    <3>1. /\ wndx \in 0 .. UIntRange - 1 /\ rndx \in 0 .. UIntRange - 1
          /\ playsize \in Nat
      BY DEF NumbersOK
    <3>2. Size = Around(wndx, rndx) /\ Size' = Around(wndx', rndx')
      BY <1>0
    <3>3. Around(wndx, rndx) + playsize < UIntRange
      BY <1>0, <2>0, <3>1, <3>2, FifoAssumption
    <3>4. Around((wndx + playsize) % UIntRange, rndx) = Around(wndx, rndx) + playsize
      BY <3>1, <3>3, CountUp
    <3> QED  BY <1>7, <3>2, <3>4 DEF PlayerPublish
  <2>2. Piece' = Piece /\ Drained' = Drained
    BY <1>7 DEF PlayerPublish, Piece, Smaller, Drained
  <2>3. ResetInv'
    BY <1>1, <1>7 DEF PlayerPublish, ResetInv, InRead, InReset, Resetting
  <2>4. RoomInv'
    <3>1. playsize \in Nat /\ left \in Nat
      BY PieceFits DEF NumbersOK
    <3>2. left' = left /\ cpc' = cpc /\ ppc' = "safe"
      BY <1>7, Zenon DEF PlayerPublish, At, OthersOfPlayer, callVars
    <3>3. cpc \notin {"copy", "drain"} => left = 0
      BY DEF RoomInv
    <3>4. cpc \in {"copy", "drain"} => left <= Size'
      BY <1>0, <2>1, <3>1 DEF RoomInv
    <3> QED  BY <3>2, <3>3, <3>4 DEF RoomInv
  <2>5. wptr' = Wrap(wptr + playsize)
    <3>1. wptr + playsize \in Nat /\ wptr + playsize < BufSize + BufSize
      <4>1. /\ playsize \in Nat /\ BufSize \in Nat
            /\ wptr \in 0 .. BufSize - 1
        BY FifoAssumption DEF NumbersOK
      <4> QED  BY <1>0, <2>0, <4>1
    <3>2. wptr' = (wptr + playsize) % BufSize
      BY <1>7 DEF PlayerPublish
    <3> QED  BY <3>1, <3>2, Place
  <2>6. CountInv'
    <3>1. wptr - rptr = Size \/ wptr - rptr = Size - BufSize
      BY <1>1 DEF CountInv
    <3>2. wptr' - rptr = Size' \/ wptr' - rptr = Size' - BufSize
      <4>1. /\ playsize \in Nat /\ BufSize \in Nat
            /\ wptr \in 0 .. BufSize - 1 /\ rptr \in 0 .. BufSize - 1
        BY FifoAssumption DEF NumbersOK
      <4>2. CASE wptr + playsize < BufSize
        BY <1>0, <2>1, <2>5, <3>1, <4>1, <4>2 DEF Wrap
      <4>3. CASE BufSize <= wptr + playsize
        BY <1>0, <2>0, <2>1, <2>5, <3>1, <4>1, <4>3 DEF Wrap
      <4> QED  BY <4>1, <4>2, <4>3
    <3>3. Size' <= BufSize
      BY <1>0, <2>0, <2>1, FifoAssumption DEF NumbersOK
    <3> QED  BY <1>7, <3>2, <3>3 DEF PlayerPublish, CountInv
  <2>7. DataInv'
    <3>1. ASSUME NEW k \in 0 .. BufSize - 1, k < Size'
          PROVE  cell[(rptr + k) % BufSize] = Drained + 1 + k
      <4>1. CASE k < Size
        BY <1>1, <4>1 DEF DataInv
      <4>2. CASE Size <= k
        BY <1>0, <1>1, <1>7, <2>0, <2>1, <3>1, <4>2, FifoNext DEF PlayerPublish
      <4> QED  BY <1>0, <4>1, <4>2
    <3>2. Drained + Size' = src' - a_len'
      <4>0. Piece \in Int /\ heard \in Int
        BY PieceFits DEF NumbersOK
      <4>1. Drained + Size = src - a_len /\ Drained \in Int
        BY <1>1, <4>0 DEF DataInv, Drained
      <4>2. playsize \in Nat /\ src \in Nat /\ a_len \in Nat
        BY DEF NumbersOK
      <4> QED  BY <1>0, <1>7, <2>1, <4>1, <4>2 DEF PlayerPublish
    <3>3. heard' # Broken
      BY <1>7 DEF PlayerPublish, DataInv
    <3>4. \A k \in 0 .. BufSize - 1 :
              k < Size' => cell'[(rptr' + k) % BufSize] = Drained' + 1 + k
      BY <1>7, <2>2, <3>1 DEF PlayerPublish
    <3>5. mpc' \notin Resetting /\ mpc' # "reset_end" /\ ppc' # "publish"
      BY <1>1, <1>7 DEF PlayerPublish, Resetting
    <3> QED
      BY <2>2, <3>2, <3>3, <3>4, <3>5 DEF DataInv, Resetting
  <2> QED  BY <2>3, <2>4, <2>6, <2>7
<1> QED  BY <1>2, <1>3, <1>4, <1>5, <1>6, <1>7 DEF Player

-----------------------------------------------------------------------------
(* The callback keeps it.                                                  *)

(* The next piece to play is the next one of the stream.                   *)
LEMMA PieceIsNext ==
    ASSUME NumbersOK, Safe, cpc = "copy"
    PROVE  \A k \in 0 .. Piece - 1 : cell[rptr + k] = heard + 1 + k
<1> USE DEF Safe
<1>1. ~InReset
  BY ReadUndisturbed DEF InRead
<1>2. /\ Piece \in Nat /\ Piece <= BufSize - rptr /\ Piece <= Size
      /\ Size \in Nat /\ rptr \in 0 .. BufSize - 1
  <2>1. Piece \in 0 .. left /\ Piece <= BufSize - rptr /\ left \in Nat
    BY PieceFits
  <2>2. left <= Size /\ Size \in Nat
    BY SizeIsDistance DEF RoomInv
  <2>3. rptr \in 0 .. BufSize - 1
    BY DEF NumbersOK
  <2> QED  BY <2>1, <2>2, <2>3
<1>3. Drained = heard
  BY DEF Drained
<1> TAKE k \in 0 .. Piece - 1
<1>4. k \in 0 .. BufSize - 1 /\ k < Size
  BY <1>2, FifoAssumption
<1>5. (rptr + k) % BufSize = rptr + k
  BY <1>2, FifoAssumption, ModSmall
<1> QED  BY <1>1, <1>3, <1>4, <1>5 DEF DataInv

(* What comes after the piece moves up when it is drained.                 *)
LEMMA PieceIsGone ==
    ASSUME NumbersOK, Safe, cpc = "drain",
           NEW k \in 0 .. BufSize - 1, k < Size - Piece
    PROVE  cell[(((rptr + Piece) % BufSize) + k) % BufSize] = heard + 1 + k
<1> USE DEF Safe
<1>1. ~InReset
  BY ReadUndisturbed DEF InRead
<1>2. /\ Piece \in Nat /\ Piece <= BufSize - rptr /\ Piece <= Size
      /\ Size \in Nat /\ rptr \in 0 .. BufSize - 1 /\ Size <= BufSize
  <2>1. Piece \in 0 .. left /\ Piece <= BufSize - rptr /\ left \in Nat
    BY PieceFits
  <2>2. left <= Size /\ Size \in Nat /\ Size <= BufSize
    BY <1>1, SizeIsDistance DEF RoomInv, CountInv
  <2>3. rptr \in 0 .. BufSize - 1
    BY DEF NumbersOK
  <2> QED  BY <2>1, <2>2, <2>3
<1> DEFINE m == Piece + k
<1>3. m \in 0 .. BufSize - 1 /\ m < Size
  BY <1>2, FifoAssumption
<1>4. cell[(rptr + m) % BufSize] = Drained + 1 + m
  BY <1>1, <1>3 DEF DataInv
<1>5. (rptr + Piece) % BufSize = Wrap(rptr + Piece)
  <2>1. rptr + Piece \in Nat /\ rptr + Piece < BufSize + BufSize
    BY <1>2, FifoAssumption
  <2> QED  BY <2>1, Place
<1>6. (Wrap(rptr + Piece) + k) % BufSize = (rptr + m) % BufSize
  <2>1. CASE rptr + Piece < BufSize
    <3>1. Wrap(rptr + Piece) + k = rptr + m
      BY <1>2, <2>1, FifoAssumption DEF Wrap
    <3> QED  BY <3>1
  <2>2. CASE rptr + Piece = BufSize
    <3>1. /\ Wrap(rptr + Piece) + k = k
          /\ rptr + m = BufSize + k /\ BufSize + k \in Nat
          /\ BufSize + k < BufSize + BufSize /\ k < BufSize + BufSize
      BY <1>2, <2>2, FifoAssumption DEF Wrap
    <3>2. k % BufSize = Wrap(k) /\ (BufSize + k) % BufSize = Wrap(BufSize + k)
      BY <3>1, Place
    <3>3. Wrap(k) = Wrap(BufSize + k)
      BY FifoAssumption DEF Wrap
    <3> HIDE DEF m
    <3> QED  BY <3>1, <3>2, <3>3
  <2> QED  BY <1>2, <2>1, <2>2, FifoAssumption
<1>7. Drained + 1 + m = heard + 1 + k
  BY <1>2 DEF Drained, NumbersOK
<1> QED  BY <1>4, <1>5, <1>6, <1>7

(* A step of the callback that neither copies nor drains.                  *)
LEMMA CallbackQuiet ==
    ASSUME Safe, UNCHANGED <<fifoVars, mpc, paused, playVars, left, heard,
                             state, sourceVars>>,
           cpc \notin {"copy", "drain"}, cpc' \notin {"copy", "drain"},
           InRead' => InRead \/ ~paused
    PROVE  Safe'
<1> USE DEF Safe
<1>1. Size' = Size /\ Drained' = Drained
  BY DEF Size, Drained
<1>2. ResetInv'
  BY DEF ResetInv, InReset
<1>3. RoomInv'
  BY <1>1 DEF RoomInv
<1>4. CountInv'
  BY <1>1 DEF CountInv, InReset
<1>5. DataInv'
  BY <1>1 DEF DataInv, InReset, Resetting
<1> QED  BY <1>2, <1>3, <1>4, <1>5

(* Every step of the callback.                                             *)
LEMMA CallbackSafeStep ==
    ASSUME NumbersOK, NumbersOK', Safe, Callback
    PROVE  Safe'
<1>1. CASE CallbackStart \/ CallbackTest \/ CallbackShort
  <2>1. UNCHANGED <<fifoVars, mpc, paused, playVars, left, heard, state,
                    sourceVars>>
    BY <1>1 DEF CallbackStart, CallbackTest, CallbackShort
  <2>2. /\ cpc \notin {"copy", "drain"} /\ cpc' \notin {"copy", "drain"}
        /\ InRead' => InRead \/ ~paused
    BY <1>1 DEF CallbackStart, CallbackTest, CallbackShort, InRead
  <2> QED  BY <2>1, <2>2, CallbackQuiet
<1>2. CASE CallbackSize
  <2> USE DEF Safe
  <2>1. Size' = Size /\ Drained' = Drained
    BY <1>2 DEF CallbackSize, Size, Drained
  <2>2. left' <= Size
    <3>1. Size \in Nat
      BY SizeIsDistance
    <3>2. frames \in Nat
      BY SoundAssumption DEF NumbersOK
    <3> QED  BY <1>2, <3>1, <3>2 DEF CallbackSize, Smaller
  <2>3. ResetInv'
    BY <1>2 DEF CallbackSize, ResetInv, InReset, InRead
  <2>4. RoomInv'
    BY <1>2, <2>1, <2>2 DEF CallbackSize, RoomInv
  <2>5. CountInv'
    BY <1>2, <2>1 DEF CallbackSize, CountInv, InReset
  <2>6. DataInv'
    BY <1>2, <2>1 DEF CallbackSize, DataInv, InReset, Resetting
  <2> QED  BY <2>3, <2>4, <2>5, <2>6
<1>3. CASE CallbackCopy
  <2> USE DEF Safe
  <2>1. heard' = heard + Piece /\ Piece' = Piece /\ Size' = Size
    BY <1>3, PieceIsNext DEF CallbackCopy, Piece, Smaller, Size
  <2>2. Drained' = Drained
    <3>1. heard \in Int /\ Piece \in Int
      BY PieceFits DEF NumbersOK
    <3> QED  BY <1>3, <2>1, <3>1 DEF CallbackCopy, Drained
  <2>3. ResetInv'
    BY <1>3 DEF CallbackCopy, ResetInv, InReset, InRead
  <2>4. RoomInv'
    BY <1>3, <2>1 DEF CallbackCopy, RoomInv
  <2>5. CountInv'
    BY <1>3, <2>1 DEF CallbackCopy, CountInv, InReset
  <2>6. DataInv'
    <3>1. heard' # Broken
      <4>1. Piece \in Nat
        BY PieceFits
      <4>2. heard \in -1 .. FileUnits /\ heard # Broken
        BY DEF DataInv, NumbersOK
      <4> QED  BY <2>1, <4>1, <4>2, SoundAssumption DEF Broken
    <3>2. mpc \notin {"reset_rndx", "reset_wndx", "reset_end"}
      BY <1>3, ReadUndisturbed DEF CallbackCopy, InRead
    <3> QED
      BY <1>3, <2>1, <2>2, <3>1, <3>2
      DEF CallbackCopy, DataInv, InReset, Resetting
  <2> QED  BY <2>3, <2>4, <2>5, <2>6
<1>4. CASE CallbackDrain
  <2> USE DEF Safe
  <2>0. /\ Piece \in 0 .. left /\ left \in Nat /\ left <= Size /\ Size \in Nat
        /\ Piece <= BufSize - rptr
    <3>1. left <= Size
      BY <1>4 DEF CallbackDrain, RoomInv
    <3> QED  BY <3>1, PieceFits, SizeIsDistance
  <2>1. Size' = Size - Piece
    <3>1. /\ wndx \in 0 .. UIntRange - 1 /\ rndx \in 0 .. UIntRange - 1
          /\ wndx' \in 0 .. UIntRange - 1 /\ rndx' \in 0 .. UIntRange - 1
      BY DEF NumbersOK
    <3>2. Size = Around(wndx, rndx) /\ Size' = Around(wndx', rndx')
      BY <3>1, Distance DEF Size
    <3>3. Piece \in Nat /\ Piece <= Around(wndx, rndx)
      BY <2>0, <3>2
    <3>4. Around(wndx, (rndx + Piece) % UIntRange) = Around(wndx, rndx) - Piece
      BY <3>1, <3>3, CountDown
    <3> QED  BY <1>4, <3>2, <3>4 DEF CallbackDrain
  <2>2. rptr' = (rptr + Piece) % BufSize /\ left' = left - Piece
    BY <1>4 DEF CallbackDrain
  <2>3. cpc' # "drain" /\ (cpc' = "copy" \/ left = Piece)
    BY <1>4, <2>0 DEF CallbackDrain
  <2>4. mpc \notin {"reset_rndx", "reset_wndx", "reset_end"} /\ ~InReset
    BY <1>4, ReadUndisturbed DEF CallbackDrain, InRead
  <2>5. ResetInv'
    BY <1>4, <2>4 DEF CallbackDrain, ResetInv, InReset
  <2>6. RoomInv'
    <3>1. left' <= Size' /\ (cpc' # "copy" => left' = 0)
      BY <2>0, <2>1, <2>2, <2>3
    <3>2. /\ ppc \in {"room", "write", "publish"} => playsize <= a_len
          /\ ppc \in {"write", "publish"} => playsize + Size' <= BufSize
      BY <2>0, <2>1, FifoAssumption DEF RoomInv, NumbersOK
    <3> QED  BY <1>4, <2>3, <3>1, <3>2 DEF CallbackDrain, RoomInv
  <2>7. CountInv'
    <3>0. /\ Size <= BufSize
          /\ wptr - rptr = Size \/ wptr - rptr = Size - BufSize
      BY <2>4 DEF CountInv
    <3>1. /\ BufSize \in Nat
          /\ wptr \in 0 .. BufSize - 1 /\ rptr \in 0 .. BufSize - 1
      BY FifoAssumption DEF NumbersOK
    <3>2. rptr' = Wrap(rptr + Piece)
      <4>1. rptr + Piece \in Nat /\ rptr + Piece < BufSize + BufSize
        BY <2>0, <3>1
      <4> QED  BY <2>2, <4>1, Place
    <3>3. wptr - rptr' = Size' \/ wptr - rptr' = Size' - BufSize
      <4>1. CASE rptr + Piece < BufSize
        BY <2>0, <2>1, <3>0, <3>1, <3>2, <4>1 DEF Wrap
      <4>2. CASE rptr + Piece = BufSize
        BY <2>0, <2>1, <3>0, <3>1, <3>2, <4>2 DEF Wrap
      <4> QED  BY <2>0, <3>1, <4>1, <4>2
    <3>4. Size' <= BufSize
      BY <2>0, <2>1, <3>0, <3>1
    <3> QED  BY <1>4, <3>3, <3>4 DEF CallbackDrain, CountInv
  <2>8. DataInv'
    <3>1. Drained = heard - Piece /\ Drained' = heard' /\ heard' = heard
      BY <1>4, <2>3 DEF CallbackDrain, Drained
    <3>2. \A k \in 0 .. BufSize - 1 :
              k < Size' => cell'[(rptr' + k) % BufSize] = Drained' + 1 + k
      BY <1>4, <2>1, <2>2, <3>1, PieceIsGone DEF CallbackDrain
    <3>3. Drained' + Size' = Drained + Size
      BY <2>0, <2>1, <3>1 DEF NumbersOK
    <3> QED
      BY <1>4, <2>4, <3>1, <3>2, <3>3
      DEF CallbackDrain, DataInv, InReset, Resetting
  <2> QED  BY <2>5, <2>6, <2>7, <2>8
<1> QED  BY <1>1, <1>2, <1>3, <1>4 DEF Callback

-----------------------------------------------------------------------------
(* Main keeps it: it touches it only when both sides are out of it.        *)

(* A step of main, or of the decoder, outside the reset.                   *)
LEMMA MainQuiet ==
    ASSUME Safe, UNCHANGED <<fifoVars, callVars, playsize, heard, a_len, src>>,
           ppc' = ppc \/ ppc' \in {"pause", "fed"},
           mpc \notin Resetting, mpc' \notin Resetting,
           state # "Stand" \/ state' = "Stand"
    PROVE  Safe'
<1> USE DEF Safe
<1>1. Size' = Size /\ Drained' = Drained
  BY DEF Size, Drained, Piece, Smaller
<1>2. ResetInv'
  BY DEF ResetInv, InReset, Resetting
<1>3. RoomInv'
  BY <1>1 DEF RoomInv
<1>4. CountInv'
  BY <1>1 DEF CountInv, InReset, Resetting
<1>5. DataInv'
  BY <1>1 DEF DataInv, InReset, Resetting
<1> QED  BY <1>2, <1>3, <1>4, <1>5

(* Every step of the decoder.                                              *)
LEMMA DecoderSafeStep ==
    ASSUME ThreadInv, ThreadInv', Safe, Decoder
    PROVE  Safe'
<1>1. /\ UNCHANGED <<fifoVars, callVars, playsize, heard, a_len, src>>
      /\ ppc' = ppc \/ ppc' = "fed"
      /\ mpc' = mpc /\ state' = state
  BY DEF Decoder, DecoderFeeds, DecoderStops
<1>2. mpc \notin Resetting
  BY DEF Decoder, DecoderFeeds, DecoderStops, ThreadInv, Resetting
<1> QED  BY <1>1, <1>2, MainQuiet

(* Every step of main, if its reset meets no callback.                     *)
LEMMA MainSafeStep ==
    ASSUME NumbersOK, NumbersOK', ThreadInv, ThreadInv', Safe, ~torn',
           User \/ Main
    PROVE  Safe'
<1>1. CASE \/ MainPause \/ MainResume \/ MainHaltDecoder \/ MainHalt
           \/ MainHold \/ MainClear \/ MainSignal \/ MainRestart \/ MainClose
  <2>1. UNCHANGED <<fifoVars, callVars, playsize, heard, a_len, src>>
    BY <1>1 DEF MainPause, MainResume, MainHaltDecoder, MainHalt, MainHold,
       MainClear, MainSignal, MainRestart, MainClose
  <2>2. /\ mpc \notin Resetting /\ mpc' \notin Resetting
        /\ ppc' = ppc \/ ppc' = "pause"
    BY <1>1 DEF MainPause, MainResume, MainHaltDecoder, MainHalt, MainHold,
       MainClear, MainSignal, MainRestart, MainClose, Resetting
  <2>3. state # "Stand" \/ state' = "Stand"
    BY <1>1 DEF MainPause, MainResume, MainHaltDecoder, MainHalt, MainHold,
       MainClear, MainSignal, MainRestart, MainClose, ThreadInv, Playing
  <2> QED  BY <2>1, <2>2, <2>3, MainQuiet
<1>2. CASE MainHalted
  <2> USE DEF Safe
  <2>1. Size' = Size /\ Drained' = Drained
    BY <1>2 DEF MainHalted, Size, Drained, Piece, Smaller
  <2>2. /\ mpc \in {"halt", "stop"} /\ mpc' \in {"reset", "restart"}
        /\ mpc = "halt" => ppc = "asleep" /\ state = "ASleep"
        /\ mpc = "stop" => ppc = "gone" /\ state = "Stand"
    BY <1>2 DEF MainHalted, ThreadInv
  <2>3. ResetInv'
    BY <1>2, <2>2 DEF MainHalted, ResetInv, InReset
  <2>4. RoomInv'
    BY <1>2, <2>1, <2>2 DEF MainHalted, RoomInv
  <2>5. CountInv'
    BY <1>2, <2>1, <2>2 DEF MainHalted, CountInv, InReset
  <2>6. DataInv'
    <3>1. heard' # Broken
      BY <1>2 DEF MainHalted, DataInv
    <3>2. \A k \in 0 .. BufSize - 1 :
              k < Size' => cell'[(rptr' + k) % BufSize] = Drained' + 1 + k
      BY <1>2, <2>1, <2>2 DEF MainHalted, DataInv, InReset
    <3>3. (mpc' \notin Resetting /\ state' # "Stand")
              => Drained' + Size' = src' - a_len'
      BY <1>2, <2>1, <2>2 DEF MainHalted, DataInv, Resetting
    <3>4. (mpc' \in Resetting /\ state' = "ASleep")
              => a_len' = 0 /\ mpc' = "reset"
      BY <1>2, <2>2 DEF MainHalted, Resetting
    <3>5. mpc' # "reset_end" /\ ppc' # "publish"
      BY <1>2, <2>2 DEF MainHalted
    <3> QED  BY <3>1, <3>2, <3>3, <3>4, <3>5 DEF DataInv
  <2> QED  BY <2>3, <2>4, <2>5, <2>6
<1>3. CASE MainReset
  <2> USE DEF Safe
  <2>1. Size' = Size /\ Drained' = Drained
    BY <1>3 DEF MainReset, Size, Drained, Piece, Smaller
  <2>2. ResetInv'
    BY <1>3 DEF MainReset, ResetInv, InReset
  <2>3. RoomInv'
    BY <1>3, <2>1 DEF MainReset, RoomInv
  <2>4. CountInv'
    BY <1>3, <2>1 DEF MainReset, CountInv, InReset
  <2>5. DataInv'
    BY <1>3, <2>1 DEF MainReset, DataInv, InReset, Resetting
  <2> QED  BY <2>2, <2>3, <2>4, <2>5
<1>4. ASSUME MainResetPtr \/ MainResetRead \/ MainResetWrite
      PROVE  ~InRead
  BY <1>4 DEF MainResetPtr, MainResetRead, MainResetWrite
<1>5. CASE MainResetPtr
  <2> USE DEF Safe
  <2>1. /\ mpc = "reset_ptr" /\ mpc' = "reset_rndx" /\ InReset'
        /\ wptr' = 0 /\ rptr' = 0 /\ heard' = src
        /\ UNCHANGED <<wndx, rndx, state, a_len, src, paused, playVars, callVars>>
    BY <1>5 DEF MainResetPtr, InReset
  <2>2. ppc \in {"asleep", "gone"}
    BY <2>1 DEF ThreadInv, Resetting
  <2>3. ~InRead /\ ~InRead'
    BY <1>4, <1>5, <2>1 DEF InRead
  <2>4. ResetInv'
    BY <2>1, <2>3 DEF ResetInv
  <2>5. RoomInv'
    BY <2>1, <2>2, <2>3 DEF RoomInv, InRead
  <2>6. CountInv'
    BY <2>1 DEF CountInv
  <2>7. heard' # Broken
    BY <2>1 DEF NumbersOK, Broken
  <2>8. DataInv'
    BY <2>1, <2>2, <2>7 DEF DataInv, Resetting
  <2> QED  BY <2>4, <2>5, <2>6, <2>8
<1>6. CASE MainResetRead
  <2> USE DEF Safe
  <2>1. /\ mpc = "reset_rndx" /\ mpc' = "reset_wndx" /\ InReset /\ InReset'
        /\ rndx' = 0
        /\ UNCHANGED <<wndx, wptr, rptr, state, a_len, src, paused, playVars,
                       callVars, heard>>
    BY <1>6 DEF MainResetRead, InReset
  <2>2. ppc \in {"asleep", "gone"}
    BY <2>1 DEF ThreadInv, Resetting
  <2>3. ~InRead /\ ~InRead'
    BY <1>4, <1>6, <2>1 DEF InRead
  <2>4. ResetInv'
    BY <2>1, <2>3 DEF ResetInv
  <2>5. RoomInv'
    BY <2>1, <2>2, <2>3 DEF RoomInv, InRead
  <2>6. CountInv'
    BY <2>1 DEF CountInv
  <2>8. DataInv'
    BY <2>1, <2>2 DEF DataInv, Resetting
  <2> QED  BY <2>4, <2>5, <2>6, <2>8
<1>7. CASE MainResetWrite
  <2> USE DEF Safe
  <2>1. /\ mpc = "reset_wndx" /\ mpc' = "reset_end" /\ InReset /\ ~InReset'
        /\ wndx' = 0 /\ rndx = 0
        /\ UNCHANGED <<rndx, wptr, rptr, state, a_len, src, paused, playVars,
                       callVars, heard>>
    BY <1>7 DEF MainResetWrite, InReset, ResetInv
  <2>2. ppc \in {"asleep", "gone"}
    BY <2>1 DEF ThreadInv, Resetting
  <2>3. ~InRead /\ ~InRead'
    BY <1>4, <1>7, <2>1 DEF InRead
  <2>4. ResetInv'
    BY <2>1, <2>3 DEF ResetInv
  <2>5. RoomInv'
    BY <2>1, <2>2, <2>3 DEF RoomInv, InRead
  <2>6. Size' = 0
    BY <2>1, FifoAssumption, ModSmall DEF Size
  <2>7. CountInv'
    BY <2>1, <2>6, FifoAssumption DEF CountInv, ResetInv
  <2>8. DataInv'
    BY <2>1, <2>2, <2>6 DEF DataInv, Resetting
  <2> QED  BY <2>4, <2>5, <2>7, <2>8
<1>8. CASE MainResetEnd
  <2> USE DEF Safe
  <2>1. /\ mpc = "reset_end" /\ mpc' \in {"close", "restart"}
        /\ mpc' = "restart" => state = "ASleep"
        /\ UNCHANGED <<fifoVars, state, a_len, src, playVars, callVars, heard>>
    BY <1>8 DEF MainResetEnd, ThreadInv, Resetting
  <2>2. Size = 0 /\ Size' = 0 /\ ~InReset /\ ~InReset'
    BY <2>1 DEF DataInv, Size, InReset
  <2>3. ~InRead /\ Drained' = heard
    BY <2>1 DEF ResetInv, InRead, Drained
  <2>4. ppc \in {"asleep", "gone"}
    BY <2>1 DEF ThreadInv, Resetting
  <2>5. ResetInv'
    BY <2>1 DEF ResetInv, InReset
  <2>6. RoomInv'
    BY <2>1, <2>2, <2>3, <2>4 DEF RoomInv, InRead
  <2>7. CountInv'
    BY <2>1, <2>2 DEF CountInv
  <2>8. DataInv'
    <3>1. (mpc' \notin Resetting /\ state' # "Stand")
              => Drained' + Size' = src' - a_len'
      BY <2>1, <2>2, <2>3 DEF DataInv, Resetting, NumbersOK, ThreadInv
    <3> QED  BY <2>1, <2>2, <2>4, <3>1 DEF DataInv, Resetting
  <2> QED  BY <2>5, <2>6, <2>7, <2>8
<1> QED  BY <1>1, <1>2, <1>3, <1>5, <1>6, <1>7, <1>8 DEF User, Main

-----------------------------------------------------------------------------
(* The invariant holds.                                                    *)

(* The initial states satisfy the invariant.                               *)
LEMMA InitInv == Init => Inv
<1> SUFFICES ASSUME Init PROVE Inv
  OBVIOUS
<1> USE FifoAssumption, SoundAssumption DEF Init
<1>1. NumbersOK
  BY DEF NumbersOK
<1>2. FlagsOK
  BY DEF FlagsOK
<1>3. ThreadInv /\ a_len <= src
  BY DEF ThreadInv, Playing, Resetting
<1>4. Size = 0
  BY ModSmall DEF Size
<1>5. ResetInv /\ RoomInv
  BY DEF ResetInv, RoomInv, InReset, InRead
<1>6. CountInv /\ DataInv
  BY <1>4 DEF CountInv, DataInv, Drained, Broken, Resetting, InReset
<1> QED  BY <1>1, <1>2, <1>3, <1>5, <1>6 DEF Inv, TypeOK, Safe

(* Every step keeps it.                                                    *)
LEMMA NextInv ==
    ASSUME Inv, [Next]_vars
    PROVE  Inv'
<1>1. CASE Next
  <2>1. ~torn /\ (Player \/ Callback \/ Decoder \/ User \/ Main)
    BY <1>1 DEF Next
  <2>2. NumbersOK /\ FlagsOK /\ a_len <= src /\ ThreadInv /\ Safe
    BY <2>1, Zenon DEF Inv, TypeOK
  <2>3. RoomInv /\ CountInv
    BY <2>2 DEF Safe
  <2>4. ThreadInv'
    BY <2>1, <2>2, ThreadStep
  <2>5. FlagsOK'
    BY <2>1, <2>2, FlagsStep
  <2>6. NumbersOK' /\ a_len' <= src'
    BY <2>1, <2>2, <2>3, PlayerType, CallbackType, MainType
  <2>7. ~torn' => Safe'
    BY <2>1, <2>2, <2>4, <2>6, PlayerSafeStep, CallbackSafeStep, DecoderSafeStep,
       MainSafeStep, Zenon
  <2> QED  BY <2>4, <2>5, <2>6, <2>7, Zenon DEF Inv, TypeOK
<1>2. CASE UNCHANGED vars
  <2>1. /\ NumbersOK' <=> NumbersOK
        /\ FlagsOK' <=> FlagsOK
        /\ ThreadInv' <=> ThreadInv
    BY <1>2, Zenon DEF vars, NumbersOK, FlagsOK, ThreadInv
  <2>2. (ResetInv' <=> ResetInv) /\ (RoomInv' <=> RoomInv)
    BY <1>2, Zenon DEF vars, ResetInv, RoomInv, InReset, InRead, Size
  <2>3. (CountInv' <=> CountInv) /\ (DataInv' <=> DataInv)
    BY <1>2, Zenon DEF vars, CountInv, DataInv, InReset, Size, Drained, Piece, Smaller
  <2>4. a_len' = a_len /\ src' = src /\ (torn' <=> torn)
    BY <1>2, Zenon DEF vars
  <2> QED  BY <2>1, <2>2, <2>3, <2>4, Zenon DEF Inv, TypeOK, Safe
<1> QED  BY <1>1, <1>2

(* The invariant, in every behaviour.                                      *)
THEOREM OutputInv == Spec => []Inv
<1> QED  BY InitInv, NextInv, PTL DEF Spec

(* Every variable keeps its type.                                          *)
THEOREM OutputTypeOK == Spec => []TypeOK
<1>1. Inv => TypeOK
  BY DEF Inv
<1> QED  BY <1>1, OutputInv, PTL

(* A reset never meets a player that is at work (main.cpp:618).            *)
THEOREM OutputResetAlone == Spec => []ResetAlone
<1>1. Inv => ResetAlone
  BY DEF Inv, ResetAlone, ThreadInv, Resetting
<1> QED  BY <1>1, OutputInv, PTL

(* The fifo is never over-full and its counters agree with its pointers    *)
(* (fifo.c, ao_jack.cpp), however the callback and the player are          *)
(* interleaved and however often the counters wrap.                        *)
THEOREM OutputFifoSound == Spec => []FifoSound
<1>1. Inv => FifoSound
  <2> SUFFICES ASSUME Inv, ~torn, ~InReset
               PROVE  Size <= BufSize /\ (wptr - rptr - Size) % BufSize = 0
    BY DEF FifoSound
  <2>1. NumbersOK /\ CountInv
    BY DEF Inv, TypeOK, Safe
  <2>2. /\ Size <= BufSize
        /\ wptr - rptr = Size \/ wptr - rptr = Size - BufSize
    BY <2>1 DEF CountInv
  <2>3. Size \in Nat /\ wptr \in Nat /\ rptr \in Nat
    BY <2>1, SizeIsDistance, FifoAssumption DEF NumbersOK
  <2>4. wptr - rptr - Size = 0 \/ wptr - rptr - Size = -BufSize
    BY <2>2, <2>3, FifoAssumption
  <2>5. 0 % BufSize = 0 /\ (-BufSize) % BufSize = 0
    BY FifoAssumption, ModSmall, ModLow
  <2> QED  BY <2>2, <2>4, <2>5
<1> QED  BY <1>1, OutputInv, PTL

(* The card is given every unit once and in order (ao_jack.cpp:184-216),   *)
(* in behaviours in which no reset has met a callback past its test of     *)
(* paused, and with the stores of the fifo seen in program order.          *)
THEOREM OutputHeardInOrder == Spec => []HeardInOrder
<1>1. Inv => HeardInOrder
  BY DEF Inv, Safe, DataInv, HeardInOrder
<1> QED  BY <1>1, OutputInv, PTL
=============================================================================
