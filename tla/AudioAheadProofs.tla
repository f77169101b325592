-------------------------- MODULE AudioAheadProofs --------------------------
(***************************************************************************)
(* Proofs about the audio threads, for every size of the ring, of a frame  *)
(* and of a read: with any number of seeks, where the threads are; without *)
(* seeks, what the ring holds.                                             *)
(***************************************************************************)
EXTENDS AudioAhead, TLAPS

\* Places of the player where it holds tail_mutex.
Locked == {"loop", "test_eof", "wait", "span", "span_end", "copy", "test_end",
           "rewind", "return"}

Quiet(t, place) == \/ state[t] = "ASleep" /\ place = "asleep"
                   \/ state[t] = "Stand" /\ place = "done"

\* What is shared by the threads has its type; the mutex is the player's.
PlaceInv ==
    /\ state \in [Threads -> PthStates] /\ mi \in 1 .. 3
    /\ tail_mutex = IF ppc \in Locked THEN "player" ELSE "free"

\* A thread sleeps only where main halts it, and whom main has halted stays
\* so until main restarts it.
HaltInv ==
    /\ mpc = "run_decoder" <=> dpc = "none"
    /\ mpc \in {"run_decoder", "wait_decoder"} <=> ppc = "none"
    /\ dpc = "start" => mpc = "wait_decoder"
    /\ ppc = "start" => mpc = "wait_player"
    /\ state["decoder"] = "Stand" => dpc \in {"none", "start", "done"}
    /\ state["player"] = "Stand" => ppc \in {"none", "start", "done"}
    /\ dpc \in {"none", "start"} => state["decoder"] = "Stand"
    /\ ppc \in {"none", "start"} => state["player"] = "Stand"
    /\ state["decoder"] = "ASleep" => dpc = "asleep"
    /\ state["player"] = "ASleep" => ppc = "asleep"
    /\ dpc = "sleep" => state["decoder"] = "Sleep"
    /\ ppc = "sleep" => state["player"] = "Sleep"
    /\ state["decoder"] = "Sleep" => mpc = "halting" /\ mi = 1
    /\ state["player"] = "Sleep" => mpc = "halting" /\ mi = 2
    /\ mpc \in {"halting", "stopping", "restarting"} => mi \in 1 .. 2
    /\ mpc = "halting" /\ mi = 1 =>
           state["decoder"] \in {"Sleep", "ASleep", "Stand"}
    /\ mpc = "halting" /\ mi = 2 =>
           state["player"] \in {"Sleep", "ASleep", "Stand"}
    /\ mpc \in {"halt", "halting"} => /\ mi > 1 => Quiet("decoder", dpc)
                                      /\ mi > 2 => Quiet("player", ppc)
    /\ mpc = "reset" => Quiet("decoder", dpc) /\ Quiet("player", ppc)

(* The invariant of the places, with seeks.                                *)

(* A step of the decoder keeps it.                                         *)
LEMMA DecoderHalt ==
    ASSUME PlaceInv, HaltInv, DecoderNext
    PROVE  PlaceInv' /\ HaltInv'
<1>1. CASE DecoderStart
  BY <1>1
  DEF DecoderStart, Threads, DecoderNext, DecoderAt, SetState, WakeReader,
      mainVars,
      PlaceInv, HaltInv, Quiet, Locked, PthStates
<1>2. CASE DecoderClearEof
  BY <1>2
  DEF DecoderClearEof, DecoderNext, DecoderAt, SetState, WakeReader,
      mainVars, PlaceInv, HaltInv, Quiet, Locked, PthStates
<1>3. CASE DecoderTop
  BY <1>3
  DEF DecoderTop, DecoderNext, DecoderAt, SetState, WakeReader, mainVars,
      PlaceInv, HaltInv, Quiet, Locked, PthStates
<1>4. CASE DecoderSleep
  BY <1>4
  DEF DecoderSleep, Threads, DecoderNext, DecoderAt, SetState, WakeReader,
      mainVars,
      PlaceInv, HaltInv, Quiet, Locked, PthStates
<1>5. CASE DecoderWake
  BY <1>5
  DEF DecoderWake, DecoderNext, DecoderAt, SetState, WakeReader, mainVars,
      PlaceInv, HaltInv, Quiet, Locked, PthStates
<1>6. CASE DecoderFree
  BY <1>6
  DEF DecoderFree, DecoderNext, DecoderAt, SetState, WakeReader, mainVars,
      PlaceInv, HaltInv, Quiet, Locked, PthStates
<1>7. CASE DecoderWrapLen
  BY <1>7
  DEF DecoderWrapLen, DecoderNext, DecoderAt, SetState, WakeReader,
      mainVars, PlaceInv, HaltInv, Quiet, Locked, PthStates
<1>8. CASE DecoderWrapHead
  BY <1>8
  DEF DecoderWrapHead, DecoderNext, DecoderAt, SetState, WakeReader,
      mainVars, PlaceInv, HaltInv, Quiet, Locked, PthStates
<1>9. CASE DecoderRoom
  BY <1>9
  DEF DecoderRoom, DecoderNext, DecoderAt, SetState, WakeReader, mainVars,
      PlaceInv, HaltInv, Quiet, Locked, PthStates
<1>10. CASE DecoderHowMuch
  BY <1>10
  DEF DecoderHowMuch, DecoderNext, DecoderAt, SetState, WakeReader,
      mainVars, PlaceInv, HaltInv, Quiet, Locked, PthStates
<1>11. CASE DecoderDecode
  BY <1>11
  DEF DecoderDecode, DecoderNext, DecoderAt, SetState, WakeReader, mainVars,
      PlaceInv, HaltInv, Quiet, Locked, PthStates
<1>12. CASE DecoderBound
  BY <1>12
  DEF DecoderBound, DecoderNext, DecoderAt, SetState, WakeReader, mainVars,
      PlaceInv, HaltInv, Quiet, Locked, PthStates
<1>13. CASE DecoderLimit
  BY <1>13
  DEF DecoderLimit, DecoderNext, DecoderAt, SetState, WakeReader, mainVars,
      PlaceInv, HaltInv, Quiet, Locked, PthStates
<1>14. CASE DecoderRun
  BY <1>14
  DEF DecoderRun, DecoderNext, DecoderAt, SetState, WakeReader, mainVars,
      PlaceInv, HaltInv, Quiet, Locked, PthStates
<1>15. CASE DecoderRunEnd
  BY <1>15
  DEF DecoderRunEnd, DecoderNext, DecoderAt, SetState, WakeReader, mainVars,
      PlaceInv, HaltInv, Quiet, Locked, PthStates
<1>16. CASE DecoderSetEof
  BY <1>16
  DEF DecoderSetEof, DecoderNext, DecoderAt, SetState, WakeReader, mainVars,
      PlaceInv, HaltInv, Quiet, Locked, PthStates
<1>17. CASE DecoderBroadcast
  BY <1>17
  DEF DecoderBroadcast, DecoderNext, DecoderAt, SetState, WakeReader,
      mainVars, PlaceInv, HaltInv, Quiet, Locked, PthStates
<1>18. CASE DecoderLen
  BY <1>18
  DEF DecoderLen, DecoderNext, DecoderAt, SetState, WakeReader, mainVars,
      PlaceInv, HaltInv, Quiet, Locked, PthStates
<1>19. CASE DecoderFullLap
  BY <1>19
  DEF DecoderFullLap, DecoderNext, DecoderAt, SetState, WakeReader,
      mainVars, PlaceInv, HaltInv, Quiet, Locked, PthStates
<1>20. CASE DecoderSignal
  BY <1>20
  DEF DecoderSignal, DecoderNext, DecoderAt, SetState, WakeReader, mainVars,
      PlaceInv, HaltInv, Quiet, Locked, PthStates
<1>21. CASE DecoderAlmostEmpty
  BY <1>21
  DEF DecoderAlmostEmpty, DecoderNext, DecoderAt, SetState, WakeReader,
      mainVars, PlaceInv, HaltInv, Quiet, Locked, PthStates
<1>22. CASE DecoderIdle
  BY <1>22
  DEF DecoderIdle, DecoderNext, DecoderAt, SetState, WakeReader, mainVars,
      PlaceInv, HaltInv, Quiet, Locked, PthStates
<1>23. CASE DecoderExit
  BY <1>23
  DEF DecoderExit, Threads, DecoderNext, DecoderAt, SetState, WakeReader,
      mainVars,
      PlaceInv, HaltInv, Quiet, Locked, PthStates
<1> QED
  BY <1>1, <1>2, <1>3, <1>4, <1>5, <1>6, <1>7, <1>8, <1>9, <1>10, <1>11,
     <1>12, <1>13, <1>14, <1>15, <1>16, <1>17, <1>18, <1>19, <1>20, <1>21,
     <1>22, <1>23
  DEF DecoderNext, DecoderStep

(* A step of the player keeps it.                                          *)
LEMMA PlayerHalt ==
    ASSUME PlaceInv, HaltInv, PlayerNext
    PROVE  PlaceInv' /\ HaltInv'
<1>1. CASE PlayerStart
  BY <1>1
  DEF PlayerStart, Threads, PlayerNext, PlayerAt, SetState, decVars, mainVars,
      PlaceInv, HaltInv, Quiet, Locked, PthStates
<1>2. CASE PlayerTop
  BY <1>2
  DEF PlayerTop, PlayerNext, PlayerAt, SetState, decVars, mainVars,
      PlaceInv, HaltInv, Quiet, Locked, PthStates
<1>3. CASE PlayerSleep
  BY <1>3
  DEF PlayerSleep, Threads, PlayerNext, PlayerAt, SetState, decVars, mainVars,
      PlaceInv, HaltInv, Quiet, Locked, PthStates
<1>4. CASE PlayerWake
  BY <1>4
  DEF PlayerWake, PlayerNext, PlayerAt, SetState, decVars, mainVars,
      PlaceInv, HaltInv, Quiet, Locked, PthStates
<1>5. CASE PlayerDecore
  BY <1>5
  DEF PlayerDecore, PlayerNext, PlayerAt, SetState, decVars, mainVars,
      PlaceInv, HaltInv, Quiet, Locked, PthStates
<1>6. CASE PlayerLock
  BY <1>6
  DEF PlayerLock, PlayerNext, PlayerAt, SetState, decVars, mainVars,
      PlaceInv, HaltInv, Quiet, Locked, PthStates
<1>7. CASE PlayerLoop
  BY <1>7
  DEF PlayerLoop, PlayerNext, PlayerAt, SetState, decVars, mainVars,
      PlaceInv, HaltInv, Quiet, Locked, PthStates
<1>8. CASE PlayerTestEof
  BY <1>8
  DEF PlayerTestEof, PlayerNext, PlayerAt, SetState, decVars, mainVars,
      PlaceInv, HaltInv, Quiet, Locked, PthStates
<1>9. CASE PlayerWait
  BY <1>9
  DEF PlayerWait, PlayerNext, PlayerAt, SetState, decVars, mainVars,
      PlaceInv, HaltInv, Quiet, Locked, PthStates
<1>10. CASE PlayerRelock
  BY <1>10
  DEF PlayerRelock, PlayerNext, PlayerAt, SetState, decVars, mainVars,
      PlaceInv, HaltInv, Quiet, Locked, PthStates
<1>11. CASE PlayerSpan
  BY <1>11
  DEF PlayerSpan, PlayerNext, PlayerAt, SetState, decVars, mainVars,
      PlaceInv, HaltInv, Quiet, Locked, PthStates
<1>12. CASE PlayerSpanEnd
  BY <1>12
  DEF PlayerSpanEnd, PlayerNext, PlayerAt, SetState, decVars, mainVars,
      PlaceInv, HaltInv, Quiet, Locked, PthStates
<1>13. CASE PlayerCopy
  BY <1>13
  DEF PlayerCopy, PlayerNext, PlayerAt, SetState, decVars, mainVars,
      PlaceInv, HaltInv, Quiet, Locked, PthStates
<1>14. CASE PlayerTestEnd
  BY <1>14
  DEF PlayerTestEnd, PlayerNext, PlayerAt, SetState, decVars, mainVars,
      PlaceInv, HaltInv, Quiet, Locked, PthStates
<1>15. CASE PlayerRewind
  BY <1>15
  DEF PlayerRewind, PlayerNext, PlayerAt, SetState, decVars, mainVars,
      PlaceInv, HaltInv, Quiet, Locked, PthStates
<1>16. CASE PlayerReturn
  BY <1>16
  DEF PlayerReturn, PlayerNext, PlayerAt, SetState, decVars, mainVars,
      PlaceInv, HaltInv, Quiet, Locked, PthStates
<1>17. CASE PlayerResult
  BY <1>17
  DEF PlayerResult, PlayerNext, PlayerAt, SetState, decVars, mainVars,
      PlaceInv, HaltInv, Quiet, Locked, PthStates
<1>18. CASE PlayerPlayed
  BY <1>18
  DEF PlayerPlayed, PlayerNext, PlayerAt, SetState, decVars, mainVars,
      PlaceInv, HaltInv, Quiet, Locked, PthStates
<1>19. CASE PlayerExit
  BY <1>19
  DEF PlayerExit, Threads, PlayerNext, PlayerAt, SetState, decVars, mainVars,
      PlaceInv, HaltInv, Quiet, Locked, PthStates
<1> QED
  BY <1>1, <1>2, <1>3, <1>4, <1>5, <1>6, <1>7, <1>8, <1>9, <1>10, <1>11,
     <1>12, <1>13, <1>14, <1>15, <1>16, <1>17, <1>18, <1>19
  DEF PlayerNext, PlayerStep

(* A step of main keeps it.                                                *)
LEMMA MainHaltStep ==
    ASSUME PlaceInv, HaltInv,
           MainPlay \/ MainQuit \/ MainSeekKey \/ MainSeeking
    PROVE  PlaceInv' /\ HaltInv'
<1>1. CASE MainRunDecoder
  BY <1>1
  DEF MainRunDecoder, MainAt, SetState, Registered, Threads,
      buffer_and_stream, PlaceInv, HaltInv, Quiet, Locked, PthStates
<1>2. CASE MainRunPlayer
  BY <1>2
  DEF MainRunPlayer, MainAt, SetState, Registered, Threads,
      buffer_and_stream, PlaceInv, HaltInv, Quiet, Locked, PthStates
<1>3. CASE MainPlayerRuns
  BY <1>3
  DEF MainPlayerRuns, MainAt, SetState, Registered, Threads,
      buffer_and_stream, PlaceInv, HaltInv, Quiet, Locked, PthStates
<1>4. CASE MainAudioEof
  BY <1>4
  DEF MainAudioEof, MainAt, SetState, Registered, Threads,
      buffer_and_stream, PlaceInv, HaltInv, Quiet, Locked, PthStates
<1>5. CASE MainQuit
  BY <1>5
  DEF MainQuit, MainAt, SetState, Registered, Threads, buffer_and_stream,
      PlaceInv, HaltInv, Quiet, Locked, PthStates
<1>6. CASE MainStop
  BY <1>6
  DEF MainStop, MainAt, SetState, Registered, Threads, buffer_and_stream,
      PlaceInv, HaltInv, Quiet, Locked, PthStates
<1>7. CASE MainStopped
  BY <1>7
  DEF MainStopped, MainAt, SetState, Registered, Threads, buffer_and_stream,
      PlaceInv, HaltInv, Quiet, Locked, PthStates
<1>8. CASE MainUninit
  BY <1>8
  DEF MainUninit, MainAt, SetState, Registered, Threads, buffer_and_stream,
      PlaceInv, HaltInv, Quiet, Locked, PthStates
<1>9. CASE MainSeekKey
  BY <1>9
  DEF MainSeekKey, MainAt, SetState, Registered, Threads, buffer_and_stream,
      PlaceInv, HaltInv, Quiet, Locked, PthStates
<1>10. CASE MainHalt
  BY <1>10
  DEF MainHalt, MainAt, SetState, Registered, Threads, buffer_and_stream,
      PlaceInv, HaltInv, Quiet, Locked, PthStates
<1>11. CASE MainHalted
  BY <1>11
  DEF MainHalted, MainAt, SetState, Registered, Threads, buffer_and_stream,
      PlaceInv, HaltInv, Quiet, Locked, PthStates
<1>12. CASE MainSeek
  BY <1>12
  DEF MainSeek, MainAt, SetState, Registered, Threads, buffer_and_stream,
      PlaceInv, HaltInv, Quiet, Locked, PthStates
<1>13. CASE MainReset
  BY <1>13
  DEF MainReset, MainAt, SetState, Registered, Threads, buffer_and_stream,
      PlaceInv, HaltInv, Quiet, Locked, PthStates
<1>14. CASE MainRestart
  BY <1>14
  DEF MainRestart, MainAt, SetState, Registered, Threads, buffer_and_stream,
      PlaceInv, HaltInv, Quiet, Locked, PthStates
<1>15. CASE MainRestarted
  BY <1>15
  DEF MainRestarted, MainAt, SetState, Registered, Threads,
      buffer_and_stream, PlaceInv, HaltInv, Quiet, Locked, PthStates
<1>16. CASE MainResume
  BY <1>16
  DEF MainResume, MainAt, SetState, Registered, Threads, buffer_and_stream,
      PlaceInv, HaltInv, Quiet, Locked, PthStates
<1> QED
  BY <1>1, <1>2, <1>3, <1>4, <1>5, <1>6, <1>7, <1>8, <1>9, <1>10, <1>11,
     <1>12, <1>13, <1>14, <1>15, <1>16
  DEF MainPlay, MainSeeking

(* The invariant of playing with seeks, in every behaviour.                *)
THEOREM SeekInvariant == SeekSpec => [](PlaceInv /\ HaltInv)
<1>1. Init => PlaceInv /\ HaltInv
  BY DEF Init, PlaceInv, HaltInv, Quiet, Locked, Threads, PthStates
<1>2. PlaceInv /\ HaltInv /\ [SeekNext]_vars => (PlaceInv /\ HaltInv)'
  <2> SUFFICES ASSUME PlaceInv, HaltInv, [SeekNext]_vars
               PROVE  PlaceInv' /\ HaltInv'
    OBVIOUS
  <2>1. CASE DecoderNext
    BY <2>1, DecoderHalt
  <2>2. CASE PlayerNext
    BY <2>2, PlayerHalt
  <2>3. CASE MainPlay \/ MainQuit \/ MainSeekKey \/ MainSeeking
    BY <2>3, MainHaltStep
  <2>4. CASE UNCHANGED vars
    BY <2>4 DEF vars, bufVars, decVars, playVars, mainVars, PlaceInv, HaltInv,
       Quiet
  <2> QED  BY <2>1, <2>2, <2>3, <2>4 DEF SeekNext, PlayNext
<1> QED  BY <1>1, <1>2, PTL DEF SeekSpec

(* Main moves the demuxer and resets the ring with both threads asleep or  *)
(* gone, and nobody holds the lock of the reader.                          *)
THEOREM SeekSeekExclusive == SeekSpec => []SeekExclusive
<1>1. PlaceInv /\ HaltInv => SeekExclusive
  BY DEF PlaceInv, HaltInv, Quiet, Locked, SeekExclusive
<1> QED  BY <1>1, SeekInvariant, PTL

-----------------------------------------------------------------------------
(* The ring, while main only plays.                                        *)

(* All frames have one length, no more than audio_out_minsize; if just as  *)
(* much, two of them are no less than the reserve, which is one and a few  *)
(* bytes more.  With frames of several lengths laps would have, too, and   *)
(* the reader miss the end of one.                                         *)
Frame == CHOOSE c \in Chunks : TRUE
OneLength ==
    /\ Chunks = {Frame} /\ Frame <= MinSize
    /\ Frame < MinSize \/ MinReserv <= 2 * MinSize

(* A lap starts at 0 and ends at the first frame's end from Reach on.      *)
Reach == Size - MinReserv
Fits(x) == \E k \in Nat : x = k * Frame
LapEnd == CHOOSE e \in Nat : Fits(e) /\ Reach <= e /\ e < Reach + Frame

(* The least multiple of a number that is not below another.               *)
LEMMA Multiple ==
    ASSUME NEW c \in Nat \ {0}, NEW n \in Nat
    PROVE  \E k \in Nat : n <= k * c /\ k * c < n + c
<1> DEFINE q == (n + c - 1) \div c
           r == (n + c - 1) % c
<1>1. q \in Nat /\ r \in 0 .. c - 1
  BY SMT
<1>2. n + c - 1 = q * c + r
  BY SMT
<1>3. q * c \in Nat
  BY <1>1, SMT
<1>4. n <= q * c /\ q * c < n + c
  <2> DEFINE p == q * c
  <2>1. p \in Nat /\ n + c - 1 = p + r
    BY <1>2, <1>3
  <2> HIDE DEF p, q, r
  <2>2. n <= p /\ p < n + c
    BY <1>1, <2>1
  <2> QED  BY <2>2 DEF p
<1> QED  BY <1>1, <1>4

(* Multiples are as far apart.                                             *)
LEMMA MultipleNext ==
    ASSUME NEW c \in Nat \ {0}, NEW j \in Nat, NEW k \in Nat, j * c < k * c
    PROVE  j * c + c <= k * c
<1>1. j < k
  <2> SUFFICES ASSUME k <= j PROVE k * c <= j * c
    BY SMT
  <2> QED  BY SMT
<1>2. (j + 1) * c <= k * c
  BY <1>1, SMT
<1> QED  BY <1>2, SMT

(* The numbers of the assumption, and where a lap may be broken off.       *)
LEMMA Sizes ==
    ASSUME OneLength
    PROVE  /\ Size \in Nat /\ MinSize \in Nat /\ Outburst \in Nat
           /\ MinReserv \in Nat /\ FileUnits \in Nat
           /\ Frame \in Nat \ {0} /\ Frame <= MinSize /\ MinSize <= MinReserv
           /\ Chunks = {Frame}
           /\ Frame < MinSize \/ MinReserv <= 2 * MinSize
           /\ Reach \in Nat /\ Size = Reach + MinReserv
           /\ 3 * MinSize <= Reach /\ 3 * Outburst <= Reach
<1>1. /\ Size \in Nat /\ MinSize \in Nat /\ Outburst \in Nat
      /\ FrameSize \in Nat /\ Reserv \in Nat /\ FileUnits \in Nat
      /\ 0 < MinSize /\ MinSize <= FrameSize
      /\ Size >= 3 * MinSize + MinReserv /\ Size >= 3 * Outburst + MinReserv
      /\ Chunks \subseteq 1 .. FrameSize
  BY SizesAssumption
<1>2. Chunks = {Frame} /\ Frame <= MinSize
      /\ (Frame < MinSize \/ MinReserv <= 2 * MinSize)
  BY DEF OneLength
<1>3. MinReserv = FrameSize + Reserv
  BY DEF MinReserv
<1>4. Frame \in 1 .. FrameSize
  BY <1>1, <1>2
<1> QED  BY <1>1, <1>2, <1>3, <1>4 DEF Reach

(* A lap ends at the first whole frame that reaches its last part.         *)
LEMMA LapEndIs ==
    ASSUME OneLength
    PROVE  /\ LapEnd \in Nat /\ Reach <= LapEnd /\ LapEnd < Reach + Frame
           /\ Fits(0)
           /\ \A x \in Nat : Fits(x) /\ x < LapEnd =>
                  Fits(x + Frame) /\ x + Frame <= LapEnd
<1>1. Frame \in Nat \ {0} /\ Reach \in Nat
  BY Sizes
<1>2. \E e \in Nat : Fits(e) /\ Reach <= e /\ e < Reach + Frame
  <2>1. PICK k \in Nat : Reach <= k * Frame /\ k * Frame < Reach + Frame
    BY <1>1, Multiple
  <2>2. k * Frame \in Nat
    BY <1>1, SMT
  <2> QED  BY <2>1, <2>2 DEF Fits
<1>3. /\ LapEnd \in Nat /\ Fits(LapEnd)
      /\ Reach <= LapEnd /\ LapEnd < Reach + Frame
  BY <1>2 DEF LapEnd
<1>4. Fits(0)
  <2>1. 0 = 0 * Frame
    BY <1>1, SMT
  <2> QED  BY <2>1 DEF Fits
<1>5. ASSUME NEW x \in Nat, Fits(x), x < LapEnd
      PROVE  Fits(x + Frame) /\ x + Frame <= LapEnd
  <2>1. PICK j \in Nat : x = j * Frame
    BY <1>5 DEF Fits
  <2>2. PICK k \in Nat : LapEnd = k * Frame
    BY <1>3 DEF Fits
  <2>3. j * Frame + Frame <= k * Frame
    BY <1>1, <1>5, <2>1, <2>2, MultipleNext
  <2>4. x + Frame = (j + 1) * Frame
    BY <1>1, <2>1, SMT
  <2> QED  BY <2>1, <2>2, <2>3, <2>4 DEF Fits
<1> QED  BY <1>3, <1>4, <1>5

(* The decoder is in the lap after the reader's.                           *)
Behind == head < tail

NumTypes ==
    /\ head \in 0 .. LapEnd /\ len \in 0 .. Size /\ tail \in 0 .. len
    /\ pos \in 0 .. FileUnits /\ want \in 0 .. Size /\ room \in 0 .. Size

(* A lap that was decoded to its end is as long as the others.             *)
LapInv ==
    /\ head <= len
    /\ LapEnd <= len \/ pos = FileUnits
    /\ Fits(head) \/ pos = FileUnits
    /\ Behind => head < Reach /\ len <= LapEnd

Wrapping == {"free_len", "free_head", "dec_len", "dec_head"}

(* The room the decoder has found is still there, and it never takes the   *)
(* last of it: a full ring would be taken for an empty one.                *)
RoomInv ==
    /\ dpc = "used" =>
          MinSize <= room /\ (tail <= head /\ Reach <= head => room <= tail)
    /\ dpc \in {"used", "dec"} /\ Behind => MinReserv + MinSize <= tail - head
    /\ dpc \in {"dec", "dec_len", "dec_head", "dec_bound", "dec_room"} =>
          MinSize <= want
    /\ dpc \in {"dec", "dec_len", "dec_head"} =>
          (tail <= head /\ Reach <= head => want <= tail /\ MinSize < tail)
    /\ dpc \in Wrapping => 0 < tail /\ tail <= head /\ Reach <= head
    /\ dpc \in {"free_head", "dec_head"} => len = head
    /\ dpc = "dec_bound" =>
          head = 0 /\ (0 < tail => want <= tail /\ MinSize < tail)
    /\ dpc = "dec_room" => head < Reach
    /\ dpc = "dec_room" /\ Behind =>
          \/ MinReserv + MinSize <= tail - head
          \/ head = 0 /\ want <= tail /\ MinSize < tail
    /\ dpc = "run" => head + room <= Size
    /\ dpc = "run" /\ MinSize <= want /\ pos < FileUnits =>
          /\ \/ head + want <= Reach
             \/ want < MinSize + Frame /\ head < Reach
          /\ want - MinSize + Frame <= room
          /\ Behind => \/ head + want - MinSize + Frame < tail
                       \/ want < MinSize + Frame /\ head + Frame < tail

\* Inside of read_audio_buffer.
Reading == Locked \cup {"blocked", "relock"}

(* What the player is about to copy is there.                              *)
ReadInv ==
    /\ ask \in Nat \X Nat /\ ask[1] <= ask[2] /\ got \in Nat
    /\ span \in 0 .. Size
    /\ ppc \in Reading => got <= ask[2]
    /\ ppc \in {"span", "span_end"} => got < ask[1]
    /\ ppc = "span" => tail # head
    /\ ppc = "span_end" => Behind
    /\ ppc = "copy" => /\ 0 < span /\ got + span <= ask[2]
                       /\ span <= (IF Behind THEN len ELSE head) - tail
    /\ ppc = "rewind" => tail = len

NumInv == NumTypes /\ LapInv /\ RoomInv /\ ReadInv

Busy == {"used", "dec", "dec_len", "dec_head", "dec_bound", "dec_room", "run",
         "free_len", "free_head"}

(* Where the decoder has found nothing yet, or is done.                    *)
LEMMA DecoderPlain ==
    ASSUME NumInv, UNCHANGED <<head, tail, len, pos, ask, got, span>>,
           want' \in 0 .. Size, room' \in 0 .. Size,
           dpc' \notin Busy,
           ppc' = ppc \/ (ppc = "blocked" /\ ppc' = "relock")
    PROVE  NumInv'
  BY DEF NumInv, NumTypes, LapInv, RoomInv, ReadInv, Reading, Locked, Behind,
     Busy, Wrapping

(* A frame is decoded: whole, unless the stream ends in it, within the     *)
(* lap, and before the reader's place if that is in the last lap.          *)
LEMMA RunFrame ==
    ASSUME OneLength, NumTypes, LapInv, RoomInv, DecoderRun
    PROVE  \E ret \in 0 .. Frame :
             /\ head' = head + ret /\ pos' = pos + ret
             /\ want' = Larger(want - ret, 0) /\ room' = room - ret
             /\ ret = Frame \/ pos' = FileUnits
             /\ dpc = "run" /\ dpc' \in {"run", "len"}
             /\ MinSize <= want /\ Frame <= room
             /\ pos < FileUnits /\ pos' <= FileUnits
             /\ Fits(head) /\ head < Reach /\ head + Frame <= LapEnd
             /\ Behind => head + Frame < tail
             /\ cell' = [i \in 0 .. Size - 1 |->
                          IF i \in head .. head + ret - 1
                          THEN pos + 1 + i - head ELSE cell[i]]
<1>0. /\ LapEnd \in Nat /\ Reach <= LapEnd /\ head \in Nat
      /\ \A x \in Nat : Fits(x) /\ x < LapEnd => x + Frame <= LapEnd
  BY LapEndIs DEF NumTypes
<1>1. dpc = "run" /\ MinSize <= want /\ pos < FileUnits
  BY DEF DecoderRun
<1>2. Fits(head) /\ head < Reach /\ (Behind => head + Frame < tail)
      /\ Frame <= room
  BY <1>0, <1>1, Sizes DEF LapInv, RoomInv, NumTypes
<1>3. head + Frame <= LapEnd
  BY <1>0, <1>2, Sizes
<1> DEFINE r == Smaller(Frame, Smaller(room, FileUnits - pos))
<1>4. r \in 0 .. Frame /\ (r = Frame \/ pos + r = FileUnits)
      /\ pos + r <= FileUnits
  BY <1>1, <1>2, Sizes DEF Smaller, NumTypes
<1>5. /\ head' = head + r /\ pos' = pos + r
      /\ want' = Larger(want - r, 0) /\ room' = room - r
      /\ dpc' \in {"run", "len"}
      /\ cell' = [i \in 0 .. Size - 1 |->
                   IF i \in head .. head + r - 1
                   THEN pos + 1 + i - head ELSE cell[i]]
  BY Sizes DEF DecoderRun
<1> HIDE DEF r
<1> QED  BY <1>1, <1>2, <1>3, <1>4, <1>5

(* Decoding a frame keeps what the numbers are.                            *)
LEMMA RunNum ==
    ASSUME OneLength, NumTypes, LapInv, RoomInv, ReadInv, DecoderRun,
           UNCHANGED <<ask, got, span>>
    PROVE  NumInv'
<1>1. PICK ret \in 0 .. Frame :
             /\ head' = head + ret /\ pos' = pos + ret
             /\ want' = Larger(want - ret, 0) /\ room' = room - ret
             /\ ret = Frame \/ pos' = FileUnits
             /\ dpc = "run" /\ dpc' \in {"run", "len"}
             /\ MinSize <= want /\ Frame <= room
             /\ pos < FileUnits /\ pos' <= FileUnits
             /\ Fits(head) /\ head < Reach /\ head + Frame <= LapEnd
             /\ Behind => head + Frame < tail
  BY RunFrame
<1>2. /\ LapEnd \in Nat /\ LapEnd < Reach + Frame
      /\ \A x \in Nat : Fits(x) /\ x < LapEnd =>
             Fits(x + Frame) /\ x + Frame <= LapEnd
  BY LapEndIs
<1>3. UNCHANGED <<tail, len, ppc>>
  BY DEF DecoderRun
<1>4. /\ head \in Nat /\ tail \in Nat /\ pos \in Nat /\ room \in Nat
      /\ want \in Nat /\ len \in Nat
  BY LapEndIs, Sizes DEF NumTypes
<1>5. Fits(head + Frame)
  BY <1>1, <1>2, <1>4, Sizes
<1>6. Behind => head + Frame < Reach
  BY <1>1, <1>2, <1>4, <1>5, Sizes DEF LapInv, Behind, NumTypes
<1>7. Behind' <=> Behind
  BY <1>1, <1>3, <1>4, Sizes DEF Behind
<1>9. NumTypes'
  BY <1>1, <1>2, <1>3, <1>4, Sizes DEF NumTypes, Larger
<1>10. LapInv'
  BY <1>1, <1>2, <1>3, <1>4, <1>5, <1>6, <1>7, Sizes DEF NumTypes, LapInv
<1>11. RoomInv'
  <2>1. head' + room' <= Size
    BY <1>1, <1>4, Sizes DEF RoomInv
  <2>2. ASSUME MinSize <= want', pos' < FileUnits
        PROVE  /\ head' = head + Frame /\ want' = want - Frame
               /\ room' = room - Frame /\ MinSize <= want - Frame
    BY <1>1, <1>4, <2>2, Sizes DEF Larger, NumTypes
  <2>3. ASSUME MinSize <= want', pos' < FileUnits
        PROVE  /\ head' + want' <= Reach
               /\ want' - MinSize + Frame <= room'
               /\ Behind => head' + want' - MinSize + Frame < tail
    <3>1. /\ head' = head + Frame /\ want' = want - Frame
          /\ room' = room - Frame /\ MinSize <= want - Frame
      BY <2>2, <2>3
    <3>2. /\ head + want <= Reach /\ want - MinSize + Frame <= room
          /\ Behind => head + want - MinSize + Frame < tail
      BY <1>1, <1>4, <2>3, <3>1, Sizes DEF RoomInv, NumTypes
    <3> QED  BY <1>1, <1>4, <3>1, <3>2, Sizes
  <2> QED  BY <1>1, <1>3, <1>7, <2>1, <2>3 DEF RoomInv, Wrapping
<1>12. ReadInv'
  BY <1>1, <1>3, <1>4, <1>7, Sizes DEF ReadInv, Behind, NumTypes
<1> QED  BY <1>9, <1>10, <1>11, <1>12 DEF NumInv

(* A step of the decoder keeps what the numbers are.                       *)
LEMMA DecoderNum ==
    ASSUME OneLength, NumInv, mpc # "done", DecoderNext
    PROVE  NumInv'
<1> USE DEF DecoderAt, WakeReader
<1>a. /\ UNCHANGED <<ask, got, span>>
      /\ want \in 0 .. Size /\ room \in 0 .. Size
      /\ Size \in Nat
  BY Sizes DEF DecoderNext, NumInv, NumTypes
<1>b. /\ LapEnd \in Nat /\ Reach <= LapEnd /\ LapEnd < Reach + Frame
      /\ Fits(0)
  BY LapEndIs
<1>1. CASE DecoderStart
  BY <1>1, <1>a, DecoderPlain DEF DecoderStart, bufVars, Busy
<1>2. CASE DecoderClearEof
  BY <1>2, <1>a, DecoderPlain DEF DecoderClearEof, bufVars, Busy
<1>3. CASE DecoderTop
  BY <1>3, <1>a, DecoderPlain DEF DecoderTop, bufVars, Busy
<1>4. CASE DecoderSleep
  BY <1>4, <1>a, DecoderPlain DEF DecoderSleep, bufVars, Busy
<1>5. CASE DecoderWake
  BY <1>5, <1>a, DecoderPlain DEF DecoderWake, bufVars, Busy
<1>6. CASE DecoderFree
  <2>1. CASE dpc' \in {"idle", "free_room"}
    BY <1>6, <2>1, <1>a, DecoderPlain DEF DecoderFree, bufVars, Busy
  <2>2. CASE dpc' = "free_len"
    BY <1>6, <2>2, <1>a, <1>b, LapEndIs, Sizes
    DEF DecoderFree, bufVars, NumInv, NumTypes, LapInv, RoomInv, ReadInv,
        Behind, Wrapping
  <2> QED  BY <1>6, <2>1, <2>2 DEF DecoderFree
<1>7. CASE DecoderWrapLen
  BY <1>7, <1>a, <1>b, Sizes, LapEndIs
  DEF DecoderWrapLen, NumInv, NumTypes, LapInv, RoomInv, ReadInv, Reading,
      Locked, Behind, Wrapping
<1>8. CASE DecoderWrapHead
  BY <1>8, <1>a, <1>b, Sizes
  DEF DecoderWrapHead, NumInv, NumTypes, LapInv, RoomInv, ReadInv, Reading,
      Locked, Behind, Wrapping
<1>9. CASE DecoderRoom
  BY <1>9, <1>a, <1>b, Sizes
  DEF DecoderRoom, bufVars, NumInv, NumTypes, LapInv, RoomInv, ReadInv,
      Behind, Wrapping
<1>10. CASE DecoderHowMuch
  BY <1>10, <1>a, <1>b, Sizes
  DEF DecoderHowMuch, Used, Larger, bufVars, NumInv, NumTypes, LapInv,
      RoomInv, ReadInv, Reading, Locked, Behind, Wrapping
<1>11. CASE DecoderDecode
  BY <1>11, <1>a, <1>b, Sizes
  DEF DecoderDecode, bufVars, NumInv, NumTypes, LapInv, RoomInv, ReadInv,
      Behind, Wrapping
<1>12. CASE DecoderBound
  BY <1>12, <1>a, <1>b, Sizes
  DEF DecoderBound, UMin, Smaller, bufVars, NumInv, NumTypes, LapInv,
      RoomInv, ReadInv, Reading, Locked, Behind, Wrapping
<1>13. CASE DecoderLimit
  BY <1>13, <1>a, <1>b, Sizes
  DEF DecoderLimit, UMin, Smaller, Larger, bufVars, NumInv, NumTypes,
      LapInv, RoomInv, ReadInv, Reading, Locked, Behind, Wrapping
<1>14. CASE DecoderRun
  BY <1>14, <1>a, RunNum DEF NumInv
<1>15. CASE DecoderRunEnd
  BY <1>15, <1>a, DecoderPlain DEF DecoderRunEnd, bufVars, Busy
<1>16. CASE DecoderSetEof
  BY <1>16, <1>a, DecoderPlain DEF DecoderSetEof, bufVars, Busy
<1>17. CASE DecoderBroadcast
  BY <1>17, <1>a, DecoderPlain DEF DecoderBroadcast, bufVars, Busy
<1>18. CASE DecoderLen
  <2>1. len' = len
    BY <1>18, <1>b, Sizes DEF DecoderLen, Larger, NumInv, NumTypes, LapInv
  <2> QED  BY <1>18, <2>1, <1>a, DecoderPlain DEF DecoderLen, bufVars, Busy
<1>19. CASE DecoderFullLap
  <2>1. head' = head
    BY <1>19, <1>b, Sizes DEF DecoderFullLap, NumInv, NumTypes, LapInv
  <2> QED  BY <1>19, <2>1, <1>a, DecoderPlain DEF DecoderFullLap, bufVars, Busy
<1>20. CASE DecoderSignal
  BY <1>20, <1>a, DecoderPlain DEF DecoderSignal, bufVars, Busy
<1>21. CASE DecoderAlmostEmpty
  BY <1>21, <1>a, DecoderPlain DEF DecoderAlmostEmpty, bufVars, Busy
<1>22. CASE DecoderIdle
  BY <1>22, <1>a, DecoderPlain DEF DecoderIdle, bufVars, Busy
<1>23. CASE DecoderExit
  BY <1>23, <1>a, DecoderPlain DEF DecoderExit, bufVars, Busy
<1> QED
  BY <1>1, <1>2, <1>3, <1>4, <1>5, <1>6, <1>7, <1>8, <1>9, <1>10, <1>11,
     <1>12, <1>13, <1>14, <1>15, <1>16, <1>17, <1>18, <1>19, <1>20, <1>21,
     <1>22, <1>23
  DEF DecoderNext, DecoderStep

(* Where the player has nothing in hand.                                   *)
LEMMA PlayerPlain ==
    ASSUME NumInv,
           UNCHANGED <<head, tail, len, pos, want, room, dpc, span>>,
           ppc' \notin {"span", "span_end", "copy", "rewind"},
           ask' \in Nat \X Nat, ask'[1] <= ask'[2], got' \in Nat,
           ppc' \in Reading => got' <= ask'[2]
    PROVE  NumInv'
  BY DEF NumInv, NumTypes, LapInv, RoomInv, ReadInv, Behind, Wrapping

(* The reader goes on in its lap.                                          *)
LEMMA TailOn ==
    ASSUME OneLength, NumTypes, LapInv, RoomInv, NEW t \in Nat, tail <= t,
           t <= IF Behind THEN len ELSE head, tail' = t,
           UNCHANGED <<head, len, pos, want, room, dpc>>
    PROVE  NumTypes' /\ LapInv' /\ RoomInv' /\ (Behind' <=> Behind)
<1>0. /\ LapEnd \in Nat /\ head \in Nat /\ tail \in Nat /\ len \in Nat
      /\ head <= len
  BY LapEndIs, Sizes DEF NumTypes, LapInv
<1>1. Behind' <=> Behind
  BY <1>0 DEF Behind
<1>2. NumTypes' /\ LapInv'
  BY <1>0, <1>1, Sizes DEF NumTypes, LapInv
<1>3. RoomInv'
  BY <1>0, <1>1, Sizes DEF RoomInv, Behind, Wrapping, NumTypes
<1> QED  BY <1>1, <1>2, <1>3

(* The reader starts the next lap.                                         *)
LEMMA TailBack ==
    ASSUME OneLength, NumTypes, LapInv, RoomInv, Behind, tail' = 0,
           UNCHANGED <<head, len, pos, want, room, dpc>>
    PROVE  NumTypes' /\ LapInv' /\ RoomInv' /\ ~Behind'
<1>0. /\ LapEnd \in Nat /\ head \in Nat /\ tail \in Nat /\ len \in Nat
      /\ head < tail /\ head < Reach
  BY LapEndIs, Sizes DEF NumTypes, LapInv, Behind
<1>1. ~Behind'
  BY <1>0 DEF Behind
<1>2. NumTypes' /\ LapInv'
  BY <1>0, <1>1, Sizes DEF NumTypes, LapInv
<1>3. RoomInv'
  BY <1>0, <1>1, Sizes DEF RoomInv, Wrapping
<1> QED  BY <1>1, <1>2, <1>3

(* A step of the player keeps what the numbers are.                        *)
LEMMA PlayerNum ==
    ASSUME OneLength, NumInv, PlayerNext
    PROVE  NumInv'
<1> USE DEF PlayerAt
<1>a. /\ UNCHANGED <<head, len, pos, want, room, dpc>>
      /\ ask \in Nat \X Nat /\ ask[1] <= ask[2] /\ got \in Nat
      /\ ppc \in Reading => got <= ask[2]
  BY DEF PlayerNext, decVars, NumInv, ReadInv
<1>b. /\ LapEnd \in Nat /\ head \in Nat /\ tail \in Nat /\ len \in Nat
      /\ head <= len /\ tail <= len /\ len <= Size /\ Size \in Nat
  BY LapEndIs, Sizes DEF NumInv, NumTypes, LapInv
<1>1. CASE PlayerStart
  BY <1>1, <1>a, PlayerPlain DEF PlayerStart, Reading, Locked
<1>2. CASE PlayerTop
  BY <1>2, <1>a, PlayerPlain DEF PlayerTop, Reading, Locked
<1>3. CASE PlayerSleep
  BY <1>3, <1>a, PlayerPlain DEF PlayerSleep, Reading, Locked
<1>4. CASE PlayerWake
  BY <1>4, <1>a, PlayerPlain DEF PlayerWake, Reading, Locked
<1>5. CASE PlayerDecore
  <2>1. ask' \in Nat \X Nat /\ ask'[1] <= ask'[2]
    BY <1>5, <1>a, SizesAssumption DEF PlayerDecore
  <2> QED  BY <1>5, <1>a, <2>1, PlayerPlain DEF PlayerDecore, Reading, Locked
<1>6. CASE PlayerLock
  BY <1>6, <1>a, PlayerPlain DEF PlayerLock
<1>7. CASE PlayerLoop
  <2>1. CASE ppc' \in {"return", "test_eof"}
    BY <1>7, <1>a, <2>1, PlayerPlain DEF PlayerLoop, Reading, Locked
  <2>2. CASE ppc' = "span"
    BY <1>7, <1>a, <2>2, Zenon, SMT
    DEF PlayerLoop, NumInv, NumTypes, LapInv, RoomInv, ReadInv, Behind,
        Reading, Locked
  <2> QED  BY <1>7, <2>1, <2>2 DEF PlayerLoop
<1>8. CASE PlayerTestEof
  BY <1>8, <1>a, PlayerPlain DEF PlayerTestEof, Reading, Locked
<1>9. CASE PlayerWait
  BY <1>9, <1>a, PlayerPlain DEF PlayerWait, Reading, Locked
<1>10. CASE PlayerRelock
  BY <1>10, <1>a, PlayerPlain DEF PlayerRelock, Reading, Locked
<1>11. CASE PlayerSpan
  <2>1. UNCHANGED <<tail, ask, got>>
    BY <1>11 DEF PlayerSpan
  <2>2. NumTypes' /\ LapInv' /\ RoomInv' /\ (Behind' <=> Behind)
    BY <1>a, <1>b, <2>1, TailOn DEF NumInv, Behind
  <2>3. ReadInv'
    BY <1>11, <1>a, <1>b, <2>1, <2>2
    DEF PlayerSpan, NumInv, ReadInv, Behind, Smaller, Reading, Locked
  <2> QED  BY <2>2, <2>3 DEF NumInv
<1>12. CASE PlayerSpanEnd
  <2>1. UNCHANGED <<tail, ask, got>>
    BY <1>12 DEF PlayerSpanEnd
  <2>2. NumTypes' /\ LapInv' /\ RoomInv' /\ (Behind' <=> Behind)
    BY <1>a, <1>b, <2>1, TailOn DEF NumInv, Behind
  <2>3. ReadInv'
    BY <1>12, <1>a, <1>b, <2>1, <2>2
    DEF PlayerSpanEnd, NumInv, ReadInv, Behind, Smaller, UMin, Reading, Locked
  <2> QED  BY <2>2, <2>3 DEF NumInv
<1>13. CASE PlayerCopy
  <2>1. /\ UNCHANGED ask /\ tail' = tail + span /\ span' = 0
        /\ got' = got + span /\ span \in Nat /\ got + span <= ask[2]
        /\ span <= (IF Behind THEN len ELSE head) - tail /\ ppc' = "test_end"
    BY <1>13 DEF PlayerCopy, NumInv, ReadInv
  <2>2. NumTypes' /\ LapInv' /\ RoomInv' /\ (Behind' <=> Behind)
    <3>1. /\ tail + span \in Nat /\ tail <= tail + span
          /\ tail + span <= IF Behind THEN len ELSE head
      BY <1>b, <2>1
    <3> QED  BY <1>a, <2>1, <3>1, TailOn DEF NumInv
  <2>3. ReadInv'
    BY <1>a, <1>b, <2>1 DEF ReadInv
  <2> QED  BY <2>2, <2>3 DEF NumInv
<1>14. CASE PlayerTestEnd
  <2>1. UNCHANGED <<tail, ask, got, span>>
    BY <1>14 DEF PlayerTestEnd
  <2>2. NumTypes' /\ LapInv' /\ RoomInv' /\ (Behind' <=> Behind)
    BY <1>a, <1>b, <2>1, TailOn DEF NumInv, Behind
  <2>3. ReadInv'
    BY <1>14, <1>a, <1>b, <2>1, <2>2
    DEF PlayerTestEnd, NumInv, ReadInv, Reading, Locked
  <2> QED  BY <2>2, <2>3 DEF NumInv
<1>15. CASE PlayerRewind
  <2>1. UNCHANGED <<ask, got, span>> /\ ppc' = "loop" /\ tail = len
    BY <1>15 DEF PlayerRewind, NumInv, ReadInv
  <2>2. NumTypes' /\ LapInv' /\ RoomInv'
    <3>1. CASE tail = head
      <4>1. tail' = tail
        BY <1>15, <3>1 DEF PlayerRewind
      <4> QED  BY <1>a, <1>b, <4>1, TailOn DEF NumInv, Behind
    <3>2. CASE tail # head
      BY <1>15, <1>a, <1>b, <2>1, <3>2, TailBack
      DEF PlayerRewind, NumInv, Behind
    <3> QED  BY <3>1, <3>2
  <2>3. ReadInv'
    BY <1>15, <1>a, <2>1 DEF PlayerRewind, NumInv, ReadInv, Reading, Locked
  <2> QED  BY <2>2, <2>3 DEF NumInv
<1>16. CASE PlayerReturn
  BY <1>16, <1>a, PlayerPlain DEF PlayerReturn, Reading, Locked
<1>17. CASE PlayerResult
  <2>1. ask' \in Nat \X Nat /\ ask'[1] <= ask'[2]
    BY <1>17, <1>a DEF PlayerResult
  <2> QED  BY <1>17, <1>a, <2>1, PlayerPlain DEF PlayerResult, Reading, Locked
<1>18. CASE PlayerPlayed
  BY <1>18, <1>a, PlayerPlain DEF PlayerPlayed, Reading, Locked
<1>19. CASE PlayerExit
  BY <1>19, <1>a, PlayerPlain DEF PlayerExit, Reading, Locked
<1> QED
  BY <1>1, <1>2, <1>3, <1>4, <1>5, <1>6, <1>7, <1>8, <1>9, <1>10, <1>11,
     <1>12, <1>13, <1>14, <1>15, <1>16, <1>17, <1>18, <1>19
  DEF PlayerNext, PlayerStep

(* Main only starts and stops the threads, and stops them for good.        *)
PlayPlaces ==
    /\ mpc \in {"run_decoder", "wait_decoder", "wait_player", "loop", "stop",
                "stopping", "done"}
    /\ ~HasReset
    /\ mpc = "stopping" => state[Registered[mi]] \in {"Canceling", "Stand"}
    /\ mpc \in {"stop", "stopping"} => /\ mi > 1 => dpc = "done"
                                       /\ mi > 2 => ppc = "done"
    /\ mpc = "done" => dpc = "done" /\ ppc = "done"

FlagTypes ==
    /\ cell \in [0 .. Size - 1 -> 0 .. FileUnits]
    /\ {buf_eof, HasReset, audio_eof, ds_eof} \subseteq BOOLEAN
    /\ dpc \in DecoderPlaces /\ ppc \in PlayerPlaces /\ mpc \in MainPlaces
    /\ {first, last, heard} \subseteq 0 .. FileUnits

(* The ring holds what was decoded and not read, in the order of the       *)
(* stream: this lap's sound from 0 to head, and, while the reader is in    *)
(* the last lap, that one's from tail to its end.                          *)
DataInv ==
    /\ \A i \in 0 .. head - 1 : cell[i] = pos + 1 + i - head
    /\ Behind => \A i \in tail .. len - 1 : cell[i] = pos + 1 + i - head - len

(* What was read is what was decoded and is not in the ring.               *)
HeardInv ==
    IF ppc \in Reading
    THEN /\ heard + got = pos - Used
         /\ first = IF got = 0 THEN 0 ELSE heard + 1
         /\ got > 0 => last = heard + got
    ELSE heard = pos - Used

(* Who is done takes no step.                                              *)
LEMMA DecoderDone == dpc = "done" => ~DecoderNext
  BY DEF DecoderNext, DecoderStep, DecoderAt, DecoderStart, DecoderClearEof,
     DecoderTop, DecoderSleep, DecoderWake, DecoderFree, DecoderWrapLen,
     DecoderWrapHead, DecoderRoom, DecoderHowMuch, DecoderDecode,
     DecoderBound, DecoderLimit, DecoderRun, DecoderRunEnd, DecoderSetEof,
     DecoderBroadcast, DecoderLen, DecoderFullLap, DecoderSignal,
     DecoderAlmostEmpty, DecoderIdle, DecoderExit

(* The same of the player.                                                 *)
LEMMA PlayerDone == ppc = "done" => ~PlayerNext
  BY DEF PlayerNext, PlayerStep, PlayerAt, PlayerStart, PlayerTop,
     PlayerSleep, PlayerWake, PlayerDecore, PlayerLock, PlayerLoop,
     PlayerTestEof, PlayerWait, PlayerRelock, PlayerSpan, PlayerSpanEnd,
     PlayerCopy, PlayerTestEnd, PlayerRewind, PlayerReturn, PlayerResult,
     PlayerPlayed, PlayerExit

(* What a step of the decoder changes outside of the ring.                 *)
LEMMA DecoderShares ==
    ASSUME DecoderNext
    PROVE  /\ UNCHANGED <<mpc, mi, HasReset, tail, ask, got, span, first, last,
                          heard>>
           /\ ppc' = ppc \/ (ppc = "blocked" /\ ppc' = "relock")
           /\ \/ UNCHANGED state /\ dpc # "sleep"
              \/ dpc = "start" /\ state' = [state EXCEPT !["decoder"] = "Run"]
              \/ dpc = "sleep"
              \/ /\ dpc' = "done"
                 /\ state' = [state EXCEPT !["decoder"] = "Stand"]
  BY DEF DecoderNext, DecoderStep, DecoderAt, DecoderStart, DecoderClearEof,
     DecoderTop, DecoderSleep, DecoderWake, DecoderFree, DecoderWrapLen,
     DecoderWrapHead, DecoderRoom, DecoderHowMuch, DecoderDecode,
     DecoderBound, DecoderLimit, DecoderRun, DecoderRunEnd, DecoderSetEof,
     DecoderBroadcast, DecoderLen, DecoderFullLap, DecoderSignal,
     DecoderAlmostEmpty, DecoderIdle, DecoderExit, bufVars, mainVars, SetState,
     WakeReader

(* A step of the decoder keeps the places of playing without seeks.        *)
LEMMA DecoderPlay ==
    ASSUME PlaceInv, HaltInv, PlayPlaces, DecoderNext
    PROVE  PlayPlaces'
<1>1. dpc # "done" /\ mi \in 1 .. 3 /\ state \in [Threads -> PthStates]
  BY DecoderDone DEF PlaceInv
<1> QED  BY <1>1, DecoderShares DEF PlayPlaces, HaltInv, Registered, Threads

(* What a step of the player changes outside of the ring.                  *)
LEMMA PlayerShares ==
    ASSUME PlayerNext
    PROVE  /\ UNCHANGED <<mpc, mi, dpc>>
           /\ HasReset' = HasReset \/ ~HasReset'
           /\ \/ UNCHANGED state
              \/ ppc = "start" /\ state' = [state EXCEPT !["player"] = "Run"]
              \/ ppc = "sleep"
              \/ ppc' = "done" /\ state' = [state EXCEPT !["player"] = "Stand"]
  BY DEF PlayerNext, PlayerStep, PlayerAt, PlayerStart, PlayerTop,
     PlayerSleep, PlayerWake, PlayerDecore, PlayerLock, PlayerLoop,
     PlayerTestEof, PlayerWait, PlayerRelock, PlayerSpan, PlayerSpanEnd,
     PlayerCopy, PlayerTestEnd, PlayerRewind, PlayerReturn, PlayerResult,
     PlayerPlayed, PlayerExit, decVars, mainVars, SetState

(* A step of the player keeps the places of playing without seeks.         *)
LEMMA PlayerPlay ==
    ASSUME PlaceInv, HaltInv, PlayPlaces, PlayerNext
    PROVE  PlayPlaces'
<1>1. ppc # "done" /\ mi \in 1 .. 3 /\ state \in [Threads -> PthStates]
  BY PlayerDone DEF PlaceInv
<1> QED  BY <1>1, PlayerShares DEF PlayPlaces, HaltInv, Registered, Threads

(* A step of main keeps the places of playing without seeks.               *)
LEMMA MainPlayStep ==
    ASSUME PlaceInv, HaltInv, PlayPlaces, MainPlay \/ MainQuit
    PROVE  PlayPlaces'
<1>0. mi \in 1 .. 3 /\ state \in [Threads -> PthStates]
  BY DEF PlaceInv
<1>1. CASE MainRunDecoder
  BY <1>0, <1>1 DEF MainRunDecoder, MainAt, buffer_and_stream, PlayPlaces
<1>2. CASE MainRunPlayer
  BY <1>0, <1>2 DEF MainRunPlayer, MainAt, buffer_and_stream, PlayPlaces
<1>3. CASE MainPlayerRuns
  BY <1>0, <1>3 DEF MainPlayerRuns, MainAt, buffer_and_stream, PlayPlaces
<1>4. CASE MainAudioEof \/ MainQuit
  BY <1>0, <1>4 DEF MainAudioEof, MainQuit, MainAt, buffer_and_stream,
     PlayPlaces
<1>5. CASE MainStop
  BY <1>0, <1>5
  DEF MainStop, MainAt, SetState, Registered, Threads, buffer_and_stream,
      PlayPlaces
<1>6. CASE MainStopped
  BY <1>0, <1>6
  DEF MainStopped, MainAt, Registered, buffer_and_stream, PlayPlaces, HaltInv
<1>7. CASE MainUninit
  BY <1>0, <1>7 DEF MainUninit, MainAt, Registered, PlayPlaces
<1> QED  BY <1>1, <1>2, <1>3, <1>4, <1>5, <1>6, <1>7 DEF MainPlay

(* What a step that moves neither end of the ring leaves.                  *)
LEMMA DataPlain ==
    ASSUME DataInv, HeardInv,
           UNCHANGED <<head, tail, len, cell, pos, got, first, last, heard>>,
           ppc' \in Reading <=> ppc \in Reading
    PROVE  DataInv' /\ HeardInv'
<1>1. DataInv'
  BY DEF DataInv, Behind
<1>2. Used' = Used
  BY DEF Used
<1>3. HeardInv'
  BY <1>2 DEF HeardInv
<1> QED  BY <1>1, <1>3

(* The decoder's lap ends: its end is marked, then the next begins.        *)
LEMMA WrapData ==
    ASSUME OneLength, NumInv, LapInv, DataInv, HeardInv,
           DecoderWrapLen \/ DecoderWrapHead,
           UNCHANGED <<got, first, last, heard>>
    PROVE  DataInv' /\ HeardInv'
<1>0. /\ head \in Nat /\ tail \in Nat /\ len \in Nat /\ pos \in Nat
  BY LapEndIs, Sizes DEF NumInv, NumTypes
<1>1. UNCHANGED <<tail, cell, pos, ppc>> /\ 0 < tail /\ tail <= head
  BY DEF DecoderWrapLen, DecoderWrapHead, DecoderAt, NumInv, RoomInv, Wrapping
<1>2. CASE DecoderWrapLen
  <2>1. head' = head /\ len' = head
    BY <1>2 DEF DecoderWrapLen
  <2>2. ~Behind /\ ~Behind'
    BY <1>0, <1>1, <2>1 DEF Behind
  <2>3. Used' = Used
    BY <1>1, <2>1, <1>0 DEF Used
  <2> QED  BY <1>1, <2>1, <2>2, <2>3 DEF DataInv, HeardInv
<1>3. CASE DecoderWrapHead
  <2>1. head' = 0 /\ len' = len /\ len = head
    BY <1>3 DEF DecoderWrapHead, DecoderAt, NumInv, RoomInv
  <2>2. \A i \in tail .. len - 1 : cell[i] = pos + 1 + i - 0 - len
    BY <1>0, <1>1, <2>1 DEF DataInv
  <2>3. DataInv'
    BY <1>0, <1>1, <2>1, <2>2 DEF DataInv
  <2>4. Used' = Used
    BY <1>0, <1>1, <2>1 DEF Used
  <2> QED  BY <1>1, <2>3, <2>4 DEF HeardInv
<1> QED  BY <1>2, <1>3

(* A frame goes where nothing is kept that is still to be read.            *)
LEMMA RunData ==
    ASSUME OneLength, NumInv, DataInv, HeardInv, DecoderRun,
           UNCHANGED <<got, first, last, heard>>
    PROVE  DataInv' /\ HeardInv'
<1>0. /\ head \in Nat /\ tail \in Nat /\ len \in Nat /\ pos \in Nat
      /\ Frame \in Nat /\ Size \in Nat /\ len <= Size /\ LapEnd \in Nat
      /\ LapEnd < Size
  BY LapEndIs, Sizes DEF NumInv, NumTypes
<1>1. PICK ret \in 0 .. Frame :
             /\ head' = head + ret /\ pos' = pos + ret
             /\ head + Frame <= LapEnd
             /\ Behind => head + Frame < tail
             /\ cell' = [i \in 0 .. Size - 1 |->
                          IF i \in head .. head + ret - 1
                          THEN pos + 1 + i - head ELSE cell[i]]
  BY RunFrame DEF NumInv
<1>2. UNCHANGED <<tail, len, ppc>>
  BY DEF DecoderRun
<1>3. Behind' <=> Behind
  BY <1>0, <1>1, <1>2 DEF Behind
<1>4. ASSUME NEW i \in 0 .. head' - 1
      PROVE  cell'[i] = pos' + 1 + i - head'
  <2>1. i \in 0 .. Size - 1
    BY <1>0, <1>1, <1>4
  <2>2. cell'[i] = IF i \in head .. head + ret - 1
                   THEN pos + 1 + i - head ELSE cell[i]
    BY <1>1, <2>1
  <2>3. cell'[i] = pos + 1 + i - head
    BY <1>0, <1>1, <1>4, <2>2 DEF DataInv
  <2> QED  BY <1>0, <1>1, <2>3
<1>5. ASSUME Behind, NEW i \in tail .. len - 1
      PROVE  cell'[i] = pos' + 1 + i - head' - len'
  <2>1. i \in 0 .. Size - 1 /\ i \notin head .. head + ret - 1
    BY <1>0, <1>1, <1>5
  <2>2. cell'[i] = cell[i]
    BY <1>1, <2>1
  <2>3. cell[i] = pos + 1 + i - head - len
    BY <1>5 DEF DataInv
  <2> QED  BY <1>0, <1>1, <1>2, <2>2, <2>3
<1>6. pos' - Used' = pos - Used
  BY <1>0, <1>1, <1>2, <1>3 DEF Used, Behind
<1> QED  BY <1>2, <1>3, <1>4, <1>5, <1>6 DEF DataInv, HeardInv

(* A step of the decoder keeps what the ring holds and what was heard.     *)
LEMMA DecoderData ==
    ASSUME OneLength, NumInv, DataInv, HeardInv, DecoderNext
    PROVE  DataInv' /\ HeardInv'
<1>1. /\ UNCHANGED <<tail, got, first, last, heard>>
      /\ ppc' = ppc \/ (ppc = "blocked" /\ ppc' = "relock")
  BY DecoderShares
<1>2. ppc' \in Reading <=> ppc \in Reading
  BY <1>1 DEF Reading
<1>3. CASE DecoderWrapLen \/ DecoderWrapHead
  BY <1>1, <1>3, WrapData DEF NumInv
<1>4. CASE DecoderRun
  BY <1>1, <1>4, RunData
<1>5. CASE DecoderLen \/ DecoderFullLap
  <2>1. UNCHANGED <<head, len, cell, pos>>
    BY <1>5, LapEndIs, Sizes
    DEF DecoderLen, DecoderFullLap, Larger, NumInv, NumTypes, LapInv
  <2> QED  BY <1>1, <1>2, <2>1, DataPlain
<1>6. CASE ~(DecoderWrapLen \/ DecoderWrapHead \/ DecoderRun \/ DecoderLen
             \/ DecoderFullLap)
  <2>1. UNCHANGED <<head, len, cell, pos>>
    BY <1>6
    DEF DecoderNext, DecoderStep, DecoderStart, DecoderClearEof, DecoderTop,
        DecoderSleep, DecoderWake, DecoderFree, DecoderRoom, DecoderHowMuch,
        DecoderDecode, DecoderBound, DecoderLimit, DecoderRunEnd,
        DecoderSetEof, DecoderBroadcast, DecoderSignal, DecoderAlmostEmpty,
        DecoderIdle, DecoderExit, bufVars
  <2> QED  BY <1>1, <1>2, <2>1, DataPlain
<1> QED  BY <1>3, <1>4, <1>5, <1>6

(* A step of the player keeps what the ring holds and what was heard.      *)
LEMMA PlayerData ==
    ASSUME OneLength, FlagTypes, NumInv, DataInv, HeardInv, ~HasReset,
           PlayerNext
    PROVE  DataInv' /\ HeardInv'
<1> USE DEF PlayerAt
<1>0. /\ head \in Nat /\ tail \in Nat /\ len \in Nat /\ pos \in Nat
      /\ UNCHANGED <<head, len, cell, pos>> /\ got \in Nat /\ tail <= len
      /\ heard \in Nat /\ first \in Nat /\ last \in Nat
  BY LapEndIs, Sizes
  DEF NumInv, NumTypes, ReadInv, FlagTypes, PlayerNext, decVars
<1>1. CASE PlayerLock
  <2>1. DataInv' /\ Used' = Used
    BY <1>0, <1>1 DEF PlayerLock, DataInv, Behind, Used
  <2>2. /\ heard' = heard /\ got' = 0 /\ first' = 0
        /\ ppc \notin Reading /\ ppc' \in Reading
    BY <1>1 DEF PlayerLock, Reading, Locked
  <2>4. heard' + got' = pos' - Used'
    BY <1>0, <2>1, <2>2 DEF HeardInv
  <2> QED  BY <2>1, <2>2, <2>4 DEF HeardInv
<1>2. CASE PlayerRelock
  BY <1>0, <1>2, DataPlain DEF PlayerRelock, Reading, Locked
<1>3. CASE PlayerCopy
  <2>1. /\ tail' = tail + span /\ got' = got + span /\ heard' = heard
        /\ first' = IF first = 0 /\ span > 0 THEN cell[tail] ELSE first
        /\ last' = IF span > 0 THEN cell[tail + span - 1] ELSE last
        /\ 0 < span /\ span \in Nat /\ ppc \in Reading /\ ppc' \in Reading
        /\ span <= (IF Behind THEN len ELSE head) - tail
    BY <1>3, Sizes DEF PlayerCopy, NumInv, ReadInv, Reading, Locked
  <2>2. /\ heard + got = pos - Used /\ first = IF got = 0 THEN 0 ELSE heard + 1
    BY <2>1 DEF HeardInv
  <2>3. Behind' <=> Behind
    BY <1>0, <2>1 DEF Behind
  <2>4. DataInv'
    BY <1>0, <2>1, <2>3 DEF DataInv
  <2>5. Used' = Used - span
    BY <1>0, <2>1, <2>3 DEF Used, Behind
  <2>6. /\ cell[tail] = pos - Used + 1
        /\ cell[tail + span - 1] = pos - Used + span
    <3>1. CASE Behind
      <4>1. tail \in tail .. len - 1 /\ tail + span - 1 \in tail .. len - 1
        BY <1>0, <2>1, <3>1
      <4>2. /\ cell[tail] = pos + 1 + tail - head - len
            /\ cell[tail + span - 1] = pos + 1 + (tail + span - 1) - head - len
        BY <3>1, <4>1 DEF DataInv
      <4> QED  BY <1>0, <2>1, <3>1, <4>2 DEF Used, Behind
    <3>2. CASE ~Behind
      <4>1. tail \in 0 .. head - 1 /\ tail + span - 1 \in 0 .. head - 1
        BY <1>0, <2>1, <3>2
      <4>2. /\ cell[tail] = pos + 1 + tail - head
            /\ cell[tail + span - 1] = pos + 1 + (tail + span - 1) - head
        BY <4>1 DEF DataInv
      <4> QED  BY <1>0, <2>1, <3>2, <4>2 DEF Used, Behind
    <3> QED  BY <3>1, <3>2
  <2>7. heard' + got' = pos' - Used' /\ Used \in Int
    BY <1>0, <2>1, <2>2, <2>5 DEF Used
  <2>8. last' = heard' + got'
    BY <1>0, <2>1, <2>2, <2>6, <2>7
  <2>9. first' = heard' + 1
    BY <1>0, <2>1, <2>2, <2>6, <2>7
  <2>10. got' # 0
    BY <1>0, <2>1
  <2> QED  BY <2>1, <2>4, <2>7, <2>8, <2>9, <2>10 DEF HeardInv
<1>4. CASE PlayerRewind
  <2>1. CASE tail = head
    BY <1>0, <1>4, <2>1, DataPlain DEF PlayerRewind, units, Reading, Locked
  <2>2. CASE tail # head
    <3>1. tail' = 0 /\ tail = len /\ head < tail
      BY <1>0, <1>4, <2>2 DEF PlayerRewind, NumInv, ReadInv, LapInv
    <3>2. DataInv'
      BY <1>0, <3>1 DEF DataInv, Behind
    <3>3. Used' = Used
      BY <1>0, <3>1 DEF Used
    <3> QED
      BY <1>0, <1>4, <3>2, <3>3
      DEF PlayerRewind, units, HeardInv, Reading, Locked
  <2> QED  BY <2>1, <2>2
<1>5. CASE PlayerReturn
  <2>1. /\ UNCHANGED <<tail, got, first, last>> /\ ppc \in Reading
        /\ ppc' \notin Reading /\ heard' = IF got > 0 THEN last ELSE heard
    BY <1>5 DEF PlayerReturn, Reading, Locked
  <2>2. DataInv' /\ Used' = Used
    BY <1>0, <2>1 DEF DataInv, Behind, Used
  <2>3. heard + got = pos - Used /\ Used \in Int
    BY <1>0, <2>1 DEF HeardInv, Used
  <2>4. heard' = pos' - Used'
    BY <1>0, <2>1, <2>2, <2>3 DEF HeardInv
  <2> QED  BY <2>1, <2>2, <2>4 DEF HeardInv
<1>6. CASE PlayerPlayed
  <2>1. /\ UNCHANGED <<tail, heard>>
        /\ ppc \notin Reading /\ ppc' \notin Reading
    BY <1>6 DEF PlayerPlayed, Reading, Locked
  <2>2. DataInv' /\ Used' = Used
    BY <1>0, <2>1 DEF DataInv, Behind, Used
  <2> QED  BY <1>0, <2>1, <2>2 DEF HeardInv
<1>7. CASE ~(PlayerLock \/ PlayerRelock \/ PlayerCopy \/ PlayerRewind
             \/ PlayerReturn \/ PlayerPlayed)
  <2>1. /\ UNCHANGED <<tail, got, first, last, heard>>
        /\ ppc' \in Reading <=> ppc \in Reading
    BY <1>7
    DEF PlayerNext, PlayerStep, PlayerStart, PlayerTop, PlayerSleep,
        PlayerWake, PlayerDecore, PlayerLoop, PlayerTestEof, PlayerWait,
        PlayerSpan, PlayerSpanEnd, PlayerTestEnd, PlayerResult, PlayerExit,
        units, Reading, Locked
  <2> QED  BY <1>0, <2>1, DataPlain
<1> QED  BY <1>1, <1>2, <1>3, <1>4, <1>5, <1>6, <1>7

(* Flags, places and the numbers of the units.                             *)
LEMMA DecoderFlags ==
    ASSUME OneLength, FlagTypes, NumInv, HaltInv, DecoderNext
    PROVE  FlagTypes'
<1> USE DEF DecoderAt
<1>1. /\ UNCHANGED <<mpc, first, last, heard, HasReset>>
      /\ ppc' = ppc \/ (ppc = "blocked" /\ ppc' = "relock")
  BY DecoderShares
<1>2. ppc' \in PlayerPlaces
  BY <1>1 DEF FlagTypes, PlayerPlaces
<1>3. /\ dpc' \in DecoderPlaces
      /\ {buf_eof', audio_eof', ds_eof'} \subseteq BOOLEAN
  BY DEF FlagTypes, DecoderNext, DecoderStep, DecoderStart, DecoderClearEof,
         DecoderTop, DecoderSleep, DecoderWake, DecoderFree, DecoderWrapLen,
         DecoderWrapHead, DecoderRoom, DecoderHowMuch, DecoderDecode,
         DecoderBound, DecoderLimit, DecoderRun, DecoderRunEnd,
         DecoderSetEof, DecoderBroadcast, DecoderLen, DecoderFullLap,
         DecoderSignal, DecoderAlmostEmpty, DecoderIdle, DecoderExit,
         bufVars, DecoderPlaces
<1>4. cell' \in [0 .. Size - 1 -> 0 .. FileUnits]
  <2>1. CASE DecoderRun
    <3>1. PICK ret \in 0 .. Frame :
             /\ pos' = pos + ret /\ pos' <= FileUnits
             /\ cell' = [i \in 0 .. Size - 1 |->
                          IF i \in head .. head + ret - 1
                          THEN pos + 1 + i - head ELSE cell[i]]
      BY <2>1, RunFrame DEF NumInv
    <3>2. head \in Nat /\ pos \in Nat /\ FileUnits \in Nat /\ Frame \in Nat
      BY Sizes, LapEndIs DEF NumInv, NumTypes
    <3>3. ASSUME NEW i \in 0 .. Size - 1, i \in head .. head + ret - 1
          PROVE  pos + 1 + i - head \in 0 .. FileUnits
      BY <3>1, <3>2, <3>3
    <3> QED  BY <3>1, <3>3 DEF FlagTypes
  <2>2. CASE ~DecoderRun
    <3>1. cell' = cell
      BY <2>2
      DEF DecoderNext, DecoderStep, DecoderStart, DecoderClearEof, DecoderTop,
          DecoderSleep, DecoderWake, DecoderFree, DecoderWrapLen,
          DecoderWrapHead, DecoderRoom, DecoderHowMuch, DecoderDecode,
          DecoderBound, DecoderLimit, DecoderRunEnd, DecoderSetEof,
          DecoderBroadcast, DecoderLen, DecoderFullLap, DecoderSignal,
          DecoderAlmostEmpty, DecoderIdle, DecoderExit, bufVars
    <3> QED  BY <3>1 DEF FlagTypes
  <2> QED  BY <2>1, <2>2
<1> QED  BY <1>1, <1>2, <1>3, <1>4 DEF FlagTypes

(* The same of the player.                                                 *)
LEMMA PlayerFlags ==
    ASSUME OneLength, FlagTypes, NumInv, PlayerNext
    PROVE  FlagTypes'
<1> USE DEF PlayerAt
<1>1. UNCHANGED <<mpc, dpc, cell, buf_eof, ds_eof>>
  BY DEF PlayerNext, decVars, mainVars
<1>2. /\ ppc' \in PlayerPlaces /\ audio_eof' \in BOOLEAN
      /\ HasReset' \in BOOLEAN
  BY DEF FlagTypes, PlayerNext, PlayerStep, PlayerStart, PlayerTop,
         PlayerSleep, PlayerWake, PlayerDecore, PlayerLock, PlayerLoop,
         PlayerTestEof, PlayerWait, PlayerRelock, PlayerSpan, PlayerSpanEnd,
         PlayerCopy, PlayerTestEnd, PlayerRewind, PlayerReturn,
         PlayerResult, PlayerPlayed, PlayerExit, PlayerPlaces
<1>3. {first', last', heard'} \subseteq 0 .. FileUnits
  <2>1. CASE PlayerCopy
    <3>1. /\ heard' = heard /\ 0 < span
          /\ first' = IF first = 0 /\ span > 0 THEN cell[tail] ELSE first
          /\ last' = IF span > 0 THEN cell[tail + span - 1] ELSE last
      BY <2>1 DEF PlayerCopy, NumInv, ReadInv
    <3>2. tail \in 0 .. Size - 1 /\ tail + span - 1 \in 0 .. Size - 1
      BY <2>1, Sizes, LapEndIs
      DEF PlayerCopy, NumInv, NumTypes, LapInv, ReadInv
    <3>3. {cell[tail], cell[tail + span - 1]} \subseteq 0 .. FileUnits
      BY <3>2 DEF FlagTypes
    <3> QED  BY <3>1, <3>3 DEF FlagTypes
  <2>2. CASE ~PlayerCopy
    <3>1. /\ first' \in {0, first} /\ last' = last /\ heard' \in {last, heard}
      BY <2>2
      DEF PlayerNext, PlayerStep, PlayerStart, PlayerTop, PlayerSleep,
          PlayerWake, PlayerDecore, PlayerLock, PlayerLoop, PlayerTestEof,
          PlayerWait, PlayerRelock, PlayerSpan, PlayerSpanEnd, PlayerTestEnd,
          PlayerRewind, PlayerReturn, PlayerResult, PlayerPlayed, PlayerExit,
          units
    <3> QED  BY <3>1, Sizes DEF FlagTypes
  <2> QED  BY <2>1, <2>2
<1> QED  BY <1>1, <1>2, <1>3 DEF FlagTypes

(* The invariant of playing.  When the ring has been freed nothing is left *)
(* to say of it.                                                           *)
RingInv ==
    /\ PlaceInv /\ HaltInv /\ PlayPlaces /\ FlagTypes
    /\ mpc # "done" => NumInv /\ DataInv /\ HeardInv
    /\ mpc = "done" => /\ head = 0 /\ tail = 0 /\ len = 0
                       /\ pos \in 0 .. FileUnits
                       /\ want \in 0 .. Size /\ room \in 0 .. Size
                       /\ ask \in Nat \X Nat /\ got \in Nat
                       /\ span \in 0 .. Size

(* The invariant of the ring holds at first.                               *)
LEMMA RingInit == ASSUME OneLength, Init PROVE RingInv
<1>1. PlaceInv /\ HaltInv /\ PlayPlaces
  BY DEF Init, PlaceInv, HaltInv, Quiet, Locked, Threads, PthStates, PlayPlaces
<1>2. FlagTypes
  <2>1. 0 \in 0 .. FileUnits
    BY Sizes
  <2>2. cell \in [0 .. Size - 1 -> 0 .. FileUnits]
    BY <2>1 DEF Init
  <2>3. /\ first = 0 /\ last = 0 /\ heard = 0
        /\ {buf_eof, HasReset, audio_eof, ds_eof} \subseteq BOOLEAN
        /\ dpc \in DecoderPlaces /\ ppc \in PlayerPlaces
        /\ mpc \in MainPlaces
    BY DEF Init, DecoderPlaces, PlayerPlaces, MainPlaces
  <2> QED  BY <2>1, <2>2, <2>3 DEF FlagTypes
<1>3. NumInv
  BY Sizes, LapEndIs
  DEF Init, NumInv, NumTypes, LapInv, RoomInv, ReadInv, Behind, Wrapping,
      Reading, Locked
<1>4. DataInv /\ HeardInv
  BY DEF Init, DataInv, HeardInv, Behind, Reading, Locked, Used
<1> QED  BY <1>1, <1>2, <1>3, <1>4 DEF RingInv, Init

(* A step of main without seeks keeps it.                                  *)
LEMMA RingMain ==
    ASSUME OneLength, RingInv, (MainPlay \/ MainQuit) /\ MainLeaves
    PROVE  RingInv'
<1>1. PlaceInv' /\ HaltInv' /\ PlayPlaces'
  BY MainHaltStep, MainPlayStep DEF RingInv
<1>2. mpc # "done"
  BY DEF MainPlay, MainQuit, MainRunDecoder, MainRunPlayer, MainPlayerRuns,
         MainAudioEof, MainStop, MainStopped, MainUninit, MainAt
<1>3. CASE MainUninit
  <2>1. FlagTypes'
    BY <1>3
    DEF MainUninit, MainAt, MainLeaves, RingInv, FlagTypes, MainPlaces
  <2>2. mpc' = "done" /\ head' = 0 /\ tail' = 0 /\ len' = 0
    BY <1>3 DEF MainUninit, MainAt
  <2>3. /\ pos' \in 0 .. FileUnits /\ want' \in 0 .. Size
        /\ room' \in 0 .. Size
        /\ ask' \in Nat \X Nat /\ got' \in Nat /\ span' \in 0 .. Size
    BY <1>2, <1>3
    DEF MainUninit, MainLeaves, RingInv, NumInv, NumTypes, ReadInv
  <2> QED  BY <1>1, <2>1, <2>2, <2>3 DEF RingInv
<1>4. CASE ~MainUninit
  <2>1. /\ UNCHANGED <<cell, want, room, ask, got, span, first,
                       buffer_and_stream>>
        /\ mpc' \in MainPlaces \ {"done"}
        /\ dpc' = dpc \/ (dpc = "none" /\ dpc' = "start")
        /\ ppc' = ppc \/ (ppc = "none" /\ ppc' = "start")
    BY <1>4
    DEF MainPlay, MainQuit, MainRunDecoder, MainRunPlayer, MainPlayerRuns,
        MainAudioEof, MainStop, MainStopped, MainAt, MainLeaves, RingInv,
        HaltInv, MainPlaces
  <2>2. FlagTypes'
    BY <2>1
    DEF RingInv, FlagTypes, buffer_and_stream, DecoderPlaces, PlayerPlaces
  <2>3. ppc' \in Reading <=> ppc \in Reading
    BY <2>1 DEF Reading, Locked
  <2>4. NumInv /\ DataInv /\ HeardInv
    BY <1>2 DEF RingInv
  <2>5. NumInv'
    BY <2>1, <2>3, <2>4
    DEF NumInv, NumTypes, LapInv, RoomInv, ReadInv, Behind, Wrapping,
        buffer_and_stream
  <2>6. DataInv' /\ HeardInv'
    BY <2>1, <2>3, <2>4, DataPlain DEF buffer_and_stream
  <2> QED  BY <1>1, <2>1, <2>2, <2>5, <2>6 DEF RingInv
<1> QED  BY <1>3, <1>4

(* A step of anybody without seeks keeps it.                               *)
LEMMA RingNext ==
    ASSUME OneLength, RingInv, [PlayNext]_vars
    PROVE  RingInv'
<1>1. CASE DecoderNext
  <2>1. mpc # "done" /\ mpc' = mpc
    BY <1>1, DecoderDone, DecoderShares DEF RingInv, PlayPlaces
  <2>2. PlaceInv' /\ HaltInv' /\ PlayPlaces'
    BY <1>1, DecoderHalt, DecoderPlay DEF RingInv
  <2>3. FlagTypes' /\ NumInv' /\ DataInv' /\ HeardInv'
    BY <1>1, <2>1, DecoderFlags, DecoderNum, DecoderData DEF RingInv
  <2> QED  BY <2>1, <2>2, <2>3 DEF RingInv
<1>2. CASE PlayerNext
  <2>1. mpc # "done" /\ mpc' = mpc
    BY <1>2, PlayerDone, PlayerShares DEF RingInv, PlayPlaces
  <2>2. PlaceInv' /\ HaltInv' /\ PlayPlaces'
    BY <1>2, PlayerHalt, PlayerPlay DEF RingInv
  <2>3. FlagTypes' /\ NumInv' /\ DataInv' /\ HeardInv'
    BY <1>2, <2>1, PlayerFlags, PlayerNum, PlayerData DEF RingInv, PlayPlaces
  <2> QED  BY <2>1, <2>2, <2>3 DEF RingInv
<1>3. CASE (MainPlay \/ MainQuit) /\ MainLeaves
  BY <1>3, RingMain
<1>4. CASE UNCHANGED vars
  <2>1. /\ UNCHANGED <<mpc, mi, state, dpc, ppc, tail_mutex>>
        /\ UNCHANGED <<head, tail, len, cell, buf_eof, HasReset>>
        /\ UNCHANGED <<audio_eof, ds_eof, pos, want, room>>
        /\ UNCHANGED <<ask, got, span, first, last, heard>>
    BY <1>4 DEF vars, bufVars, decVars, playVars, mainVars
  <2>2. PlaceInv' /\ HaltInv' /\ PlayPlaces' /\ FlagTypes'
    BY <2>1 DEF RingInv, PlaceInv, HaltInv, Quiet, PlayPlaces, FlagTypes
  <2>3. ASSUME mpc # "done" PROVE NumInv' /\ DataInv' /\ HeardInv'
    <3>1. NumInv /\ DataInv /\ HeardInv
      BY <2>3 DEF RingInv
    <3>2. NumInv'
      BY <2>1, <3>1
      DEF NumInv, NumTypes, LapInv, RoomInv, ReadInv, Behind
    <3> QED  BY <2>1, <3>1, <3>2, DataPlain
  <2> QED  BY <2>1, <2>2, <2>3 DEF RingInv
<1> QED  BY <1>1, <1>2, <1>3, <1>4 DEF PlayNext

(* The invariant of playing without seeks, in every behaviour.             *)
LEMMA RingAlways == ASSUME OneLength PROVE PlaySpec => []RingInv
<1>1. Init => RingInv
  BY RingInit
<1>2. RingInv /\ [PlayNext]_vars => RingInv'
  BY RingNext
<1> QED  BY <1>1, <1>2, PTL DEF PlaySpec

(* No byte outside of the ring is written or read, and a read never gives  *)
(* more than was asked for, if all frames have one length.                 *)
THEOREM PlayTypeOK == ASSUME OneLength PROVE PlaySpec => []TypeOK
<1>1. RingInv => TypeOK
  <2> SUFFICES ASSUME RingInv PROVE TypeOK
    OBVIOUS
  <2>1. /\ Size \in Nat /\ LapEnd \in Nat /\ LapEnd <= Size
    BY Sizes, LapEndIs
  <2>2. CASE mpc = "done"
    <3>1. dpc = "done" /\ ppc = "done"
      BY <2>2 DEF RingInv, PlayPlaces
    <3> QED
      BY <2>1, <2>2, <3>1 DEF RingInv, PlaceInv, FlagTypes, TypeOK
  <2>3. CASE mpc # "done"
    <3>1. NumInv
      BY <2>3 DEF RingInv
    <3>2. /\ head \in 0 .. Size /\ tail \in 0 .. Size /\ len \in 0 .. Size
          /\ pos \in 0 .. FileUnits /\ want \in 0 .. Size /\ room \in 0 .. Size
          /\ dpc = "run" => head + room <= Size
          /\ ask \in Nat \X Nat /\ got \in Nat /\ span \in 0 .. Size
          /\ ppc = "return" => got <= ask[2]
      BY <2>1, <3>1
      DEF NumInv, NumTypes, RoomInv, ReadInv, Reading, Locked
    <3>3. ppc = "copy" => tail + span <= Size
      BY <2>1, <3>1, <3>2 DEF NumInv, LapInv, ReadInv
    <3> QED  BY <3>2, <3>3 DEF RingInv, PlaceInv, FlagTypes, TypeOK
  <2> QED  BY <2>2, <2>3
<1> QED  BY <1>1, RingAlways, PTL

(* read_audio_buffer gives each unit of sound once and in order, whatever  *)
(* the two threads' speed, if all frames have one length.                  *)
THEOREM PlayHeardInOrder == ASSUME OneLength PROVE PlaySpec => HeardInOrder
<1> DEFINE Right == ppc = "return" /\ ppc' = "result" /\ got > 0 =>
                        first = heard + 1 /\ last = heard + got
<1>1. RingInv => Right
  <2> SUFFICES ASSUME RingInv, ppc = "return", got > 0
               PROVE  first = heard + 1 /\ last = heard + got
    OBVIOUS
  <2>1. mpc # "done" /\ ppc \in Reading
    BY DEF RingInv, PlayPlaces, Reading, Locked
  <2>2. HeardInv /\ got \in Nat
    BY <2>1 DEF RingInv, NumInv, ReadInv
  <2> QED  BY <2>1, <2>2 DEF HeardInv
<1> QED  BY <1>1, RingAlways, PTL DEF HeardInOrder
=============================================================================
