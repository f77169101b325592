----------------------------- MODULE FrameQueue -----------------------------
(***************************************************************************)
(* What the decoding-ahead engine promises of the pictures: the decoder    *)
(* appends frames in stream order to a bounded queue, and the player puts  *)
(* its head on the screen.  Up to the last frame shown none is shown       *)
(* twice, skipped, or shown out of order, and the decoder is never more    *)
(* than Capacity frames ahead.  When the stream has ended and no frame     *)
(* waits, the screen may go over to a surface that holds no frame of its   *)
(* own, and stays with it.  It is not promised that the frames that wait   *)
(* are ever shown.                                                         *)
(***************************************************************************)
EXTENDS Integers, Sequences

CONSTANTS
    Frames,     \* the numbers frames have in the stream
    NoFrame,    \* smaller than every frame: nothing decoded yet
    Leftover,   \* no frame either: what an old surface holds
    Capacity    \* decoded frames that wait behind the one on the screen

VARIABLES
    onScreen,   \* the frame being shown
    waiting,    \* decoded frames not shown yet, oldest first
    ended       \* whether the decoder has come to the end of the stream

vars == <<onScreen, waiting, ended>>

Init == onScreen = NoFrame /\ waiting = <<>> /\ ~ended

Newest == IF waiting = <<>> THEN onScreen ELSE waiting[Len(waiting)]

\* The first frame is decoded into the surface already on the screen.
First(f) ==
    /\ ~ended
    /\ onScreen = NoFrame
    /\ onScreen' = f
    /\ UNCHANGED <<waiting, ended>>

Append1(f) ==
    /\ ~ended
    /\ onScreen # NoFrame
    /\ f > Newest
    /\ Len(waiting) < Capacity
    /\ waiting' = Append(waiting, f)
    /\ UNCHANGED <<onScreen, ended>>

Finish ==
    /\ ~ended
    /\ ended' = TRUE
    /\ UNCHANGED <<onScreen, waiting>>

Show ==
    /\ waiting # <<>>
    /\ onScreen' = Head(waiting)
    /\ waiting' = Tail(waiting)
    /\ UNCHANGED ended

ShowLeftover ==
    /\ ended
    /\ waiting = <<>>
    /\ onScreen \in Frames
    /\ onScreen' = Leftover
    /\ UNCHANGED <<waiting, ended>>

Next ==
    \/ \E f \in Frames : First(f) \/ Append1(f)
    \/ Finish \/ Show \/ ShowLeftover

Spec == Init /\ [][Next]_vars
=============================================================================
