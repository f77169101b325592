------------------------------ MODULE DaeRing ------------------------------
(***************************************************************************)
(* Index arithmetic of the decoding-ahead ring (xmpcore/xmp_core.cpp).     *)
(* A dec_ahead_engine_t holds nframes slots and two indices: decoder_idx,  *)
(* the slot being decoded, and player_idx, the slot being played.          *)
(***************************************************************************)
EXTENDS Integers

CONSTANTS
    NFrames,    \* num_v_buffs: slots of the ring, one per vo surface
    UIntRange   \* the range of an unsigned: 2^32, or a smaller number with
                \* the same residue modulo NFrames

\* MPXPSystem::run_ahead_engine refuses fewer than 3 buffers.
ASSUME NFramesAssumption == NFrames \in Nat /\ NFrames >= 3
ASSUME UIntAssumption == UIntRange \in Nat /\ UIntRange > NFrames

Slots == 0 .. NFrames - 1

\* Mutant: the index is not wrapped.
dae_next_unwrapped(idx) == idx + 1

\* dae_next_played, dae_next_decoded and the new_idx of the two dae_inc_*.
dae_next(idx) == (idx + 1) % NFrames

\* dae_prev_played, dae_prev_decoded: an unsigned subtraction, so slot 0 goes
\* through UINT_MAX, which is NFrames - 1 modulo NFrames only when NFrames
\* divides the range of an unsigned.
dae_prev(idx) == ((idx - 1 + UIntRange) % UIntRange) % NFrames

\* dae_get_decoder_outrun, for one reading of each index.
dae_get_decoder_outrun(decoder_idx, player_idx) ==
    (IF decoder_idx < player_idx THEN decoder_idx + NFrames ELSE decoder_idx)
        - player_idx

\* The slot i places after idx: what i calls of dae_next reach.
SlotAfter(idx, i) == IF idx + i < NFrames THEN idx + i ELSE idx + i - NFrames
=============================================================================
