---------------------------- MODULE MCAudioAhead ----------------------------
(* Instances of AudioAhead: what the player asks for.                       *)
EXTENDS AudioAhead
MCReads == {<<1, 3>>, <<3, 5>>}
MCShortReads == {<<1, 2>>}
=============================================================================
