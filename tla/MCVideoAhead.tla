---------------------------- MODULE MCVideoAhead ----------------------------
(* Small instances of VideoAhead for TLC; the cfg files give the numbers.   *)
EXTENDS VideoAhead
=============================================================================
