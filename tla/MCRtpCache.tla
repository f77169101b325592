---------------------------- MODULE MCRtpCache ----------------------------
(* Instances of RtpCache for TLC.                                          *)
EXTENDS RtpCache

\* The first numbers, some far from both ends, and one just before they wrap.
MCBases == {0, 20, 93}
\* Far ahead, and far back, of what was sent before.
MCJumps == {30, 70}
=============================================================================
