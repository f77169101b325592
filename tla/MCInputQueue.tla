---------------------------- MODULE MCInputQueue ----------------------------
(* Instances of InputQueue for TLC.                                        *)
EXTENDS InputQueue

\* One key for each kind of command, and two that mean something together.
MCBinds ==
    <<"p">> :> "pause" @@ <<"q">> :> "quit" @@ <<"s">> :> "seek"
    @@ <<"p", "s">> :> "step"
=============================================================================
