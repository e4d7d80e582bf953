------------------------------- MODULE MCPlayer -------------------------------
(***************************************************************************)
(* Instances of Player: a few events, some at the same time, frames and    *)
(* measurements before, between and after them.                            *)
(***************************************************************************)
EXTENDS Player

MCEvents == <<1, 2, 2, 4>>
MCFrames == <<0, 2, 5>>
MCSamples == <<1, 3>>
===============================================================================
