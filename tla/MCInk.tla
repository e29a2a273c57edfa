--------------------------------- MODULE MCInk ---------------------------------
(***************************************************************************)
(* An instance of InkPlugin for TLC: three places, steps of two.           *)
(***************************************************************************)
EXTENDS InkPlugin, TLC

ThreePlaces == 1..3
=============================================================================
