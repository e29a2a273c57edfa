------------------------------ MODULE MCScaling ------------------------------
(***************************************************************************)
(* Instance of SpeedScaling: two increments do not reach the full speed,   *)
(* three pass it.                                                          *)
(***************************************************************************)
EXTENDS SpeedScaling, TLC
=============================================================================
