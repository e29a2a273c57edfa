--------------------------------- MODULE MCArm ---------------------------------
(***************************************************************************)
(* Instances of ArmControllers for TLC: the three controllers that the     *)
(* recovery knows, two of which a launch file loads.                       *)
(***************************************************************************)
EXTENDS ArmControllers

CONSTANTS pos, eff, scaled

Known == {pos, eff, scaled}
Effort == {eff, scaled}
=============================================================================
