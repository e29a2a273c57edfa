-------------------------------- MODULE MCDriver --------------------------------
(***************************************************************************)
(* An instance of DriverControl for TLC: two controllers of one kind, as   *)
(* the scaled and the plain position controller are.                       *)
(***************************************************************************)
EXTENDS DriverControl, TLC

CONSTANTS scaled, pos

TwoControllers == {scaled, pos}
CommandKinds == {"position", "velocity"}
CommandKind == [c \in TwoControllers |-> "position"]
=============================================================================
