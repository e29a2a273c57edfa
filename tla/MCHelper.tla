-------------------------------- MODULE MCHelper --------------------------------
(***************************************************************************)
(* An instance of RobotStateHelper for TLC.                                *)
(***************************************************************************)
EXTENDS RobotStateHelper

\* Every goal that makes a difference: stop and play with each target that
\* looks at them, and one target that cannot be selected.
SomeGoals ==
  [target : {POWER_OFF, IDLE}, stop : BOOLEAN, play : {FALSE}]
    \cup [target : {RUNNING}, stop : BOOLEAN, play : BOOLEAN]
    \cup [target : {POWER_ON}, stop : {FALSE}, play : {FALSE}]

AllStops == SafetyModes \ {NORMAL}
=============================================================================
