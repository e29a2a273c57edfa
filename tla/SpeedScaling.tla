---------------------------- MODULE SpeedScaling ----------------------------
(***************************************************************************)
(* How fast the controllers of the UR driver may run while the program on  *)
(* the robot is paused and resumed: the end of HardwareInterface::read,    *)
(* which turns the runtime state and the speed of each packet into the     *)
(* scaling that the scaled controllers multiply their time with.           *)
(*                                                                         *)
(* A speed is the product of speed_scaling_ and target_speed_fraction_, in *)
(* whole units.  A cycle without a packet changes nothing here.            *)
(***************************************************************************)
EXTENDS Integers

CONSTANTS
  MaxSpeed,     (* The speed of a robot that nothing slows down.            *)
  Increment,    (* pausing_ramp_up_increment_.                              *)
  Memory        (* What speed_scaling_combined_, which the constructor does *)
                (* not set, may hold before the first packet.               *)

ASSUME SpeedAssumption ==
  /\ MaxSpeed \in Nat
  /\ Increment \in Nat \ {0}
  /\ Memory \subseteq Nat

ProgramStates ==
  {"STOPPING", "STOPPED", "PLAYING", "PAUSING", "PAUSED", "RESUMING"}

Unread == -1

VARIABLES
  programState, (* The robot: state of its program, and                     *)
  speed,        (* the speed it runs at.                                    *)
  packet,       (* The last packet: runtime_state_ and the speed in it.     *)
  pausing,      (* pausing_state_.                                          *)
  combined,     (* speed_scaling_combined_.                                 *)
  unshown       (* History: there was a pause that no packet showed, and no *)
                (* packet has shown a pause since.                          *)

robot       == <<programState, speed>>
scalingVars == <<robot, packet, pausing, combined, unshown>>

Speeds == 0..MaxSpeed

ScalingTypeOK ==
  /\ programState \in ProgramStates
  /\ speed \in Speeds
  /\ packet \in [state : ProgramStates, speed : Speeds \cup {Unread}]
  /\ pausing \in {"RUNNING", "PAUSED", "RAMPUP"}
  /\ combined \in IF packet.speed = Unread THEN Memory ELSE Speeds
  /\ unshown \in BOOLEAN

\* The driver can be started at any time.
ScalingInit ==
  /\ programState \in ProgramStates
  /\ speed \in Speeds
  /\ packet = [state |-> "STOPPED", speed |-> Unread]
  /\ pausing = "RUNNING"
  /\ combined \in Memory
  /\ unshown = (programState = "RESUMING")

(***************************************************************************)
(* The robot.                                                              *)
(***************************************************************************)

\* What the program does next; it can be stopped whatever it does.
Moves ==
  {<<"STOPPED", "PLAYING">>, <<"PLAYING", "PAUSING">>, <<"PAUSING", "PAUSED">>,
   <<"PAUSED", "RESUMING">>, <<"RESUMING", "PLAYING">>,
   <<"RESUMING", "PAUSING">>, <<"STOPPING", "STOPPED">>}
  \cup {"PLAYING", "PAUSING", "PAUSED", "RESUMING"} \X {"STOPPING"}

\* The program goes on; packets may have come in between or not.
Proceed ==
  /\ programState' \in ProgramStates
  /\ <<programState, programState'>> \in Moves
  /\ unshown' = \/ unshown
                \/ programState = "PAUSED" /\ packet.state # "PAUSED"
  /\ UNCHANGED <<speed, packet, pausing, combined>>

\* The speed slider, or a reduced mode.
ChangeSpeed ==
  /\ speed' \in Speeds
  /\ UNCHANGED <<programState, packet, pausing, combined, unshown>>

(***************************************************************************)
(* A packet is read.                                                       *)
(***************************************************************************)

\* Mistake to be caught: the ramp begins while the robot is still resuming.
PausingEarly ==
  IF programState = "PAUSED" THEN "PAUSED"
  ELSE IF programState \in {"RESUMING", "PLAYING"} /\ pausing = "PAUSED"
    THEN "RAMPUP"
  ELSE pausing

\* pausing_state_ follows the runtime state.
Pausing ==
  IF programState = "PAUSED" THEN "PAUSED"
  ELSE IF programState = "PLAYING" /\ pausing = "PAUSED" THEN "RAMPUP"
  ELSE pausing

\* Mistake to be caught: the ramp does not begin at zero.
RampFromHere == combined + Increment

\* speed_scaling_ramp: the ramp begins at zero.
Ramp == (IF pausing = "PAUSED" THEN 0 ELSE combined) + Increment

Least(a, b) == IF a < b THEN a ELSE b

Combined ==
  IF Pausing = "RAMPUP" THEN Least(Ramp, speed)
  ELSE IF programState = "RESUMING" THEN 0
  ELSE speed

\* Mistake to be caught: the scaling is compared after it was limited.
RampEndsNever == Combined > speed

RampEnds == Ramp > speed

ReadPacket ==
  /\ packet' = [state |-> programState, speed |-> speed]
  /\ pausing' = IF Pausing = "RAMPUP" /\ RampEnds THEN "RUNNING" ELSE Pausing
  /\ combined' = Combined
  /\ unshown' = (unshown /\ programState # "PAUSED")
  /\ UNCHANGED robot

ScalingNext == Proceed \/ ChangeSpeed \/ ReadPacket

ScalingSpec == ScalingInit /\ [][ScalingNext]_scalingVars

\* The driver's loop goes round, and packets do not stay away for good.
ScalingFairSpec == ScalingSpec /\ WF_scalingVars(ReadPacket)

(***************************************************************************)
(* Properties.                                                             *)
(***************************************************************************)

\* While the robot resumes, the controllers stand still: they would otherwise
\* interpolate away from a robot that does not follow them yet.
StillWhileResuming ==
  packet.state = "RESUMING" /\ ~unshown => combined = 0

\* After a pause the controllers start from zero and get faster by at most one
\* increment with each packet, until they have been as fast as the robot.
RisesSlowly ==
  [][packet'.state = "PLAYING" /\ ~unshown' =>
       \/ packet.state = "PLAYING"
          /\ (combined = packet.speed \/ combined' <= combined + Increment)
       \/ packet.state \in {"PAUSED", "RESUMING"} /\ combined' <= Increment
       \/ packet.state \in {"STOPPING", "STOPPED", "PAUSING"}
    ]_<<packet, combined>>

\* A program that goes on without a pause is finally followed at its own speed.
RunsAtFullSpeed ==
  <>[](programState = "PLAYING") => <>[](combined = packet.speed)
=============================================================================
