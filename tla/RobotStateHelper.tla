--------------------------- MODULE RobotStateHelper ---------------------------
(***************************************************************************)
(* The set_mode action of the UR driver (robot_state_helper.cpp): it takes *)
(* the robot to a mode by the commands of the dashboard, step by step as   *)
(* the driver reports new robot and safety modes.                          *)
(*                                                                         *)
(* One thread runs the callbacks, and blocks in the dashboard's services.  *)
(* The robot, its operator and the dashboard are external and go on        *)
(* meanwhile.  The topics keep one message and the callbacks ignore a mode *)
(* they know, so a callback sees the present mode if it is another one.    *)
(***************************************************************************)
EXTENDS Integers

CONSTANTS
  Goals,        (* What clients ask for: [target, stop, play].              *)
  Stops,        (* The safety modes the robot can get into.                 *)
  MaxStops      (* Bound: how often it does.                                *)

\* RobotMode.msg and SafetyMode.msg.
UNKNOWN   == -128
POWER_OFF == 3
POWER_ON  == 4
IDLE      == 5
RUNNING   == 7

NORMAL               == 1
REDUCED              == 2
PROTECTIVE_STOP      == 3
SAFEGUARD_STOP       == 5
ROBOT_EMERGENCY_STOP == 7
FAULT                == 9
UNDEFINED_SAFETY_MODE == 11

Modes       == {POWER_OFF, POWER_ON, IDLE, RUNNING}
SafetyModes == {NORMAL, REDUCED, PROTECTIVE_STOP, SAFEGUARD_STOP,
                ROBOT_EMERGENCY_STOP, FAULT}
Selectable  == {POWER_OFF, IDLE, RUNNING}

ASSUME GoalsAssumption ==
  Goals \subseteq [target : Modes, stop : BOOLEAN, play : BOOLEAN]
ASSUME StopsAssumption == Stops \subseteq SafetyModes \ {NORMAL} /\ MaxStops \in Nat

VARIABLES
  mode, safety,   (* The modes the robot is in.                             *)
  doing,          (* The dashboard command it is carrying out.              *)
  stops,          (* How often it got into a stop.                          *)
  robotMode, safetyMode,  (* robot_mode_ and safety_mode_.                  *)
  started,        (* is_started_.                                           *)
  goal,           (* goal_.                                                 *)
  status,         (* The state of that goal in the action server.           *)
  call,           (* The dashboard service the thread is blocked in.        *)
  asked,          (* History: the stop was called for this goal.            *)
  plays,          (* History: how often play was called for this goal.      *)
  unseen          (* History: a safety mode was over before it was seen.    *)

robot   == <<mode, safety, doing, stops>>
known   == <<robotMode, safetyMode, started>>
action  == <<goal, status, call>>
history == <<asked, plays, unseen>>
vars    == <<robot, known, action, history>>

NoGoal    == [target |-> UNKNOWN, stop |-> FALSE, play |-> FALSE]
Restoring == {"power_off", "unlock", "restart", "power_on", "brake_release"}

TypeOK ==
  /\ mode \in Modes
  /\ safety \in SafetyModes
  /\ doing \in Restoring \cup {"nothing"}
  /\ stops \in 0..MaxStops
  /\ robotMode \in Modes \cup {UNKNOWN}
  /\ safetyMode \in SafetyModes \cup {UNDEFINED_SAFETY_MODE}
  /\ {started, asked, unseen} \subseteq BOOLEAN
  /\ goal \in Goals \cup {NoGoal}
  /\ status \in {"none", "active", "succeeded", "aborted", "preempted"}
  /\ call \in Restoring \cup {"none", "stop", "play"}
  /\ plays \in Nat

Init ==
  /\ mode \in Modes
  /\ safety = NORMAL
  /\ doing = "nothing"
  /\ stops = 0
  /\ robotMode = UNKNOWN
  /\ safetyMode = UNDEFINED_SAFETY_MODE
  /\ started = FALSE
  /\ goal = NoGoal
  /\ status = "none"
  /\ call = "none"
  /\ asked = FALSE
  /\ plays = 0
  /\ unseen = FALSE

(***************************************************************************)
(* The robot and its operator.                                             *)
(***************************************************************************)

\* What each command does, one reported mode at a time.  POWER_ON is passed
\* through: the robot goes on to IDLE by itself.
CarryOut ==
  /\ \/ /\ doing = "power_off"
        /\ mode' = POWER_OFF /\ doing' = "nothing" /\ UNCHANGED safety
     \/ /\ doing = "unlock"
        /\ safety' = NORMAL /\ doing' = "nothing" /\ UNCHANGED mode
     \/ /\ doing = "restart"
        /\ safety' = NORMAL /\ mode' = POWER_OFF /\ doing' = "nothing"
     \/ /\ doing \in {"power_on", "brake_release"} /\ mode = POWER_OFF
        /\ mode' = POWER_ON /\ UNCHANGED <<doing, safety>>
     \/ /\ mode = POWER_ON
        /\ mode' = IDLE /\ UNCHANGED <<doing, safety>>
     \/ /\ doing = "brake_release" /\ mode = IDLE
        /\ mode' = RUNNING /\ UNCHANGED <<doing, safety>>
     \/ /\ \/ doing = "power_on" /\ mode \in {IDLE, RUNNING}
           \/ doing = "brake_release" /\ mode = RUNNING
        /\ doing' = "nothing" /\ UNCHANGED <<mode, safety>>
  /\ UNCHANGED <<stops, known, action, history>>

\* A safety mode that is over before the callback saw it.
Missed == status = "active" /\ safety # safetyMode

\* A stop ends what the robot was doing, and may take its power.
Stop ==
  /\ stops < MaxStops
  /\ stops' = stops + 1
  /\ safety' \in Stops \ {safety}
  /\ IF safety' = REDUCED
     THEN UNCHANGED <<mode, doing>>
     ELSE /\ doing' = IF safety' = SAFEGUARD_STOP THEN doing ELSE "nothing"
          /\ mode' \in IF safety' \in {ROBOT_EMERGENCY_STOP, FAULT}
                       THEN {mode, POWER_OFF} ELSE {mode}
  /\ unseen' = (unseen \/ Missed)
  /\ UNCHANGED <<known, action, asked, plays>>

\* The operator releases the emergency stop or leaves the safeguarded space.
Release ==
  /\ safety \in {REDUCED, SAFEGUARD_STOP, ROBOT_EMERGENCY_STOP}
  /\ safety' = NORMAL
  /\ unseen' = (unseen \/ Missed)
  /\ UNCHANGED <<mode, doing, stops, known, action, asked, plays>>

(***************************************************************************)
(* updateRobotState and doTransition.                                      *)
(***************************************************************************)

\* Mistake to be caught: a protective stop is only acknowledged, by a service
\* the helper has no client of.
RecoveryByPopup(s) ==
  IF s = PROTECTIVE_STOP THEN "close_safety_popup"
  ELSE IF s = FAULT THEN "restart" ELSE "none"

\* The service that leads out of a safety mode.
Recovery(s) ==
  IF s = PROTECTIVE_STOP THEN "unlock" ELSE IF s = FAULT THEN "restart" ELSE "none"

\* The service that leads to the next mode.
Rise(m) ==
  IF m = POWER_OFF THEN "power_on" ELSE IF m = IDLE THEN "brake_release" ELSE "none"

\* doTransition: the service to call from mode m and safety mode s.
Transition(g, m, s) ==
  IF g.target < m THEN "power_off"
  ELSE IF s \in {PROTECTIVE_STOP, ROBOT_EMERGENCY_STOP, FAULT} THEN Recovery(s)
  ELSE Rise(m)

\* updateRobotState for an active goal g.
Advance(g, m, s) ==
  \/ /\ m < g.target \/ s > REDUCED
     /\ call' = Transition(g, m, s)
     /\ status' = "active"
  \/ /\ s <= REDUCED /\ m = g.target
     /\ IF m = RUNNING /\ g.play
        THEN call' = "play" /\ status' = "active"
        ELSE call' = "none" /\ status' = "succeeded"
  \/ /\ s <= REDUCED /\ m > g.target
     /\ call' = "none"
     /\ status' = "aborted"

\* Mistake to be caught: the state of the goal is not looked at.
UpdateAlways(m, s) ==
  /\ Advance(goal, m, s)
  /\ plays' = plays + (IF call' = "play" THEN 1 ELSE 0)

Update(m, s) ==
  IF status = "active"
  THEN /\ Advance(goal, m, s)
       /\ plays' = plays + (IF call' = "play" THEN 1 ELSE 0)
  ELSE UNCHANGED <<call, status, plays>>

\* startActionServer, when both modes are known.
Start(m, s) == started' = (started \/ (m # UNKNOWN /\ s # UNDEFINED_SAFETY_MODE))

RobotModeCallback ==
  /\ call = "none" /\ robotMode # mode
  /\ robotMode' = mode
  /\ Update(mode, safetyMode)
  /\ Start(mode, safetyMode)
  /\ UNCHANGED <<robot, safetyMode, goal, asked, unseen>>

SafetyModeCallback ==
  /\ call = "none" /\ safetyMode # safety
  /\ safetyMode' = safety
  /\ Update(robotMode, safety)
  /\ Start(robotMode, safety)
  /\ UNCHANGED <<robot, robotMode, goal, asked, unseen>>

(***************************************************************************)
(* The action server.  A new goal preempts the active one.                 *)
(***************************************************************************)

\* Mistake to be caught: nothing stops the program first.
AcceptGoalUnstopped(g) ==
  /\ started /\ call = "none"
  /\ goal' = g
  /\ IF g.target \in Selectable
     THEN \/ /\ robotMode # g.target \/ safetyMode > REDUCED
             /\ call' = Transition(g, robotMode, safetyMode)
             /\ status' = "active"
          \/ /\ robotMode = g.target /\ safetyMode <= REDUCED
             /\ Advance(g, robotMode, safetyMode)
     ELSE call' = "none" /\ status' = "aborted"
  /\ asked' = FALSE
  /\ plays' = IF call' = "play" THEN 1 ELSE 0
  /\ UNCHANGED <<robot, known, unseen>>

\* setModeGoalCallback.
AcceptGoal(g) ==
  /\ started /\ call = "none"
  /\ goal' = g
  /\ IF g.target \in Selectable
     THEN \/ /\ robotMode # g.target \/ safetyMode > REDUCED
             /\ call' = IF g.stop THEN "stop"
                        ELSE Transition(g, robotMode, safetyMode)
             /\ status' = "active"
          \/ /\ robotMode = g.target /\ safetyMode <= REDUCED
             /\ Advance(g, robotMode, safetyMode)
     ELSE call' = "none" /\ status' = "aborted"
  /\ asked' = (call' = "stop")
  /\ plays' = IF call' = "play" THEN 1 ELSE 0
  /\ UNCHANGED <<robot, known, unseen>>

\* setModePreemptCallback, after a client cancelled the goal.
Preempt ==
  /\ call = "none" /\ status = "active"
  /\ status' = "preempted"
  /\ UNCHANGED <<robot, known, goal, call, history>>

(***************************************************************************)
(* safeDashboardTrigger returns.                                           *)
(***************************************************************************)

\* When the robot accepts a command.
Accepted(c) ==
  \/ c \in {"stop", "power_off"}
  \/ c = "unlock"  /\ safety = PROTECTIVE_STOP
  \/ c = "restart" /\ safety = FAULT
  \/ c \in {"power_on", "brake_release"}
       /\ safety \in {NORMAL, REDUCED, SAFEGUARD_STOP}
  \/ c = "play"    /\ mode = RUNNING

Carried(c) == doing' = IF c \in Restoring THEN c ELSE doing

\* What the callback does next: after the stop comes the transition.
Continues ==
  call' = IF call = "stop" THEN Transition(goal, robotMode, safetyMode) ELSE "none"

\* Mistake to be caught: a goal whose program was started stays active.
SucceedsLater ==
  /\ call # "none" /\ Accepted(call)
  /\ Carried(call)
  /\ Continues
  /\ UNCHANGED <<mode, safety, stops, known, goal, status, asked, plays, unseen>>

\* success: the program that was played was the last thing to do.
CallSucceeds ==
  /\ call # "none" /\ Accepted(call)
  /\ Carried(call)
  /\ Continues
  /\ status' = IF call = "play" THEN "succeeded" ELSE status
  /\ UNCHANGED <<mode, safety, stops, known, goal, asked, plays, unseen>>

\* No success, or no answer: the goal is aborted, and the callback goes on.
CallFails ==
  /\ call # "none"
  /\ \/ UNCHANGED doing
     \/ Accepted(call) /\ Carried(call)
  /\ Continues
  /\ status' = IF status = "active" THEN "aborted" ELSE status
  /\ UNCHANGED <<mode, safety, stops, known, goal, history>>

(***************************************************************************)
(* The specification.                                                      *)
(***************************************************************************)

Robot  == CarryOut \/ Release
Helper == RobotModeCallback \/ SafetyModeCallback \/ CallSucceeds \/ CallFails

Next ==
  \/ Robot \/ Stop
  \/ Helper
  \/ \E g \in Goals : AcceptGoal(g)
  \/ Preempt

Spec == Init /\ [][Next]_vars

\* The thread serves its queue in turn (strong fairness: a message waits
\* while others are served) and the dashboard's services return (the client
\* has a receive timeout); the robot carries commands out, and the operator
\* releases a stop in the end.  Clients and stops come as they like.
FairSpec ==
  /\ Spec
  /\ WF_vars(CarryOut) /\ WF_vars(Release)
  /\ SF_vars(RobotModeCallback) /\ SF_vars(SafetyModeCallback)
  /\ WF_vars(CallSucceeds \/ CallFails)

(***************************************************************************)
(* Properties.                                                             *)
(***************************************************************************)

\* The thread only starts a command for the goal that is active, or in the
\* rest of the callback in which its stop failed; and if the goal wants the
\* program stopped, it has called for that before it touches the robot.
CommandsServeTheGoal ==
  [][call' # call /\ call' # "none" =>
       /\ status' = "active" \/ call = "stop"
       /\ goal'.stop /\ call' \in Restoring => asked']_vars

\* However the modes change meanwhile, a goal plays the program at most once.
PlaysOnce == plays <= 1

\* When no new goal replaces it, a goal comes to an end, unless a safety mode
\* stayed unseen: the helper acts on the changes it sees, and nothing makes it
\* try again.
ClientsRest == <>[][\A g \in Goals : ~AcceptGoal(g)]_vars
GoalEnds == ([]~unseen /\ ClientsRest) => (status = "active" ~> status # "active")
=============================================================================
