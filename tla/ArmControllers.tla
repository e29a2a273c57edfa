---------------------------- MODULE ArmControllers ----------------------------
(***************************************************************************)
(* The trajectory controllers of the simulated arm and the two nodes that  *)
(* switch them: scene_initializer.py, which starts one after the robot was *)
(* spawned, and the joint-state recovery of moveit_executor.py, which      *)
(* stops what is running, resets the joints of the Gazebo model to angles  *)
(* inside their limits, and starts again what it stopped.                  *)
(*                                                                         *)
(* Both are sequential and block in service calls; the calls of one fall   *)
(* between any two of the other.  The controller manager, Gazebo and its   *)
(* operator are external.  The recovery has one caller at a time, since it *)
(* runs inside a request (WritingService!ExclusiveService).                *)
(***************************************************************************)
EXTENDS Naturals, FiniteSets

CONSTANTS
  Controllers,  (* recovery.trajectory_controllers: they claim one arm.     *)
  Loaded,       (* Those of them that the launch file loads.                *)
  Arm,          (* ~trajectory_controller, the one the initializer starts.  *)
  Startup,      (* Requests are served while the scene still comes up.      *)
  Unpause       (* ~unpause of the initializer.                             *)

ASSUME LoadedAssumption == Loaded \subseteq Controllers /\ Arm \in Loaded
ASSUME FiniteAssumption == IsFiniteSet(Controllers)
ASSUME SwitchesAssumption == Startup \in BOOLEAN /\ Unpause \in BOOLEAN

VARIABLES
  ctrl,      (* State of each controller in the controller manager.         *)
  paused,    (* Gazebo does not step, so controllers are not updated.       *)
  turned,    (* A joint of the model is outside its limits.                 *)
  seen,      (* ... in the joint state that MoveIt received last.           *)
  ini,       (* Where the initializer is.                                   *)
  rec,       (* Where the recovery is.                                      *)
  cooling,   (* The last recovery began less than recovery.cooldown ago.    *)
  found,     (* controller_names: what the recovery is going to stop.       *)
  stopOk,    (* stopped_ok.                                                 *)
  stopped,   (* What it will start again.                                   *)
  resetOk,   (* reset_ok.                                                   *)
  trouble,   (* History: a switch was refused, or its answer lost.          *)
  crossed    (* History: the initializer started the arm since the recovery *)
             (* asked what runs.                                            *)

world    == <<ctrl, paused, turned, seen>>
recovery == <<rec, cooling, found, stopOk, stopped, resetOk>>
history  == <<trouble, crossed>>
vars     == <<world, ini, recovery, history>>

TypeOK ==
  /\ ctrl \in [Controllers -> {"unloaded", "stopped", "running"}]
  /\ {paused, turned, seen, cooling, stopOk, resetOk, trouble, crossed} \subseteq BOOLEAN
  /\ ini \in {"spawn", "configure", "unpause", "load", "switch", "hold",
              "done", "dead"}
  /\ rec \in {"idle", "query", "stop", "reset", "restart", "await"}
  /\ found \subseteq Controllers
  /\ stopped \subseteq Controllers

\* With the scene up, the arm is under control and the joints are in range.
Init ==
  /\ ctrl = [c \in Controllers |->
               IF Startup \/ c \notin Loaded THEN "unloaded"
               ELSE IF c = Arm THEN "running" ELSE "stopped"]
  /\ paused = Startup
  /\ turned = FALSE
  /\ seen = FALSE
  /\ ini = IF Startup THEN "spawn" ELSE "done"
  /\ rec = "idle"
  /\ cooling = FALSE
  /\ found = {}
  /\ stopOk = TRUE
  /\ stopped = {}
  /\ resetOk = TRUE
  /\ trouble = FALSE
  /\ crossed = FALSE

(***************************************************************************)
(* The controller manager (ros_control), called with BEST_EFFORT.          *)
(***************************************************************************)

Running == {c \in Controllers : ctrl[c] = "running"}

\* What runs after a switch: names that are not loaded, not running or
\* already running are passed over.
After(stop, start) ==
  (Running \ stop) \cup {c \in start : ctrl[c] # "unloaded"}

\* The request is refused as a whole if two controllers claim the arm.
Accepts(stop, start) == Cardinality(After(stop, start)) <= 1

Perform(stop, start) ==
  ctrl' = [c \in Controllers |->
             IF ctrl[c] = "unloaded"       THEN "unloaded"
             ELSE IF c \in After(stop, start) THEN "running" ELSE "stopped"]

\* The spawner loads the controllers of the launch file, stopped.
Load(c) ==
  /\ c \in Loaded /\ ctrl[c] = "unloaded"
  /\ ctrl' = [ctrl EXCEPT ![c] = "stopped"]
  /\ UNCHANGED <<paused, turned, seen, ini, recovery, history>>

(***************************************************************************)
(* Gazebo, its operator, and the joint states on their way to MoveIt.      *)
(***************************************************************************)

\* Physics or a trajectory takes a joint over a turn, or back.
Turn ==
  /\ ~paused
  /\ turned' = ~turned
  /\ UNCHANGED <<ctrl, paused, seen, ini, recovery, history>>

\* joint_states is published by a controller too: not while paused.
Sample ==
  /\ ~paused
  /\ seen' = turned
  /\ UNCHANGED <<ctrl, paused, turned, ini, recovery, history>>

Operate ==
  /\ paused' = ~paused
  /\ UNCHANGED <<ctrl, turned, seen, ini, recovery, history>>

(***************************************************************************)
(* scene_initializer.py.                                                   *)
(***************************************************************************)

Proceed(from, to) ==
  /\ ini = from
  /\ ini' = to
  /\ UNCHANGED <<recovery, trouble>>

\* The model appears in Gazebo.
Spawned == Proceed("spawn", "configure") /\ UNCHANGED <<world, crossed>>

\* SetModelConfiguration, repeated until it succeeds.
Configure ==
  /\ Proceed("configure", "unpause")
  /\ turned' = FALSE
  /\ UNCHANGED <<ctrl, paused, seen, crossed>>

\* A failure to unpause is a warning.
UnpauseWorld ==
  /\ Proceed("unpause", "load")
  /\ IF Unpause THEN paused' \in {FALSE, paused} ELSE UNCHANGED paused
  /\ UNCHANGED <<ctrl, turned, seen, crossed>>

\* The controller manager is polled until it reports the controller loaded.
SawLoaded ==
  /\ ctrl[Arm] # "unloaded"
  /\ Proceed("load", IF ctrl[Arm] = "running" THEN "hold" ELSE "switch")
  /\ UNCHANGED <<world, crossed>>

\* An answer with ok; one without is asked for again until the deadline.  The
\* manager answers from Gazebo's update thread, so not while it is paused.
StartArm ==
  /\ ~paused
  /\ Proceed("switch", "hold")
  /\ Accepts({}, {Arm})
  /\ Perform({}, {Arm})
  /\ crossed' = TRUE
  /\ UNCHANGED <<paused, turned, seen>>

\* The latched trajectory that holds the startup pose.
Hold == Proceed("hold", "done") /\ UNCHANGED <<world, crossed>>

\* Mistake to be caught: the controller is waited for without a deadline.
DiesEarly ==
  /\ ini \in {"spawn", "configure"}
  /\ Proceed(ini, "dead")
  /\ UNCHANGED <<world, crossed>>

\* A deadline has passed or a call has failed: main() returns.
Dies ==
  /\ ini \in {"spawn", "configure", "load"} \/ (ini = "switch" /\ ~paused)
  /\ Proceed(ini, "dead")
  /\ UNCHANGED <<world, crossed>>

Initializer ==
  Spawned \/ Configure \/ UnpauseWorld \/ SawLoaded \/ StartArm \/ Hold \/ Dies

(***************************************************************************)
(* _recover_invalid_joint_state.  A bounded sample ends it at once.        *)
(***************************************************************************)

Becomes(from, to) == rec = from /\ rec' = to

\* The sample is out of bounds and the cooldown is over.  During the cooldown,
\* and if no canonical state can be computed, the recovery just fails.
Recover ==
  /\ rec = "idle" /\ seen /\ ~cooling
  /\ rec' \in {"query", "idle"}
  /\ cooling' = TRUE
  /\ UNCHANGED <<world, ini, found, stopOk, stopped, resetOk, history>>

CooldownEnds ==
  /\ cooling
  /\ cooling' = FALSE
  /\ UNCHANGED <<world, ini, rec, found, stopOk, stopped, resetOk, history>>

\* Mistake to be caught: running controllers that move no joint are listed too.
QueryAll ==
  /\ Becomes("query", "stop")
  /\ found' \in {Running \cup {"joint_state_controller"}, Controllers}
  /\ crossed' = FALSE
  /\ UNCHANGED <<world, ini, cooling, stopOk, stopped, resetOk, trouble>>

\* _running_controller_names: what runs or, if the list service fails, all.
Query ==
  /\ Becomes("query", "stop")
  /\ found' \in {Running, Controllers}
  /\ crossed' = FALSE
  /\ UNCHANGED <<world, ini, cooling, stopOk, stopped, resetOk, trouble>>

\* Nothing to stop: _switch_controllers makes no call.
StopNothing ==
  /\ found = {}
  /\ Becomes("stop", "reset")
  /\ stopOk' = TRUE
  /\ stopped' = {}
  /\ UNCHANGED <<world, ini, cooling, found, resetOk, history>>

\* Mistake to be caught: the lists change places in the request.
StopSwapped ==
  /\ found # {} /\ ~paused
  /\ Becomes("stop", "reset")
  /\ stopped' = found
  /\ stopOk' = TRUE
  /\ Perform({}, found)
  /\ UNCHANGED <<paused, turned, seen, ini, cooling, found, resetOk, history>>

StopAnswered ==
  /\ found # {} /\ ~paused
  /\ Becomes("stop", "reset")
  /\ stopped' = found
  /\ \/ /\ stopOk' = TRUE
        /\ Perform(found, {})
        /\ UNCHANGED trouble
     \/ /\ stopOk' = FALSE      \* ok is false: the manager gave the switch up
        /\ trouble' = TRUE
        /\ UNCHANGED ctrl
  /\ UNCHANGED <<paused, turned, seen, ini, cooling, found, resetOk,
                 crossed>>

\* The call raises: the service is missing, or its answer is lost.
StopRaises ==
  /\ found # {}
  /\ Becomes("stop", "reset")
  /\ stopOk' = FALSE
  /\ stopped' = {}
  /\ trouble' = TRUE
  /\ UNCHANGED ctrl \/ (~paused /\ Perform(found, {}))
  /\ UNCHANGED <<paused, turned, seen, ini, cooling, found, resetOk,
                 crossed>>

\* Mistake to be caught: a failed reset returns before the restart.
ResetReturns ==
  /\ resetOk' \in BOOLEAN
  /\ Becomes("reset", IF resetOk' THEN "restart" ELSE "idle")
  /\ turned' = IF resetOk' THEN FALSE ELSE turned
  /\ UNCHANGED <<ctrl, paused, seen, ini, cooling, found, stopOk, stopped,
                 history>>

\* _reset_gazebo_joint_state.  Of an answer that is lost the effect may stay.
Reset ==
  /\ Becomes("reset", "restart")
  /\ resetOk' \in BOOLEAN
  /\ turned' \in IF resetOk' THEN {FALSE} ELSE {turned, FALSE}
  /\ UNCHANGED <<ctrl, paused, seen, ini, cooling, found, stopOk, stopped,
                 history>>

Restarted == Becomes("restart", IF resetOk THEN "await" ELSE "idle")

RestartNothing ==
  /\ stopped = {}
  /\ Restarted
  /\ UNCHANGED <<world, ini, cooling, found, stopOk, stopped, resetOk, history>>

\* A refusal is logged once the state is bounded, and nothing more.
RestartAnswered ==
  /\ stopped # {} /\ ~paused
  /\ Restarted
  /\ \/ /\ Accepts({}, stopped)
        /\ Perform({}, stopped)
        /\ UNCHANGED trouble
     \/ /\ trouble' = TRUE
        /\ UNCHANGED ctrl
  /\ UNCHANGED <<paused, turned, seen, ini, cooling, found, stopOk, stopped,
                 resetOk, crossed>>

RestartRaises ==
  /\ stopped # {}
  /\ Restarted
  /\ trouble' = TRUE
  /\ \/ UNCHANGED ctrl
     \/ ~paused /\ Accepts({}, stopped) /\ Perform({}, stopped)
  /\ UNCHANGED <<paused, turned, seen, ini, cooling, found, stopOk, stopped,
                 resetOk, crossed>>

\* Mistake to be caught: the loop waits for the sample and nothing else.
AwaitSample ==
  /\ ~seen
  /\ Becomes("await", "idle")
  /\ UNCHANGED <<world, ini, cooling, found, stopOk, stopped, resetOk, history>>

\* A bounded sample arrives (true), or recovery.state_timeout passes (false).
Await ==
  /\ Becomes("await", "idle")
  /\ UNCHANGED <<world, ini, cooling, found, stopOk, stopped, resetOk, history>>

\* The steps that come of their own accord; a call that breaks does not.
Recovering ==
  \/ Query \/ StopNothing \/ StopAnswered \/ Reset
  \/ RestartNothing \/ RestartAnswered \/ Await

Breaks == StopRaises \/ RestartRaises

(***************************************************************************)
(* The specification.                                                      *)
(***************************************************************************)

World == Turn \/ Sample \/ Operate \/ \E c \in Loaded : Load(c)

Next ==
  World \/ Initializer \/ Recover \/ CooldownEnds \/ Recovering \/ Breaks

Spec == Init /\ [][Next]_vars

\* Both nodes run, and a service that can answer does.  Nobody has to pause
\* or unpause Gazebo, ask for a recovery, or move a joint.
FairSpec == Spec /\ WF_vars(Initializer) /\ WF_vars(Recovering)

(***************************************************************************)
(* Properties.                                                             *)
(***************************************************************************)

\* Once the initializer has reported that the arm is held, it is under
\* control whenever no recovery is going on: whatever the recovery found
\* running, whether its reset succeeded or not, and however its calls fell
\* between those of the initializer.  Only a refused or lost switch, which
\* the code logs and accepts, can leave the arm alone.
ArmIsHeld == ini = "done" /\ rec = "idle" /\ ~trouble => ctrl[Arm] = "running"

\* Around the reset the controllers are stopped: if the stop was acknowledged,
\* none of them runs and fights the new joint angles when Gazebo sets them,
\* unless the initializer has started one since the recovery asked what runs.
ResetWhileStopped ==
  [][rec = "reset" /\ rec' # rec /\ stopOk /\ ~crossed => Running = {}]_vars

\* If Gazebo is finally left running, a recovery comes to an end, even if the
\* joints keep leaving their limits.
RecoveryReturns ==
  <>[]~paused => (rec # "idle" ~> rec = "idle")

\* If Gazebo is finally left running, the initializer ends.
InitializerEnds ==
  <>[]~paused => <>(ini \in {"done", "dead"})
=============================================================================
