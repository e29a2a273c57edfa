# TLA+ models of the writing robot

This directory holds TLA+ specifications of the robot-writing system of this
repository, the TLC configurations that model-check them, and proofs of their
main invariants that TLAPS checks. Paths below are relative to `src/src/`
unless they begin with a module name; `PROJECT.json` maps every definition to
the lines it models.

Contents: [the system](#1-the-system),
[what is modelled](#2-modules-and-the-code-they-model),
[what TLC checks](#3-what-tlc-checks), [fairness](#4-fairness),
[what is proved](#5-what-is-proved),
[where code and documentation disagree](#6-where-the-code-and-its-documentation-disagree),
[what is not modelled](#7-what-is-not-modelled), [the plan](#8-plan),
[how to run it](#9-running-the-tools).

## 1. The system

A UR5e writes text or draws pictures on a sheet of paper, in Gazebo or on a
real arm. Four groups of programs are involved.

    write_cli, any ROS client                           operator, teach pendant
         | /vla/write_text, /vla/draw_image                      |
         v                                                       v
    writing_node --- MoveIt --- trajectory controllers --- UR driver --- robot
      |  layout, parsers          ^      ^        ^          |  External Control
      |  moveit_executor          |      |        |          |  program, dashboard
      |  joint-state recovery ----+      |   controller_stopper, robot_state_helper
      |                     scene_initializer
      v
    /vla/status <- force gateway (ROS 2)         pen_monitor -> pose, contact
                                                   -> paper_view, ink plugin

### 1.1 The writing package (`vla_writing`)

| component | state it keeps | operations and partners | what is hard | what makes it correct |
|---|---|---|---|---|
| writing node `scripts/writing_node.py` | lock, busy flag, latched `/vla/status`, executor | two services, a handler thread per connection; calls parsers, layout and executor in turn | handlers interleave; a dozen calls can fail, with a result or an exception | one request at a time, everyone is answered, the status at rest is a resting one |
| MoveIt executor `vla_writing/moveit_executor.py` | initialized, the MoveGroup, time of the last recovery | initialize, ready pose, move to the first waypoint, Cartesian plan, execute, fallback per stroke | partial plans, aborted trajectories, a plan made for a pose the arm has left | executes from where it planned; "completed" means written; a dry run moves nothing |
| trajectory builder `trajectory_builder.py` | none | waypoints of a stroke and of a sentence | degenerate strokes | pen lifted between strokes |
| joint-state recovery (in the executor) | deadline, cooldown, controllers stopped | list, stop, reset of Gazebo's joints, restart, wait for a bounded sample | every call can fail or lose its answer; another node switches the same controllers; Gazebo may be paused | the arm gets its controller back; nothing runs during the reset; it ends |
| scene initializer `scripts/scene_initializer.py` | where it is in its sequence | spawn, set joints, unpause, wait for the controller, start it, hold | deadlines, refusals, calls that block while Gazebo is paused | it ends, and the arm is held |
| pen monitor `scripts/pen_monitor.py` | last pose and contact | a loop: transform of the tip, then two topics | two topics, one origin | contact and pose belong together |
| paper view `scripts/paper_view.py` | image, last pixel | two subscriber threads and a timer | a lift that overtakes a pose | a line joins only poses of one stroke |
| ink plugin `src/ink_visual_plugin.cpp` | the current line, contact | per simulation update: start, extend or end a line | contact that comes and goes | as above |
| layout engine `vla_writing/layout_engine.py` | a cursor | wraps, aligns and scales glyphs to the paper | last glyph of a line, last line, text that is too long | inside the margins, order of the text kept |
| joint state utilities `joint_state_utils.py` | none | the equivalent angle inside the limits | turns, narrow limits | same position, inside the limits |
| interpolator `interpolator.py` | none | resamples a polyline | points that coincide | end points kept, step bounded |
| data types, ASCII font, hanzi parser, image parser | tables, a cache | text and pictures to strokes | files that are missing | - |
| scene markers, `write_cli.py` | none | a constant marker array; one service call | - | - |

### 1.2 The force gateway (`ros2_force_control_interface`)

`force_control_gateway.py` keeps a mode (position, force, compliance), an
enabled flag, a target force, a compliance flag and the last wrench. It takes
commands on topics and services and publishes its state, a contact flag and a
status, the last two under the names the writing package uses as well. It is
single-threaded, so its hazards are orders of legal calls: flags that are set
by one command and not undone by another, and a wrench that is never too old.

### 1.3 The UR driver (`Universal_Robots_ROS_Driver`)

| component | state it keeps | operations and partners | what is hard | what makes it correct |
|---|---|---|---|---|
| hardware interface, control authority `ur_robot_driver/src/hardware_interface.cpp` | runtime state, program state, reset and stop requests, one flag per kind of command | loop of read, update and write; callback of the client library; `hand_back_control`; `prepareSwitch`/`doSwitch` | five threads share atomics; a program comes and goes between any two of their steps | only commands of the running controllers, computed since the program began, reach it |
| - speed scaling and pausing | pausing state, ramp | in `read` | packets that skip a state | nothing moves while it resumes, no jumps, the ramp ends |
| - trajectory forwarding | the controller whose goal is out | start, points, cancel; a result on another thread | a result after a switch | every goal ends once |
| - IO, payload, tool and pose | none | one call of the client library each | - | - |
| controller stopper `controller_stopper.cpp` | program state seen, controllers it stopped | follows `robot_program_running` by stop and start of controllers | a queue of one, blocking services, refusals | what ran before runs again afterwards |
| robot state helper `robot_state_helper.cpp` | modes seen, goal | `set_mode` action by dashboard commands, one per change of mode | modes change while it is blocked; clients cancel and replace goals; commands fail | plays once, stops first, ends |
| dashboard client `dashboard_client_ros.cpp` | a connection | one request and one answer per service | - | - |
| calibration, log handler, tool communication, launch files | - | - | - | - |

The directory `universal_robot` is an empty submodule.

Where the components meet: the recovery and the initializer switch the same
controllers through one controller manager; the stopper, a user and the driver
do the same on the real arm; the writing node relies on `/vla/status` being
its own. The hazards this gives rise to, each at its line and with the
property that covers it, are listed in `PROJECT.json`.

## 2. Modules and the code they model

| component | specification | proofs | instance |
|---|---|---|---|
| what the writing node promises | `OneAtATime` | | |
| writing node, executor, trajectory builder | `WritingService` | `WritingProofs` | `MCWriting` |
| scene initializer, recovery, controller manager of Gazebo | `ArmControllers` | `ArmProofs` | `MCArm` |
| driver loop, program state, controller manager, stopper | `DriverControl` | `DriverProofs` | `MCDriver` |
| `set_mode` action, dashboard, robot | `RobotStateHelper` | `HelperProofs` | `MCHelper` |
| speed scaling of the driver | `SpeedScaling` | `DriverProofs` | `MCScaling` |
| ROS 2 force gateway | `ForceGateway` | `GatewayProofs` | `MCGateway` |
| pen monitor, paper view, the gateway's contact | `PaperView` | `PaperProofs` | `MCPaper` |
| ink plugin | `InkPlugin` | `PaperProofs` | `MCInk` |
| layout engine | `TextLayout` | `LayoutProofs` | `MCLayout` |
| joint state utilities and their use by the executor | `JointAngles` | `AnglesProofs` | `MCAngles` |

All modules follow one rule for atomicity: a thread is cut where it calls
another component, blocks, or reads or writes what another thread can touch;
the code in between is one action. What an external component answers is a
nondeterministic choice over everything it may answer. History variables, which
no code corresponds to, are marked `History` at their declaration, and no
guard reads one.

### 2.1 `WritingService`

`pc[c]` is where the handler of client `c` is. Its values and the code:

| `pc` | the next step | code |
|---|---|---|
| `called` | `Begin` or `Reject` | `_begin`: non-blocking acquire and busy flag |
| `begun` | `RefuseInput`, `AcceptInput` | blank text, missing image |
| `parsing` | `Parse`, `ParseFails` | parsers and layout, as one choice of a layout |
| `prepare`, `ready` | `Initialize`, `ReadyPose` and their failures | `_prepare_executor`, `move_to_ready_pose` |
| `start` | `EnsureStart`, `EnsureStartFails` | `_ensure_start_at_first_waypoint` |
| `plan` | `PlanCartesian`, `PlanFails`, `PlanRaises` | `plan_cartesian`, fraction check |
| `execute` | `Execute`, `ExecuteFails` | `execute` |
| `publish`, `ending` | `Publish`, `End` | status of the result or the except clause; the finally clause |

`attempt` is the control of `plan_with_fallback`: 0 is the whole sentence, `i`
is stroke `i`. A waypoint is a pair of a stroke's position in the layout and a
number; the first hovers, the last lifts, those in between are on the paper.
`ink` counts how often each was written. Poses, orientations and the timing of
a trajectory are abstracted. A plan is a prefix of a path, since MoveIt's
fraction counts from the first waypoint; an aborted execution is a prefix of a
plan. The fraction is taken to be the share of the waypoints, which is what
MoveIt computes for a Cartesian path.

`GoFails` leaves the arm where it is, or anywhere between: a free-space path
is not made to lift first, so the pen may stay down if it was down.

The recovery, which the executor calls before it plans and executes, appears
here as a call that succeeds or fails; `ArmControllers` models its inside. The
two are not composed: `ArmControllers` needs only that recoveries never overlap,
and they do not because of `ExclusiveService`.

### 2.2 `ArmControllers`

`ctrl` is the controller manager's view of the trajectory controllers, which
all claim the six joints of the one arm. A switch is called with BEST_EFFORT
(names that are not loaded, or are already as asked, are passed over) and is
refused as a whole if two controllers would claim the arm. `paused` is Gazebo;
while it is paused the manager does not answer, so the actions of switch calls
need `~paused`. `turned` says that a joint of the model is outside its limits,
`seen` that it is in the joint state that arrived last.

`ini` follows `main` of the initializer, `rec` follows
`_recover_invalid_joint_state`: `query` (list), `stop`, `reset`, `restart`,
`await`. `found`, `stopOk`, `stopped` and `resetOk` are its locals
`controller_names`, `stopped_ok`, the list returned with it, and `reset_ok`.
Every call has three outcomes: it is answered with success, answered with
failure, or raises, in which case its effect may still have happened.

### 2.3 `DriverControl`

`loop` goes round `read`, `update`, `write`. `Read` takes the runtime state of a
packet, or asks for a reset if there is none; `Update` is `cm.update` with
`shouldResetControllers()`, and performs an accepted switch (`doSwitch`);
`Write` sends the requested stop or else a command. `program` is the connection
of the External Control program: `connected` and `lost` are the moments at
which `handleRobotProgramState` is about to run on the client library's
thread, `announced` is between its two assignments. `calling` is
`hand_back_control` between its test and its request.

The controller manager, called with STRICT, accepts one switch at a time and
answers when the loop has performed it; `prepareSwitch` is `Prepared`. `mail` is
the topic `robot_program_running`. The stopper's queue holds one message, so
`Receive` takes any message that has arrived and drops those before it.

The clearing of `stop_requested_` and the writing of the stop are one step, and
so are the sending of a command and its flag checks. The driver's default,
`non_blocking_read` false, is assumed.

### 2.4 `RobotStateHelper`

`mode` and `safety` are the robot's, `robotMode` and `safetyMode` the helper's.
One thread runs all the callbacks and blocks in dashboard calls: `call` is the
service it waits for, and a callback starts only when it is `none`. `Update`,
`Advance` and `Transition` are `updateRobotState` and `doTransition`;
`AcceptGoal` is the goal callback up to its first service call, `Preempt` the
cancel callback; `CallSucceeds` and `CallFails` are the return of
`safeDashboardTrigger` and the rest of the callback. `doing` is the command the
robot carries out. Modes the helper only logs (booting, backdrive, confirm
safety, updating) are left out; the system emergency stop is handled by the
helper as the robot emergency stop is, which stands for both.

### 2.5 `SpeedScaling`

`pausing` and `combined` are `pausing_state_` and `speed_scaling_combined_`;
`packet` is what the last packet said. The robot (`Proceed`, `ChangeSpeed`) goes
on whether or not it is read, so a packet may miss any number of its states.
`ReadPacket` is the end of `read`: `Pausing` the two tests that set the pausing state,
`Combined` the branches after them. `Memory` is what the variable, which no
constructor sets, may hold before the first packet. `DriverControl` models the
rest of the loop; the two share only the packet. Their names do not clash, and
neither do those of `PaperView` and `InkPlugin`, so that one module of proofs
extends both.

### 2.6 `ForceGateway`

The node has one thread, so each callback is one action: `Command`, `SetForce`,
`SetCompliance`, the four bridge topics, `Measure`, and `Publish` for the timer.
`state` is the last publication. Forces are integers, with `NotFinite` for a
reading that is none. `standard` and `told` remember, for `FollowsLastMessages`,
that only the standard topics of `ros2_force_control_interface/README.md:61`
were used, what each of them said last, and of two that overwrite each other
which came later: the mode word or the last stop (`standing`), the wrench
command or the target (`byWrench`). `overruled` says that
a force command or a mode came over an active compliance.

### 2.7 `PaperView` and `InkPlugin`

Both see the same pen. Its place is the number of the stroke it is drawing, or
one of the places where it is lifted; coordinates only matter as to whether two
pixels belong to one stroke. In `PaperView` the monitor's loop is `Look` (pose)
and `Tell` (contact); each topic is a queue that forgets its oldest message,
`GatewayTells` is the gateway's mirror on the contact topic, and the two
callbacks of the view are one action each, since they hold its lock. In
`InkPlugin` a `Frame` is `OnPreRender`, and the pen moves between frames.

### 2.8 `TextLayout`

The loop of `layout_text`, one step per token, letter, line break or decision.
`next` and `letter` say where in the text it is, `word` holds the widths of the
letters of a word as `_word_width` adds them up, `phase` says whether a word is
placed whole (`_place_word`) or letter by letter because it is wider than a
line. Glyphs have a sort and whole widths and heights; the tolerance of 1e-9
has no counterpart in integers. What `_place_word` and the code after it set is
set with each letter, since nothing reads it in between.

### 2.9 `JointAngles`

`CanonicalAngle` is `canonical_angle` with its candidates, order of preference
and clamp; `NormalizePoint` goes through a trajectory, each point with the one
before it as reference, and `Read`, `DryRun` and `RefusePoint` are the executor
around it. An angle is a number of units, `TwoPi` of them a turn. `OwnLimits`,
`AliasLimits` and `DefaultLimits` are the three places a limit is looked up.

## 3. What TLC checks

### 3.1 Runs that pass

| run | properties | what it shows |
|---|---|---|
| `writing_safety` | `TypeOK`, `StatusSettled`, `ExecutesFromItsStart`, `CompletedIsWritten`, `AtMostTwice`, `Answered`, `ServesOneAtATime`, `DryRunIsStill` | the gate and its abstract specification, the status at rest, the pose a plan starts from, what "completed" guarantees, that every call is answered, and that a dry run moves nothing, with every failure of every external call |
| `arm` | `TypeOK`, `ArmIsHeld`, `ResetWhileStopped`, `RecoveryReturns`, `InitializerEnds` | initializer and recovery at the same time, from the start of the scene on |
| `driver` | `TypeOK`, `FlagsMirror`, `StaleOnce`, `ControllersFollow`, `StopDelivered` | loop, callback, services, user and stopper in every order |
| `helper` | `TypeOK`, `PlaysOnce`, `CommandsServeTheGoal`, `GoalEnds` | every goal, replaced or cancelled at any time, while the robot runs into two stops and calls fail |
| `scaling` | `StillWhileResuming`, `RisesSlowly`, `RunsAtFullSpeed` | pauses, resumptions and stops at changing speeds, seen through packets that miss any of it |
| `gateway` | `TypeOK`, `StatusAgrees`, `FollowsLastMessages` | every message and service in every order, with a publication between any two; what a client of the standard topics gets, and which of their orders matter |
| `paper` | `TypeOK`, `StrokesStayApart`, `StrokesLeaveInk` | the monitor, two queues, two subscriber threads and a second publisher |
| `ink` | `InkTypeOK`, `LinesOfOneStroke` | frames that fall anywhere between the movements of the pen, and lines that cannot be created |
| `layout` | `TypeOK`, `InsidePaper`, `ReadsInOrder`, `NothingLost` | every text of at most six glyphs, wrapped or not |
| `angles` | `TypeOK`, `BoundedAndEquivalent`, `GoodLeftAlone` | trajectories of at most three points, readings and limits of every sort |

Each of these properties is broken by at least one mutant of the model: a
definition changed as a plausible bug would change the code. The mutated forms
stand in the modules under the comment "Mistake to be caught", each before the
definition it replaces, and no specification uses them.

Some properties carry an exception that the code makes necessary, recorded by
a history variable. `ArmIsHeld` holds unless a switch was refused or its answer
lost (`trouble`): the recovery logs that and goes on. `ResetWhileStopped` holds
unless the initializer started the arm after the recovery asked what was
running (`crossed`): the two nodes do not know of each other, and a start can
fall between the stop and the reset. `ControllersFollow` holds unless the
program changed while the stopper was still busy (`flapped`) or a user switched
controllers while the program was down (`meddled`). `StillWhileResuming` and
`RisesSlowly` are about pauses that a packet showed (`unshown`); of another the
driver knows nothing. `StatusAgrees` excepts a compliance that was overruled
(`overruled`). `StrokesStayApart` holds while the samples reach the view in
their order (`timely`) and every lift falls into a sample (`seen`);
`LinesOfOneStroke` while every lift falls into a frame (`rendered`). What these say
of packets, samples and frames is what the sampling must be like for the result
to be right: the code has no other protection.

### 3.2 Bounds, and why they are enough

- `MCWriting`: two clients, which is enough for one to be refused and for one
  to begin when another ends; a stroke of three points and one of a single
  point, which has no waypoints; the layouts of one stroke, two strokes, and a
  drawable stroke followed by the degenerate one. Two strokes let the fallback
  fail on the first, on the second, and after the sentence was half written.
  A real stroke has many points and 98 percent are required; with five or ten
  waypoints 98 percent would be all of them, so the runs use 75 percent, at
  which a path of five or ten waypoints can be accepted without its last one,
  as a real path of fifty or more can. Client symmetry is used only where no
  liveness property is checked. `~dry_run` is chosen once in Init.
- `MCArm`: the three controllers that `recovery.trajectory_controllers` can
  name, of which a launch file loads two. `arm` starts with the scene still
  coming up, and the recovery can run at any time in it. `Unpause` is TRUE, the
  default.
- `MCDriver`: two controllers of one kind, as the scaled and the plain position
  controllers are, and a second kind that none of them uses; `MaxMail` 2 messages
  on their way, the fewest at which a stop and a start collapse. The bound
  delays a change of the program, it cuts off no step of the driver. The program,
  the stops and the user's switches are unbounded.
- `MCHelper`: goals for POWER_OFF and IDLE with and without stop, RUNNING with
  each of stop and play, and one target that cannot be selected; every safety
  mode, at most `MaxStops` 2 times. Two stops are the fewest with which a second
  one arrives while the first is being recovered from.
- `MCScaling`: a full speed of five and an increment of two, so that a ramp takes
  three packets and its last step is cut off; nothing else is bounded.
- `MCGateway`: readings of either sign beyond the threshold, none at all, and one
  that is no number; targets negative, zero and positive. Nothing is bounded;
  `FollowsLastMessages` is about what each topic said last, not how often.
- `MCPaper`: two strokes, queues of two messages, four samples and one contact of
  the gateway. Two strokes are what a line can join, and a queue of two can be full
  while it holds the contact of a lift; the third sample in a row is the one that
  must leave ink, and the fourth the one after the lift. The real queues hold
  twenty messages, which makes a loss rarer, not different.
- `MCInk`: four strokes, three lines of at most three points, three places, two
  of which are closer than the least distance of two points.
- `MCLayout`: a sheet of seven units with room for three lines of letters; texts
  of a narrow letter, a letter that is wider than the sheet and higher than the
  others, a Hanzi, an image as wide as the sheet and higher than two lines, a
  space and a newline. Six glyphs are enough for a word that wraps and goes on.
- `MCAngles`: a turn of eight units and a margin of one; a joint with limits of
  two turns, one whose limits leave less than one, and one without; three points,
  two to make a step between and one that raises after others were changed. The
  limits stand in all three places they are looked up.

No run has a state constraint, and every run checks for deadlock but `layout` and
`angles`, whose algorithms come to an end.

## 4. Fairness

- `WritingService!FairSpec`: weak fairness of each handler thread and of
  `NodeReady`. Python threads are scheduled, and every external call returns:
  MoveIt limits its planning, and although it does not monitor the duration of
  an execution (`vla_writing/launch/move_group_writing.launch:26`), the
  trajectory controllers end every goal by their `goal_time`. That needs time
  to pass: `Answered` is about a simulation that is not paused for good, and
  `ArmControllers` shows what a paused one does (see 6). Clients owe nothing.
- `ArmControllers!FairSpec`: weak fairness of the initializer and of the
  recovery. A call to the controller manager is disabled while Gazebo is paused,
  and that is why `RecoveryReturns` and `InitializerEnds` assume that Gazebo is
  finally left running. The operator, the joints, failures and new recoveries
  have no fairness; a bounded sample need never come.
- `DriverControl!FairSpec`: weak fairness of the loop (a real-time thread),
  the callback, the stopper, and a service call that began. The robot, the
  program and the user have none. `StopDelivered` assumes that the robot
  finally accepts commands; the loop need not see any given runtime state.
- `RobotStateHelper!FairSpec`: the queue of the one callback thread is served
  in order, so a mode that waits is served though others arrive: strong
  fairness for each of the two callbacks. Dashboard services return, for the
  client sets a receive timeout (`dashboard_client_ros.cpp:360`). The robot
  carries a command out, and the operator releases a stop in the end; without
  these no controller of the robot could promise anything. `GoalEnds`
  assumes further that no goal replaces it any more (`ClientsRest`) and that
  no safety mode came and went unseen; see 6.
- `SpeedScaling!ScalingFairSpec`: weak fairness of `ReadPacket`. The loop has a thread of its
  own and the robot sends packets at a fixed rate. The robot owes nothing:
  `RunsAtFullSpeed` assumes that its program finally plays on, at any speeds.
- The other modules state no liveness: the gateway and the pictures only follow
  what others do, and the two algorithms of `TextLayout` and `JointAngles` are
  loops over a text and a trajectory of fixed length.

## 5. What is proved

TLAPS proves, for every value of the constants that meets the ASSUMEs of the
module (types of the constants, `None` not a client, finitely many controllers;
no bound on clients, strokes, layouts, controllers, goals, stops, queues,
samples, lines, texts, trajectories or angles):

| theorem | states | the inductive invariant and why it is needed |
|---|---|---|
| `WritingProofs!TypeCorrect`, `Exclusive` | `TypeOK`, `ExclusiveService` | `TypeInv`: together with `Locals` (a handler that drives the arm has a layout, and its attempt is a stroke of it) and `Plans` (what is executed is a non-empty prefix of the path). Without them `First`, `Trace` and `layout[c][attempt]` need not be defined. |
| `WritingProofs!Settled` | `StatusSettled` | `StatusInv`: a handler that is about to release the lock has published its conclusion, or nothing at all |
| `WritingProofs!FromItsStart` | `ExecutesFromItsStart` | `Hovering`: already true from the move to the first waypoint on; that nobody else moves the arm follows from `ExclusiveService` |
| `WritingProofs!NeverThrice` | `AtMostTwice` | `InkInv`: before attempt n a waypoint of an earlier stroke was written at most twice, any other at most once, and the page is empty before the sentence |
| `WritingProofs!CompletedWrites` | `CompletedIsWritten` | `WrittenInv`: what a handler owes at each point. Before attempt n of the fallback, what is unwritten of the strokes before n is within the granted share of their waypoints, since each was planned to the fraction and executed; shares of disjoint paths add up to the share of the sentence, by the cardinality lemmas of `FiniteSetTheorems`. |
| `WritingProofs!StillInDryRun` | `DryRunIsStill` | `Untouched`: in a dry run the arm has not left where it began and nothing is written; the calls that would move it return before they do |
| `WritingProofs!Implements` | `ServesOneAtATime` | step simulation of `OneAtATime` under the mapping `Phase`, from `TypeInv` |
| `ArmProofs!TypeCorrect`, `ArmHeld` | `TypeOK`, `ArmIsHeld` | `Held`: the arm's controller stays loaded once polled, and once started it runs or is on the recovery's list of what to restart. A restart is accepted because nothing else runs then. |
| `ArmProofs!ResetIsSafe` | `ResetWhileStopped` | `Alone`: while the recovery is about to stop, only what it found is running |
| `DriverProofs!TypeCorrect`, `FlagsRight` | `TypeOK`, `FlagsMirror` | `Mirror`: no two controllers run at once, now or after the accepted switch. A kind has one flag, so without that, stopping one of two would clear the flag of both. |
| `DriverProofs!NeverStaleTwice` | `StaleOnce` | `Staleness`: while a controller is stale the reset is pending, because it is requested before the program counts as running and only the update that performs it withdraws it |
| `DriverProofs!StopperRight` | `ControllersFollow` | `Following`: while nobody interferes, stopper, messages, switch and program are together in one of the phases of a stop (from the boot or the warning to the accepted switch) or of a start; in each of them what runs, what the stopper saved and what the user wanted are related in one way |
| `HelperProofs!TypeCorrect`, `PlayedOnce` | `TypeOK`, `PlaysOnce` | `GoalInv`: an active goal that was played is in the play call, which ends it either way |
| `HelperProofs!CommandsServe` | `CommandsServeTheGoal` | `GoalInv`: an active goal that wants a stop has asked for it, unless it had only to play |
| `DriverProofs!ScalingTypeCorrect` | `ScalingTypeOK` | itself; no run checks it, since this holds for all constants |
| `DriverProofs!StandsStill`, `Slowly` | `StillWhileResuming`, `RisesSlowly` | `PauseKnown`: a pause that was shown is in `pausing` until the robot plays; `FollowsOrRises`: what is slower than a playing robot is on the ramp |
| `GatewayProofs!TypeCorrect`, `StatusAgreement` | `TypeOK`, `StatusAgrees` | `Ruled`: unless it was overruled, an active compliance is in the mode's word, and that word in the compliance flag |
| `GatewayProofs!LastMessagesCount` | `FollowsLastMessages` | `Followed`: the meaning of the text is known while the gateway is disabled and does not show it, and there is no compliance: from what is published alone, the mode after the next start would not follow |
| `PaperProofs!TypeCorrect`, `NeverJoined` | `TypeOK`, `StrokesStayApart` | `PaperInv`: the pen's gaps and samples are ordered in time (`Pen`); the contacts on their way are all those after the last one told, in order, and one that reports ink is of no gap (`Contacts`); a pose on its way was sampled after the gap before its stroke and before the gap after it (`Poses`); as long as the view has a last point, no gap after that point's stroke has been told (`Line`). A pose that would join two strokes was sampled after such a gap, whose contact is then told before it. |
| `PaperProofs!InkIsLeft` | `StrokesLeaveInk` | `RowInv`: moreover each sample of the present row of poses was taken in contact, so its contact, wherever it is, reports ink (`RowTouches`), and a row of two has begun its line unless the contacts have overtaken the poses (`RowHasLine`) |
| `PaperProofs!InkTypeCorrect` | `InkTypeOK` | with `Frames`: a line is open in contact only |
| `PaperProofs!LinesApart` | `LinesOfOneStroke` | `PointsOfStrokes`: a stroke that no frame has seen has no points, and those of the open line are of the present stroke. Without it a line could be extended by the next stroke. |
| `LayoutProofs!TypeCorrect` | `TypeOK` | with `WordOK`: `word` is the widths of letters that stand one after the other in the text |
| `LayoutProofs!StaysInside` | `InsidePaper` | `WordRoom`: what is left of a word that began fits behind the cursor; `CursorInside` |
| `LayoutProofs!ReadingOrder` | `ReadsInOrder`, and that only a glyph higher than `LineStep` is overlapped by a later one | `Behind`: everything placed is left of the cursor on its line, or on a line above |
| `LayoutProofs!NothingIsLost` | `NothingLost` | `GlyphsBefore`: the placed glyphs are those before the loop's position |
| `AnglesProofs!TypeCorrect`, `Bounded` | `TypeOK`, `BoundedAndEquivalent` | a non-empty set of candidates has a least one in the order of `Nearer`: by well-foundedness of the naturals, once for each part of the key |
| `AnglesProofs!Untouched` | `GoodLeftAlone` | `previous` is the last point as MoveIt returned it while the trajectory is `smooth`, and an angle closer than half a turn to its reference is nearer than its equivalents |

Every invariant, every action property and the refinement that a run checks is
also proved. Only model-checked are the liveness properties `Answered`,
`RecoveryReturns`, `InitializerEnds`, `StopDelivered`, `GoalEnds` and
`RunsAtFullSpeed`: the proof system has no rules for ENABLED, which weak and
strong fairness are defined by. No module declares a RECURSIVE operator.

## 6. Where the code and its documentation disagree

Two runs check what a document or a comment of the repository says, and find it
violated. They are expected to fail.

| run | property | the behaviour |
|---|---|---|
| `writing_drag` | `LiftedBetweenStrokes` | a sentence is aborted with the pen on the paper; the fallback plans a free-space move to its first stroke from there, with no lift. `trajectory_builder.py:120`: "Every stroke remains separated by a lift waypoint." |
| `driver_stop` | `StopHitsItsProgram` | a stop that could not be sent before its program ended stays requested and ends the next program. `doc/ROS_INTERFACE.md:805` promises that the service ends the present one. |

Seen while modelling, with no run of their own:

Writing and the arm:

- A plan that reaches the required fraction without its last waypoint, the lift,
  is executed and answered "completed" with the pen on the paper
  (`moveit_executor.py:734`; `trajectory_builder.py:95` speaks of a "complete
  lift/descend/write/lift sequence").
- If the list service fails, the recovery takes every configured controller as
  running, "stops" them all and asks to start them together; the manager
  refuses, and the arm has no controller (`moveit_executor.py:420`;
  `config/ur5e_writing_controllers.yaml:78`: "Do not start both trajectory
  controllers at once").
- With Gazebo paused the stop call of the recovery blocks, and the wall-clock
  deadline, which is there so that a paused simulation cannot defeat it
  (`moveit_executor.py:441`), is set only after it (`:431`).
- A joint outside its limits by less than the tolerance (0.1) does not start a
  recovery, but is folded into the limits as the reference of a trajectory.
- An angle within the margin of a limit is folded a whole turn, and without a
  candidate the result is clamped to a limit, which is another pose.
- The start of the initializer can fall between the stop and the reset of a
  recovery, so a controller runs during the reset (`crossed`).
- With `~unpause` false in a paused world the initializer blocks in the
  switch call, before the message that would tell its user to unpause
  (`scene_initializer.py:217`).
- A stroke that interpolates to one point is skipped by the sentence but
  fails the request in the fallback.

The driver:

- A program that stops again before the stopper's start is performed: the start
  is refused, the next stop finds nothing to save, and the controllers stay off
  (`controller_stopper.cpp:105`; `README.md:63` of the driver: "paused, stopped
  and resumed without restarting the ROS driver").
- If the stop of the program fails, `set_mode` aborts its goal, and the same
  callback goes on to power the robot on (`robot_state_helper.cpp:225`;
  `SetMode.action:7`: "Stop program execution before restoring the target
  mode.").
- A ramp that a second pause interrupts without a packet that shows it goes on
  while the robot resumes (`hardware_interface.cpp:662`), and one whose target
  drops below it for a packet is over at once.
- A `set_mode` goal waits for ever if a stop comes and goes while the helper is
  blocked in a service: nothing changes afterwards that it could see
  (`unseen`).
- In safeguard stop a POWER_OFF goal is answered by power_on, then power_off,
  and so on until the stop is released (`robot_state_helper.cpp:105`).
- The status "idle" is published before the request gate opens again: a client
  that reacts to it at once can be refused (`writing_node.py:154`).
- The twist and pose handles are registered with `tf_prefix`, but claims are
  compared with a name that has none (`hardware_interface.cpp:1305`): with a
  prefix these kinds of controller never send a command.
- A failed list call of the stopper clears the controllers it would start again
  (`controller_stopper.cpp:78`); the model leaves it out, since that service
  only fails together with the driver.
- `README_SCENE.md` and the configuration disagree on the height of the paper.

The force gateway:

- `/vla/force_mode` with "compliance" gives the mode COMPLIANCE and a status of
  FORCE; a force command after `set_compliance` the mode FORCE and a status of
  COMPLIANCE.
- Leaving compliance leaves a gateway enabled that it found disabled, and a
  disabled one still publishes its target.
- A stop on `/vla/force_enable` withdraws the mode word sent before it
  (`force_control_gateway.py:228`), so that stopping and starting turns a
  monitor into a force controller; a mode word sent between the stop and the
  start is kept.
- A mode word "disabled" while the gateway is enabled is reported as FORCE.
- With a `force_axis` other than z the z force of a desired wrench is ignored,
  and the last wrench never gets too old.

Layout and pictures:

- Letters are checked against the lower margin by the height of the English
  characters, whatever their own is (`layout_engine.py:323`), and Hanzi and
  images wrap even where `wrap_words` is off.
- An image higher than a line overlaps the next line; a glyph wider than the
  sheet sticks out of it. A word longer than a line forgets the space before it
  (`layout_engine.py:302`), and "\r\n" counts as two line breaks.
- Two strokes are joined in the paper view, and in the ink, by a lift that is
  shorter than a sample or a frame.

## 7. What is not modelled

`PROJECT.json` lists every component. Left out for good: calibration and image
parsing (floating-point computations on data read once), tables (fonts,
characters), data types, message definitions, logging, launch and
configuration files (the parameters that decide a behaviour are constants of
the modules), handlers of the driver that make one call and keep no state, the
constant scene markers, and test scripts. External, and modelled only by what
the code uses of them: MoveIt, Gazebo, the controller manager, the client
library, the dashboard server, the robot and its operator.

The forwarding of trajectories to the robot (`startJointInterpolation` and the
rest) is left out because what it must guarantee, that a result reaches the goal
it belongs to, is decided in the forwarding controllers and in the program on
the robot, neither of which is in this repository. The interpolator and
`layout_strokes` compute in floating point without a state or a decision that
a bounded instance could get wrong. The glyph sources keep a cache that one
request at a time uses.

## 8. Plan

Everything that section 1 lists with a state of its own is modelled but the
forwarding of trajectories. What would add most to it, in this order:

1. An abstract drawing that both `PaperView` and `InkPlugin` implement, so that
   the two pictures can be compared with each other; its refinement can start
   from `PaperInv` and `InkLinesInv`.
2. The driver's side of trajectory forwarding: which goal a result is given to
   when the controller was switched meanwhile.
3. The glyph sources (fonts, Hanzi, images) as the inputs of `TextLayout`.

## 9. Running the tools

In this directory:

    tlc -config MCWriting.cfg MCWriting     # any other instance alike
    tlapm WritingProofs.tla                 # any other proof module alike

The largest runs are `paper` (about 1.8 million distinct states) and `driver`
(about 680,000); they take a few minutes on two cores, the others less than a
minute or two.
