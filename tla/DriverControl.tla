----------------------------- MODULE DriverControl -----------------------------
(***************************************************************************)
(* Who may command the robot: the control loop of the UR driver            *)
(* (hardware_interface.cpp, run by hardware_interface_node.cpp), the state *)
(* of the External Control program on the robot, the controller manager,   *)
(* and the controller stopper node that follows the program's state.       *)
(*                                                                         *)
(* Threads: the loop (read, update, write), the client library's callback  *)
(* for the program's connection, the service thread of the controller      *)
(* manager and the one of hand_back_control; the stopper is a process of   *)
(* its own.  The flags they share are std::atomic<bool>s.                  *)
(***************************************************************************)
EXTENDS Naturals, Sequences

CONSTANTS
  Controllers,  (* The controllers that claim the robot, one at a time.     *)
  Kinds,        (* What a command can be: position, velocity, twist, ...    *)
  Kind,         (* The kind of command of each controller.                  *)
  MaxMail       (* Bound: program state messages on their way.              *)

ASSUME KindAssumption == Kind \in [Controllers -> Kinds]
ASSUME MailAssumption == MaxMail \in Nat \ {0}

VARIABLES
  runtime,      (* runtime_state_, as of the last packet.                   *)
  running,      (* robot_program_running_.                                  *)
  reset,        (* controller_reset_necessary_.                             *)
  stopReq,      (* stop_requested_.                                         *)
  flags,        (* The kinds whose ..._controller_running_ is set.          *)
  initialized,  (* controllers_initialized_.                                *)
  loop,         (* The call of the loop that is next.                       *)
  program,      (* The connection of the program, and its callback.         *)
  calling,      (* hand_back_control has seen the program running.          *)
  active,       (* Controllers the controller manager is running.           *)
  switch,       (* The switch it has accepted and not performed.            *)
  mail,         (* robot_program_running messages to the stopper.           *)
  stopper,      (* Where the stopper is.                                    *)
  follows,      (* Its robot_running_.                                      *)
  saved,        (* Its stopped_controllers_.                                *)
  fresh,        (* History: no running controller dates from before the     *)
                (* present program without having been reset since.         *)
  staleWrites,  (* History: commands sent to it while ~fresh.               *)
  meant,        (* History: the stop was requested of the present program.  *)
  wanted,       (* History: what ran after the last switch of a user.       *)
  flapped,      (* History: the program changed while the stopper was busy. *)
  meddled       (* History: a user switched while the program was down.     *)

flagVars == <<runtime, running, reset, stopReq, flags, initialized>>
manager  == <<active, switch>>
follower == <<stopper, follows, saved>>
history  == <<fresh, staleWrites, meant, wanted, flapped, meddled>>
vars     == <<flagVars, loop, program, calling, manager, mail, follower, history>>

NoSwitch == [start |-> {}, stop |-> {}, by |-> "nobody"]

RuntimeStates == {"STOPPED", "PLAYING", "PAUSING", "PAUSED", "RESUMING"}

TypeOK ==
  /\ runtime \in RuntimeStates
  /\ {running, reset, stopReq, initialized, calling, follows, fresh, meant,
      flapped, meddled} \subseteq BOOLEAN
  /\ flags \subseteq Kinds
  /\ loop \in {"read", "update", "write"}
  /\ program \in {"gone", "connected", "announced", "up", "lost"}
  /\ active \subseteq Controllers
  /\ switch \in [start : SUBSET Controllers, stop : SUBSET Controllers,
                 by : {"nobody", "user", "stopper"}]
  /\ mail \in Seq(BOOLEAN)
  /\ stopper \in {"boot", "idle", "start", "list", "stop", "wait"}
  /\ saved \subseteq Controllers
  /\ staleWrites \in Nat
  /\ wanted \subseteq Controllers

\* controller_reset_necessary_ is not initialized by the constructor.
Init ==
  /\ runtime = "STOPPED"
  /\ running = FALSE
  /\ reset \in BOOLEAN
  /\ stopReq = FALSE
  /\ flags = {}
  /\ initialized = FALSE
  /\ loop = "read"
  /\ program = "gone"
  /\ calling = FALSE
  /\ active = {}
  /\ switch = NoSwitch
  /\ mail = <<FALSE>>      \* the client library reports "not running" at first
  /\ stopper = "boot"
  /\ follows = TRUE
  /\ saved = {}
  /\ fresh = TRUE
  /\ staleWrites = 0
  /\ meant = FALSE
  /\ wanted = {}
  /\ flapped = FALSE
  /\ meddled = FALSE

(***************************************************************************)
(* The control loop.                                                       *)
(***************************************************************************)

\* read: a packet tells the runtime state.  Without one, the controllers are
\* going to be reset.
Read ==
  /\ loop = "read"
  /\ loop' = "update"
  /\ \/ runtime' \in RuntimeStates /\ UNCHANGED reset
     \/ reset' = TRUE /\ UNCHANGED runtime
  /\ UNCHANGED <<running, stopReq, flags, initialized, program, calling,
                 manager, mail, follower, history>>

KindsOf(cs) == {Kind[c] : c \in cs}

\* Mistake to be caught: the controllers to start are looked at first.
SwitchedStartFirst(f, s) == (f \cup KindsOf(s.start)) \ KindsOf(s.stop)

\* doSwitch: the flags after a switch.
Switched(f, s) == (f \ KindsOf(s.stop)) \cup KindsOf(s.start)

\* cm.update(..., shouldResetControllers()): the running controllers are reset
\* and compute their commands; then an accepted switch is performed.
Update ==
  /\ loop = "update"
  /\ loop' = "write"
  /\ reset' = FALSE
  /\ active' = (active \ switch.stop) \cup switch.start
  /\ flags' = Switched(flags, switch)
  /\ switch' = NoSwitch
  /\ fresh' = (fresh \/ reset \/ active \ switch.stop = {})
  /\ wanted' = IF switch.by = "user" THEN active' ELSE wanted
  /\ stopper' = IF switch.by = "stopper" THEN "idle" ELSE stopper
  /\ UNCHANGED <<runtime, running, stopReq, initialized, program, calling,
                 mail, follows, saved, staleWrites, meant, flapped, meddled>>

Accepting == runtime \in {"PLAYING", "PAUSING"} /\ running

\* Mistake to be caught: a stop is only sent when there is no command.
WriteCommandFirst ==
  /\ loop = "write"
  /\ loop' = "read"
  /\ IF Accepting
     THEN /\ stopReq' = (stopReq /\ flags # {})
          /\ staleWrites' = staleWrites + (IF flags # {} /\ ~fresh THEN 1 ELSE 0)
     ELSE UNCHANGED <<stopReq, staleWrites>>
  /\ UNCHANGED <<runtime, running, reset, flags, initialized, program, calling,
                 manager, mail, follower, fresh, meant, wanted, flapped, meddled>>

\* write: a requested stop, or a command, or a keepalive.
Write ==
  /\ loop = "write"
  /\ loop' = "read"
  /\ IF Accepting
     THEN /\ stopReq' = FALSE
          /\ staleWrites' =
               staleWrites + (IF ~stopReq /\ flags # {} /\ ~fresh THEN 1 ELSE 0)
     ELSE UNCHANGED <<stopReq, staleWrites>>
  /\ UNCHANGED <<runtime, running, reset, flags, initialized, program, calling,
                 manager, mail, follower, fresh, meant, wanted, flapped, meddled>>

(***************************************************************************)
(* The program on the robot and handleRobotProgramState.                   *)
(***************************************************************************)

\* The stopper and the manager have nothing left to do.
Settled ==
  stopper = "idle" /\ mail = <<>> /\ switch = NoSwitch /\ program \in {"gone", "up"}

Flap == flapped' = (flapped \/ ~Settled)

\* The External Control node of the program is reached, and connects.
Connect ==
  /\ program = "gone" /\ Len(mail) < MaxMail
  /\ program' = "connected"
  /\ fresh' = FALSE
  /\ staleWrites' = 0
  /\ meant' = FALSE
  /\ Flap
  /\ UNCHANGED <<flagVars, loop, calling, manager, mail, follower, wanted, meddled>>

\* Mistake to be caught: only a program that is already running needs a reset.
ResetIfRunning ==
  /\ program = "connected"
  /\ program' = "announced"
  /\ reset' = (reset \/ running)
  /\ UNCHANGED <<runtime, running, stopReq, flags, initialized, loop, calling,
                 manager, mail, follower, history>>

\* handleRobotProgramState(true), first the reset ...
RequestReset ==
  /\ program = "connected"
  /\ program' = "announced"
  /\ reset' = (reset \/ ~running)
  /\ UNCHANGED <<runtime, running, stopReq, flags, initialized, loop, calling,
                 manager, mail, follower, history>>

\* ... then the state, and its message.
Announce ==
  /\ program = "announced"
  /\ program' = "up"
  /\ running' = TRUE
  /\ mail' = Append(mail, TRUE)
  /\ UNCHANGED <<runtime, reset, stopReq, flags, initialized, loop, calling,
                 manager, follower, history>>

\* The program returned, was stopped, or its connection dropped.
Disconnect ==
  /\ program = "up" /\ Len(mail) < MaxMail
  /\ program' = "lost"
  /\ Flap
  /\ UNCHANGED <<flagVars, loop, calling, manager, mail, follower, fresh,
                 staleWrites, meant, wanted, meddled>>

\* handleRobotProgramState(false).
Withdraw ==
  /\ program = "lost"
  /\ program' = "gone"
  /\ running' = FALSE
  /\ mail' = Append(mail, FALSE)
  /\ UNCHANGED <<runtime, reset, stopReq, flags, initialized, loop, calling,
                 manager, follower, history>>

(***************************************************************************)
(* hand_back_control.                                                      *)
(***************************************************************************)

\* stopControl, while the program runs: the test, and then the request.
CallStop ==
  /\ ~calling /\ running
  /\ calling' = TRUE
  /\ meant' = TRUE
  /\ UNCHANGED <<flagVars, loop, program, manager, mail, follower, fresh,
                 staleWrites, wanted, flapped, meddled>>

RequestStop ==
  /\ calling
  /\ calling' = FALSE
  /\ stopReq' = TRUE
  /\ UNCHANGED <<runtime, running, reset, flags, initialized, loop, program,
                 manager, mail, follower, history>>

(***************************************************************************)
(* The controller manager, called with STRICT.                             *)
(***************************************************************************)

\* prepareSwitch: controllers that claim the robot need its program, but for
\* the first switch of all, which starts the default ones.
Prepared(start) == ~initialized \/ running \/ start = {}

AtMostOne(cs) == \A c, d \in cs : c = d

\* What is to be stopped runs, what is to be started does not, and one
\* controller at most claims the robot afterwards.
Feasible(start, stop) ==
  /\ stop \subseteq active
  /\ start \cap active = {}
  /\ AtMostOne((active \ stop) \cup start)

Accept(start, stop, by) ==
  /\ switch = NoSwitch
  /\ Feasible(start, stop)
  /\ Prepared(start)
  /\ switch' = [start |-> start, stop |-> stop, by |-> by]
  /\ initialized' = TRUE

\* The spawner or a user.  The answer to a refused request changes nothing.
UserSwitches ==
  \E start, stop \in SUBSET Controllers :
    /\ start \cup stop # {} /\ start \cap stop = {}
    /\ Accept(start, stop, "user")
    /\ meddled' = (meddled \/ ~(Settled \/ stopper = "boot")
                           \/ (stopper = "idle" /\ ~follows))
    /\ UNCHANGED <<runtime, running, reset, stopReq, flags, loop, program,
                   calling, active, mail, follower, fresh, staleWrites, meant,
                   wanted, flapped>>

(***************************************************************************)
(* The controller stopper.                                                 *)
(***************************************************************************)

\* Its constructor waits until there is a controller to stop.  The list
\* service waits for a switch that is going on.
Boot ==
  /\ stopper = "boot" /\ switch = NoSwitch /\ active # {}
  /\ saved' = active
  /\ stopper' = "idle"
  /\ UNCHANGED <<flagVars, loop, program, calling, manager, mail, follows, history>>

\* robotRunningCallback.  The queue of the subscriber holds one message: of
\* those that have arrived only the last is seen.
Receive ==
  /\ stopper = "idle"
  /\ \E k \in 1..Len(mail) :
       /\ follows' = mail[k]
       /\ mail' = SubSeq(mail, k + 1, Len(mail))
       /\ stopper' = IF mail[k] = follows THEN "idle"
                     ELSE IF mail[k] THEN "start" ELSE "list"
  /\ UNCHANGED <<flagVars, loop, program, calling, manager, saved, history>>

\* Mistake to be caught: the list is not cleared before it is filled.
ListKeeping ==
  /\ stopper = "list" /\ switch = NoSwitch
  /\ saved' = saved \cup active
  /\ stopper' = "stop"
  /\ UNCHANGED <<flagVars, loop, program, calling, manager, mail, follows, history>>

\* Mistake to be caught: the consistent controllers are stopped as well.
ListAll ==
  /\ stopper = "list" /\ switch = NoSwitch
  /\ saved' = active \cup {"joint_state_controller"}
  /\ stopper' = "stop"
  /\ UNCHANGED <<flagVars, loop, program, calling, manager, mail, follows, history>>

\* findStoppableControllers.
List ==
  /\ stopper = "list" /\ switch = NoSwitch
  /\ saved' = active
  /\ stopper' = "stop"
  /\ UNCHANGED <<flagVars, loop, program, calling, manager, mail, follows, history>>

\* Nobody looks at the ok of the answer, only at whether there was one.
Ask(at, start, stop) ==
  /\ stopper = at /\ switch = NoSwitch
  /\ IF start \cup stop # {} /\ Feasible(start, stop) /\ Prepared(start)
     THEN Accept(start, stop, "stopper") /\ stopper' = "wait"
     ELSE stopper' = "idle" /\ UNCHANGED <<switch, initialized>>
  /\ UNCHANGED <<runtime, running, reset, stopReq, flags, loop, program, calling,
                 active, mail, follows, saved, history>>

StartSaved == Ask("start", saved, {})
StopSaved  == Ask("stop", {}, saved)

(***************************************************************************)
(* The specification.                                                      *)
(***************************************************************************)

Loop     == Read \/ Update \/ Write
Callback == RequestReset \/ Announce \/ Withdraw
Stopper  == Boot \/ Receive \/ List \/ StartSaved \/ StopSaved

Next ==
  \/ Loop \/ Callback \/ Stopper
  \/ Connect \/ Disconnect
  \/ CallStop \/ RequestStop
  \/ UserSwitches

Spec == Init /\ [][Next]_vars

\* The loop, the callback, the service and the stopper run.  The robot need
\* not start or end a program, nor a user switch anything.
FairSpec ==
  /\ Spec
  /\ WF_vars(Loop) /\ WF_vars(Callback) /\ WF_vars(Stopper) /\ WF_vars(RequestStop)

(***************************************************************************)
(* Properties.                                                             *)
(***************************************************************************)

\* The flags that choose what write sends are those of the controllers the
\* controller manager runs, also after a switch between two controllers of
\* one kind (scaled_pos_joint_traj_controller and pos_joint_traj_controller).
FlagsMirror == flags = KindsOf(active)

\* A program may get one command of a controller that was not reset since it
\* started, when it appears between update and write, but never a second one:
\* the controllers are reset before the next.
StaleOnce == staleWrites <= 1

\* While the robot accepts commands, a requested stop is sent, however busy
\* the controllers are.
StopDelivered ==
  <>[]Accepting => (stopReq ~> ~stopReq)

\* Controllers run exactly while their program does, and come back as the
\* user left them, if the program gives the stopper the time to follow and no
\* user starts or stops controllers behind its back.
ControllersFollow ==
  Settled /\ ~flapped /\ ~meddled =>
    active = IF follows THEN wanted ELSE {}

(***************************************************************************)
(* What the documentation says, and the code does not do.                  *)
(***************************************************************************)

\* ROS_INTERFACE.md of hand_back_control: "will make the 'External Control'
\* program node on the UR-Program return".  No other one: when write sends
\* the stop, the program is the one the service was called for.
StopHitsItsProgram ==
  [][loop = "write" /\ stopReq /\ ~stopReq' => meant]_vars
=============================================================================
