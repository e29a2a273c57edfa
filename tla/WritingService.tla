---------------------------- MODULE WritingService ----------------------------
(***************************************************************************)
(* The writing pipeline of the vla_writing package: the two ROS services   *)
(* /vla/write_text and /vla/draw_image (scripts/writing_node.py), the      *)
(* MoveIt adapter that carries a request out (moveit_executor.py) and the  *)
(* waypoint lists it executes (trajectory_builder.py).                     *)
(*                                                                         *)
(* rospy answers every service connection in a thread of its own, so the   *)
(* handlers of several clients interleave.  A handler is cut where it      *)
(* calls another component: each step below is one call of MoveIt, Gazebo  *)
(* or the parsers together with the Python around it.  What those          *)
(* components answer is a nondeterministic choice.                         *)
(***************************************************************************)
EXTENDS Naturals, Sequences, FiniteSets

CONSTANTS
  Clients,          (* Service connections; each has one handler thread.    *)
  None,             (* The value of lock while nobody holds it.             *)
  Strokes,          (* Strokes that a layout can consist of.                *)
  Points,           (* Number of points of a stroke after interpolation.    *)
  Layouts,          (* The stroke sequences the parsers can lay out.        *)
  RequiredPercent   (* moveit.cartesian_fraction_required, in percent.      *)

ASSUME NoneAssumption == None \notin Clients
ASSUME PointsAssumption == Points \in [Strokes -> Nat]
ASSUME LayoutsAssumption == Layouts \subseteq Seq(Strokes)
ASSUME PercentAssumption == RequiredPercent \in 1..100

(***************************************************************************)
(* Waypoints.  The waypoint <<i, k>> is the k-th one of the i-th stroke of *)
(* a layout: 1 hovers over the first point, 2 .. Points+1 have the pen on  *)
(* the paper, and Points+2 lifts it off the last point.                    *)
(***************************************************************************)

\* stroke_to_waypoints gives a stroke of fewer than two points no waypoint.
Drawable(s) == Points[s] >= 2

StrokeWaypoints(layout, i) ==
  IF Drawable(layout[i]) THEN {i} \X (1..Points[layout[i]] + 2) ELSE {}

\* build_sentence_path: the waypoints of all the strokes, one after another.
SentencePath(layout) == UNION {StrokeWaypoints(layout, i) : i \in DOMAIN layout}

Upto(w, path) == {v \in path : v[1] < w[1] \/ (v[1] = w[1] /\ v[2] <= w[2])}

First(path) == CHOOSE w \in path : Upto(w, path) = {w}

OnPaper(layout) ==
  {w \in SentencePath(layout) : w[2] \in 2..Points[layout[w[1]]] + 1}

\* Mistake to be caught: any plan at all is good enough.
SufficientIfAny(reached, path) == reached # {}

\* fraction >= cartesian_fraction_required: MoveIt's fraction is the share of
\* the waypoints it could reach, counted from the first.
Sufficient(reached, path) ==
  Cardinality(reached) * 100 >= RequiredPercent * Cardinality(path)

Marks == UNION {SentencePath(layout) : layout \in Layouts}

Away == <<0, 0>>     \* the pen is at no waypoint of the current request

VARIABLES
  dryRun,       (* The node's ~dry_run parameter, read once.                *)
  started,      (* __init__ has published the first "idle".                 *)
  lock, busy,   (* WritingNode.lock (its owner) and WritingNode.busy.       *)
  status,       (* The latched /vla/status, by the kind of its text.        *)
  initialized,  (* MoveItExecutor.initialized.                              *)
  pc,           (* Where the handler of a client is.                        *)
  layout,       (* The strokes of the client's request.                     *)
  attempt,      (* 0: the whole sentence; i: stroke i of the fallback.      *)
  planned,      (* The waypoints covered by the client's trajectory.        *)
  outcome,      (* What the handler will answer.                            *)
  arm,          (* The waypoint of the request the pen is at, or Away.      *)
  down,         (* The pen touches the paper.                               *)
  ink           (* How often the pen wrote each waypoint of the request.    *)

node   == <<started, lock, busy, status, initialized>>
thread == <<pc, layout, attempt, planned, outcome>>
robot  == <<arm, down, ink>>
vars   == <<dryRun, node, thread, robot>>

Working == {"begun", "parsing", "prepare", "ready", "start", "plan",
            "execute", "publish", "ending"}

Outcomes == {"none", "rejected", "invalid", "failed", "completed"}

TypeOK ==
  /\ dryRun \in BOOLEAN
  /\ started \in BOOLEAN
  /\ lock \in Clients \cup {None}
  /\ busy \in BOOLEAN
  /\ status \in {"unset", "idle", "working", "error"}
  /\ initialized \in BOOLEAN
  /\ pc \in [Clients -> Working \cup {"idle", "called", "replied"}]
  /\ layout \in [Clients -> Layouts \cup {<<>>}]
  /\ attempt \in [Clients -> Nat]
  /\ planned \in [Clients -> SUBSET Marks]
  /\ outcome \in [Clients -> Outcomes]
  /\ arm \in Marks \cup {Away}
  /\ down \in BOOLEAN
  /\ ink \in [Marks -> Nat]

Init ==
  /\ dryRun \in BOOLEAN
  /\ started = FALSE
  /\ lock = None
  /\ busy = FALSE
  /\ status = "unset"
  /\ initialized = FALSE
  /\ pc = [c \in Clients |-> "idle"]
  /\ layout = [c \in Clients |-> <<>>]
  /\ attempt = [c \in Clients |-> 0]
  /\ planned = [c \in Clients |-> {}]
  /\ outcome = [c \in Clients |-> "none"]
  /\ arm = Away
  /\ down = FALSE
  /\ ink = [w \in Marks |-> 0]

Goto(c, label) == pc' = [pc EXCEPT ![c] = label]

\* Mistake to be caught: an exit that publishes nothing.
ConcludeSilently(c, o) ==
  /\ outcome' = [outcome EXCEPT ![c] = o]
  /\ Goto(c, "ending")

\* The handler is about to answer o; Publish tells /vla/status about it.
Conclude(c, o) ==
  /\ outcome' = [outcome EXCEPT ![c] = o]
  /\ Goto(c, "publish")

\* A progress text on /vla/status, and one that only some outcomes produce.
Reports    == status' = "working"
MayReport  == status' \in {status, "working"}

(***************************************************************************)
(* The node and the request gate.                                          *)
(***************************************************************************)

\* The services are advertised before __init__ publishes its first status,
\* so a request can already be running when "idle" appears.
NodeReady ==
  /\ ~started
  /\ started' = TRUE
  /\ status' = "idle"
  /\ UNCHANGED <<lock, busy, initialized, thread, robot>>

Call(c) ==
  /\ pc[c] \in {"idle", "replied"}
  /\ Goto(c, "called")
  /\ outcome' = [outcome EXCEPT ![c] = "none"]
  /\ UNCHANGED <<node, layout, attempt, planned, robot>>

\* _begin: a non-blocking acquire, then the busy flag.
Free == lock = None /\ ~busy

Begin(c) ==
  /\ pc[c] = "called"
  /\ Free
  /\ lock' = c
  /\ busy' = TRUE
  /\ Goto(c, "begun")
  /\ arm' = Away
  /\ ink' = [w \in Marks |-> 0]
  /\ UNCHANGED <<started, status, initialized, layout, attempt, planned,
                 outcome, down>>

\* Mistake to be caught: _begin waits for the lock.
RejectNever(c) == pc[c] = "called" /\ FALSE

Reject(c) ==
  /\ pc[c] = "called"
  /\ ~Free
  /\ Goto(c, "replied")
  /\ outcome' = [outcome EXCEPT ![c] = "rejected"]
  /\ UNCHANGED <<node, layout, attempt, planned, robot>>

\* _end, in the finally clause: the answer leaves after the lock is free, and
\* the locals of the handler are gone.
End(c) ==
  /\ pc[c] = "ending"
  /\ busy' = FALSE
  /\ lock' = None
  /\ Goto(c, "replied")
  /\ layout' = [layout EXCEPT ![c] = <<>>]
  /\ attempt' = [attempt EXCEPT ![c] = 0]
  /\ planned' = [planned EXCEPT ![c] = {}]
  /\ UNCHANGED <<started, status, initialized, outcome, robot>>

(***************************************************************************)
(* From the request to its strokes.                                        *)
(***************************************************************************)

\* Blank text, or an image path that is no file: answered without a status.
RefuseInput(c) ==
  /\ pc[c] = "begun"
  /\ outcome' = [outcome EXCEPT ![c] = "invalid"]
  /\ Goto(c, "ending")
  /\ UNCHANGED <<node, layout, attempt, planned, robot>>

AcceptInput(c) ==
  /\ pc[c] = "begun"
  /\ Goto(c, "parsing")
  /\ Reports
  /\ UNCHANGED <<started, lock, busy, initialized, layout, attempt, planned,
                 outcome, robot>>

\* A parser raises, or the layout has no stroke.
ParseFails(c) ==
  /\ pc[c] = "parsing"
  /\ Conclude(c, "failed")
  /\ UNCHANGED <<node, layout, attempt, planned, robot>>

Parse(c) ==
  /\ pc[c] = "parsing"
  /\ \E l \in Layouts \ {<<>>} : layout' = [layout EXCEPT ![c] = l]
  /\ Goto(c, "prepare")
  /\ Reports
  /\ UNCHANGED <<started, lock, busy, initialized, attempt, planned, outcome,
                 robot>>

(***************************************************************************)
(* _prepare_executor.                                                      *)
(***************************************************************************)

Initialize(c) ==
  /\ pc[c] = "prepare"
  /\ initialized' = TRUE
  /\ IF initialized \/ dryRun THEN UNCHANGED status ELSE Reports
  /\ Goto(c, "ready")
  /\ UNCHANGED <<started, lock, busy, layout, attempt, planned, outcome, robot>>

InitializeFails(c) ==
  /\ pc[c] = "prepare"
  /\ ~initialized /\ ~dryRun
  /\ Reports
  /\ Conclude(c, "failed")
  /\ UNCHANGED <<started, lock, busy, initialized, layout, attempt, planned,
                 robot>>

\* group.go gives up: no plan was found and the arm stays where it is, or it
\* stopped on its way, which may leave the pen on the paper if it was there.
GoFails ==
  \/ UNCHANGED robot
  \/ /\ arm' = Away
     /\ down' \in {FALSE, down}
     /\ UNCHANGED ink

\* group.go arrives.  It plans a free-space path, which does not lift first.
GoTo(place) ==
  /\ arm' = place
  /\ down' = FALSE
  /\ UNCHANGED ink

\* "up" is reached, or the controller complains and the joints prove it was.
ReadyPose(c) ==
  /\ pc[c] = "ready"
  /\ IF dryRun THEN UNCHANGED robot ELSE GoTo(Away)
  /\ Reports
  /\ Goto(c, "start")
  /\ UNCHANGED <<started, lock, busy, initialized, layout, attempt, planned,
                 outcome>>

\* No bounded joint state, no plan, an exception or a failed verification.
ReadyPoseFails(c) ==
  /\ pc[c] = "ready"
  /\ ~dryRun
  /\ GoFails
  /\ MayReport
  /\ Conclude(c, "failed")
  /\ UNCHANGED <<started, lock, busy, initialized, layout, attempt, planned>>

(***************************************************************************)
(* plan_with_fallback: the whole sentence in one trajectory; if that does  *)
(* not succeed, every stroke from the first on in a trajectory of its own. *)
(***************************************************************************)

Path(c) ==
  IF attempt[c] = 0 THEN SentencePath(layout[c])
                    ELSE StrokeWaypoints(layout[c], attempt[c])

\* Mistake to be caught: a stroke that failed is tried again.
AttemptRetries(c) ==
  /\ attempt' = [attempt EXCEPT ![c] = IF @ = 0 THEN 1 ELSE @]
  /\ Goto(c, "start")
  /\ UNCHANGED outcome

AttemptFails(c) ==
  IF attempt[c] = 0
  THEN /\ attempt' = [attempt EXCEPT ![c] = 1]
       /\ Goto(c, "start")
       /\ UNCHANGED outcome
  ELSE /\ Conclude(c, "failed")
       /\ UNCHANGED attempt

AttemptSucceeds(c) ==
  IF attempt[c] \in {0, Len(layout[c])}
  THEN /\ Conclude(c, "completed")
       /\ UNCHANGED attempt
  ELSE /\ attempt' = [attempt EXCEPT ![c] = @ + 1]
       /\ Goto(c, "start")
       /\ UNCHANGED outcome

\* Mistake to be caught: the bridging move ignores ~dry_run.
EnsureStartAlways(c) ==
  /\ pc[c] = "start"
  /\ IF Path(c) = {} THEN UNCHANGED robot ELSE GoTo(First(Path(c)))
  /\ MayReport
  /\ Goto(c, "plan")
  /\ UNCHANGED <<started, lock, busy, initialized, layout, attempt, planned,
                 outcome>>

\* _ensure_start_at_first_waypoint.
EnsureStart(c) ==
  /\ pc[c] = "start"
  /\ IF dryRun \/ Path(c) = {} THEN UNCHANGED robot ELSE GoTo(First(Path(c)))
  /\ MayReport
  /\ Goto(c, "plan")
  /\ UNCHANGED <<started, lock, busy, initialized, layout, attempt, planned,
                 outcome>>

\* Mistake to be caught: the result of the move is not looked at.
EnsureStartUnchecked(c) ==
  /\ pc[c] = "start"
  /\ ~dryRun /\ Path(c) # {}
  /\ GoFails
  /\ MayReport
  /\ Goto(c, "plan")
  /\ UNCHANGED <<started, lock, busy, initialized, layout, attempt, planned,
                 outcome>>

\* The recovery, the transform, the plan or the move failed.
EnsureStartFails(c) ==
  /\ pc[c] = "start"
  /\ ~dryRun /\ Path(c) # {}
  /\ GoFails
  /\ MayReport
  /\ AttemptFails(c)
  /\ UNCHANGED <<started, lock, busy, initialized, layout, planned>>

\* plan_cartesian and the check of its fraction.
PlanCartesian(c) ==
  /\ pc[c] = "plan"
  /\ Path(c) # {}
  /\ \E w \in Path(c) :
       LET reached == Upto(w, Path(c)) IN
       /\ Sufficient(reached, Path(c))
       /\ dryRun => reached = Path(c)
       /\ planned' = [planned EXCEPT ![c] = reached]
  /\ MayReport
  /\ Goto(c, "execute")
  /\ UNCHANGED <<started, lock, busy, initialized, layout, attempt, outcome,
                 robot>>

\* No waypoint at all, no recovery, no transform, or too small a fraction.
PlanFails(c) ==
  /\ pc[c] = "plan"
  /\ dryRun => Path(c) = {}
  /\ MayReport
  /\ AttemptFails(c)
  /\ UNCHANGED <<started, lock, busy, initialized, layout, planned, robot>>

\* compute_cartesian_path raises: no handler before the one of the service.
PlanRaises(c) ==
  /\ pc[c] = "plan"
  /\ ~dryRun /\ Path(c) # {}
  /\ Conclude(c, "failed")
  /\ UNCHANGED <<node, layout, attempt, planned, robot>>

\* The pen passes the waypoints in reached, in order, and stops at the last.
Trace(c, reached) ==
  LET written == reached \cap OnPaper(layout[c])
      last    == CHOOSE w \in reached : Upto(w, reached) = reached
  IN  /\ ink' = [w \in Marks |-> ink[w] + (IF w \in written THEN 1 ELSE 0)]
      /\ arm' = last
      /\ down' = (last \in written)

Execute(c) ==
  /\ pc[c] = "execute"
  /\ IF dryRun THEN UNCHANGED robot ELSE Trace(c, planned[c])
  /\ Reports
  /\ AttemptSucceeds(c)
  /\ UNCHANGED <<started, lock, busy, initialized, layout, planned>>

\* The joint state cannot be recovered before the trajectory starts, or the
\* trajectory is aborted after some of its waypoints, possibly all of them.
ExecuteFails(c) ==
  /\ pc[c] = "execute"
  /\ ~dryRun
  /\ \/ UNCHANGED robot
     \/ \E w \in planned[c] : Trace(c, Upto(w, planned[c]))
  /\ MayReport
  /\ AttemptFails(c)
  /\ UNCHANGED <<started, lock, busy, initialized, layout, planned>>

\* Mistakes to be caught: the lock is released with the status, and a text
\* of the wrong kind.
PublishReleasing(c) ==
  /\ pc[c] = "publish"
  /\ status' = IF outcome[c] = "completed" THEN "idle" ELSE "error"
  /\ lock' = None
  /\ busy' = FALSE
  /\ Goto(c, "ending")
  /\ UNCHANGED <<started, initialized, layout, attempt, planned, outcome, robot>>

PublishOutcome(c) ==
  /\ pc[c] = "publish"
  /\ status' = outcome[c]
  /\ Goto(c, "ending")
  /\ UNCHANGED <<started, lock, busy, initialized, layout, attempt, planned,
                 outcome, robot>>

\* "idle" after a success; "error: ..." from the handler or its except clause.
Publish(c) ==
  /\ pc[c] = "publish"
  /\ status' = IF outcome[c] = "completed" THEN "idle" ELSE "error"
  /\ Goto(c, "ending")
  /\ UNCHANGED <<started, lock, busy, initialized, layout, attempt, planned,
                 outcome, robot>>

(***************************************************************************)
(* The specification.                                                      *)
(***************************************************************************)

Handle(c) ==
  \/ Begin(c) \/ Reject(c)
  \/ RefuseInput(c) \/ AcceptInput(c)
  \/ ParseFails(c) \/ Parse(c)
  \/ InitializeFails(c) \/ Initialize(c)
  \/ ReadyPoseFails(c) \/ ReadyPose(c)
  \/ EnsureStartFails(c) \/ EnsureStart(c)
  \/ PlanFails(c) \/ PlanRaises(c) \/ PlanCartesian(c)
  \/ ExecuteFails(c) \/ Execute(c)
  \/ Publish(c) \/ End(c)

Next ==
  /\ NodeReady \/ \E c \in Clients : Call(c) \/ Handle(c)
  /\ UNCHANGED dryRun

Spec == Init /\ [][Next]_vars

\* Threads are scheduled, and every external call returns: the controllers end a
\* trajectory by its goal_time, and planning is limited, as long as the simulation
\* or the real arm goes on (ArmControllers has a paused one).  Clients owe nothing.
FairSpec ==
  /\ Spec
  /\ WF_vars(NodeReady /\ UNCHANGED dryRun)
  /\ \A c \in Clients : WF_vars(Handle(c) /\ UNCHANGED dryRun)

(***************************************************************************)
(* Properties.                                                             *)
(***************************************************************************)

\* At most one handler is past _begin and before the end of its finally
\* clause, and it is the one that owns the lock: the MoveGroup is never
\* driven by two requests, in whatever order the services were called.
ExclusiveService ==
  /\ \A c \in Clients : pc[c] \in Working <=> lock = c
  /\ busy <=> lock # None

\* Whichever way a request ends - answered, refused for its input, failed in
\* any call or by an exception - the latched status that stays behind is one
\* of the two resting ones, never the progress text of a request that is over.
StatusSettled == started /\ lock = None => status \in {"idle", "error"}

\* A trajectory is executed from the pose it was planned for: the arm still
\* hovers over its first waypoint, with the pen lifted.
ExecutesFromItsStart ==
  \A c \in Clients :
    pc[c] = "execute" /\ ~dryRun => arm = First(Path(c)) /\ ~down

\* A request that is answered "completed" left unwritten at most the share of
\* its waypoints that cartesian_fraction_required grants, whether it was
\* written in one trajectory or stroke by stroke.
CompletedIsWritten ==
  \A c \in Clients :
    pc[c] = "ending" /\ outcome[c] = "completed" /\ ~dryRun =>
      Cardinality({w \in OnPaper(layout[c]) : ink[w] = 0}) * 100
        <= (100 - RequiredPercent) * Cardinality(SentencePath(layout[c]))

\* The fallback starts over at the first stroke, yet no part of the text is
\* gone over more than twice: once by the sentence, once by its own stroke.
AtMostTwice == \A w \in Marks : ink[w] <= 2

\* A dry run goes through the whole pipeline and moves nothing.
DryRunIsStill == [][~dryRun]_robot

\* Every call is answered, by _begin's refusal or by the handler.
Answered == \A c \in Clients : pc[c] = "called" ~> pc[c] = "replied"

(***************************************************************************)
(* What a comment of the code says, and the code does not do.              *)
(***************************************************************************)

\* trajectory_builder.py: "Every stroke remains separated by a lift waypoint."
\* The pen is lifted before the arm moves to a stroke, or to the ready pose.
LiftedBetweenStrokes ==
  [][\A c \in Clients :
       pc[c] \in {"ready", "start"} /\ pc'[c] # pc[c] /\ down
         => UNCHANGED robot]_vars

(***************************************************************************)
(* The abstract service that the node implements.                          *)
(***************************************************************************)

Phase(c) ==
  CASE pc[c] = "called"  -> "waiting"
    [] pc[c] \in Working -> "serving"
    [] OTHER             -> "resting"

Requests == INSTANCE OneAtATime WITH
  phase <- [c \in Clients |-> Phase(c)], page <- robot

\* The node serves one request at a time, refuses a request only while
\* another one is served, and touches the paper only during a service.
ServesOneAtATime == Requests!Spec
=============================================================================
