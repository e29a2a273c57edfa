------------------------------ MODULE JointAngles ------------------------------
(***************************************************************************)
(* Before a trajectory is executed, MoveItExecutor._normalize_trajectory   *)
(* moves every position by whole turns into the limits of its joint        *)
(* (joint_state_utils.py): as near as possible to the point before, and    *)
(* for the first point to the current state.                               *)
(*                                                                         *)
(* Angles are integers; the tolerance of 1e-12 is none, and half a turn    *)
(* and the middle of a joint's limits are rounded down.                    *)
(***************************************************************************)
EXTENDS Integers, Sequences

CONSTANTS
  Joints,         (* The joints of the trajectory.                          *)
  OwnLimits,      (* The limits that the configuration has for a joint      *)
  AliasLimits,    (* under its name, and under the name with or without     *)
                  (* "_joint",                                              *)
  DefaultLimits,  (* and UR5E_JOINT_LIMITS.  An entry that is missing or    *)
                  (* malformed is a pair the wrong way round.               *)
  TwoPi,          (* The period.                                            *)
  Margin,         (* margin, at least 0.                                    *)
  NotFinite,      (* A position that is NaN or infinite.                    *)
  Nothing,        (* No position, and no value in previous_map.             *)
  Readings,       (* The joint states, functions on Joints.                 *)
  Trajectories    (* MoveIt's trajectories: sequences of such functions.    *)

Point == [Joints -> Int \cup {NotFinite, Nothing}]

NoPositions == [j \in Joints |-> Nothing]

ASSUME AnglesAssumption ==
  /\ {OwnLimits, AliasLimits, DefaultLimits} \subseteq [Joints -> Int \X Int]
  /\ TwoPi \in Nat \ {0} /\ Margin \in Nat
  /\ Joints # {} /\ NotFinite \notin Int /\ Nothing \notin Int
  /\ Readings \subseteq Point /\ Trajectories \subseteq Seq(Point)

VARIABLES
  dryRun,       (* The executor's setting.                                  *)
  reading,      (* The joint state it has read last.                        *)
  raw,          (* The trajectory that came from MoveIt,                    *)
  out,          (* and the one that is returned, as far as it is built.     *)
  previous,     (* previous of normalize_trajectory.                        *)
  phase,        (* "reading", "points", "done", or "original" if the        *)
                (* trajectory is returned as it came.                       *)
  smooth        (* History: so far every point was inside its limits, by    *)
                (* the margin, and less than half a turn from the one       *)
                (* before it, the first one from the reading.               *)

input == <<dryRun, reading, raw>>
vars  == <<input, out, previous, phase, smooth>>

Finite(point) == \A j \in Joints : point[j] \in Int

TypeOK ==
  /\ {dryRun, smooth} \subseteq BOOLEAN
  /\ reading \in Point
  /\ raw \in Seq(Point)
  /\ previous \in [Joints -> Int \cup {Nothing}]
  /\ phase \in {"reading", "points", "done", "original"}
  /\ phase # "original" =>
       /\ out \in Seq(Point) /\ Len(out) <= Len(raw)
       /\ \A i \in DOMAIN out : \/ Finite(raw[i]) /\ Finite(out[i])
                                \/ raw[i] = NoPositions /\ out[i] = raw[i]
  /\ phase = "original" => out = raw

Init ==
  /\ dryRun \in BOOLEAN
  /\ reading \in Readings
  /\ raw \in Trajectories
  /\ out = <<>>
  /\ previous = [j \in Joints |-> Nothing]
  /\ phase = "reading"
  /\ smooth = TRUE

(***************************************************************************)
(* The limits of a joint, and the positions equivalent to one.             *)
(***************************************************************************)

Proper(limits) == limits[1] <= limits[2]

\* _lookup_limit: the pair is not proper if the joint has none.
Limits(j) ==
  IF Proper(OwnLimits[j]) THEN OwnLimits[j]
  ELSE IF Proper(AliasLimits[j]) THEN AliasLimits[j]
  ELSE DefaultLimits[j]

Abs(x) == IF x < 0 THEN -x ELSE x

\* The interval of _candidate_values, with its fallback to the midpoint.
Inner(limits) ==
  IF limits[1] + Margin <= limits[2] - Margin
    THEN <<limits[1] + Margin, limits[2] - Margin>>
    ELSE LET midpoint == (limits[1] + limits[2]) \div 2 IN
         <<midpoint, midpoint>>

\* _candidate_values.
Candidates(angle, limits) ==
  {c \in Inner(limits)[1]..Inner(limits)[2] : (c - angle) % TwoPi = 0}

\* The keys of min(): Python's order of tuples.
Cost(c, reference) ==
  IF reference = Nothing THEN Abs(c) ELSE Abs(c - reference)

Nearer(c, d, reference) ==
  \/ Cost(c, reference) < Cost(d, reference)
  \/ /\ Cost(c, reference) = Cost(d, reference)
     /\ Abs(c) < Abs(d) \/ (Abs(c) = Abs(d) /\ c <= d)

\* wrap_to_pi.
WrapToPi(angle) == ((angle + TwoPi \div 2) % TwoPi) - TwoPi \div 2

Clamp(angle, limits) ==
  IF angle < limits[1] THEN limits[1]
  ELSE IF angle > limits[2] THEN limits[2]
  ELSE angle

\* Mistake to be caught: without a candidate the wrapped angle is returned.
CanonicalAngleUnclamped(angle, limits, reference) ==
  LET candidates == Candidates(angle, limits) IN
  IF candidates = {} THEN WrapToPi(angle)
  ELSE CHOOSE c \in candidates :
         \A d \in candidates : Nearer(c, d, reference)

\* Mistake to be caught: the reference is forgotten.
CanonicalAngleNearZero(angle, limits, reference) ==
  LET candidates == Candidates(angle, limits) IN
  IF candidates = {} THEN Clamp(WrapToPi(angle), limits)
  ELSE CHOOSE c \in candidates :
         \A d \in candidates : Nearer(c, d, Nothing)

\* canonical_angle of a finite angle, in proper limits.
CanonicalAngle(angle, limits, reference) ==
  LET candidates == Candidates(angle, limits) IN
  IF candidates = {} THEN Clamp(WrapToPi(angle), limits)
  ELSE CHOOSE c \in candidates :
         \A d \in candidates : Nearer(c, d, reference)

Within(angle, limits) == limits[1] <= angle /\ angle <= limits[2]

(***************************************************************************)
(* The executor's call.                                                    *)
(***************************************************************************)

ReturnOriginal ==
  /\ phase' = "original"
  /\ out' = raw
  /\ UNCHANGED <<input, previous, smooth>>

DryRun ==
  /\ phase = "reading"
  /\ dryRun
  /\ ReturnOriginal

\* Mistake to be caught: the reading is the reference as it is.
CanonicalCurrentStateRaw == reading

\* _canonical_current_state: {} if a position is not finite or missing.
CanonicalCurrentState ==
  [j \in Joints |->
     IF ~Finite(reading) THEN Nothing
     ELSE IF ~Proper(Limits(j)) \/ Within(reading[j], Limits(j))
       THEN reading[j]
     ELSE CanonicalAngle(reading[j], Limits(j), Nothing)]

Read ==
  /\ phase = "reading"
  /\ ~dryRun
  /\ previous' = CanonicalCurrentState
  /\ phase' = "points"
  /\ smooth' = (previous' = reading)
  /\ UNCHANGED <<input, out>>

(***************************************************************************)
(* normalize_trajectory, point by point.                                   *)
(***************************************************************************)

NextPoint == raw[Len(out) + 1]

SkipPoint ==
  /\ phase = "points"
  /\ Len(out) < Len(raw)
  /\ NextPoint = NoPositions
  /\ out' = Append(out, NextPoint)
  /\ UNCHANGED <<input, previous, phase, smooth>>

\* normalize_joint_positions raises ValueError: a position is not finite, or
\* there are too few of them.
RefusePoint ==
  /\ phase = "points"
  /\ Len(out) < Len(raw)
  /\ NextPoint # NoPositions /\ ~Finite(NextPoint)
  /\ ReturnOriginal

\* normalize_joint_positions.
NormalizeJointPositions(point) ==
  [j \in Joints |->
     IF Proper(Limits(j))
       THEN CanonicalAngle(point[j], Limits(j), previous[j])
       ELSE point[j]]

Smooth(point) ==
  \A j \in Joints : Proper(Limits(j)) =>
    /\ Within(point[j], Inner(Limits(j)))
    /\ previous[j] # Nothing
    /\ 2 * Abs(point[j] - previous[j]) < TwoPi

NormalizePoint ==
  /\ phase = "points"
  /\ Len(out) < Len(raw)
  /\ Finite(NextPoint)
  /\ previous' = NormalizeJointPositions(NextPoint)
  /\ out' = Append(out, previous')
  /\ smooth' = (smooth /\ Smooth(NextPoint))
  /\ UNCHANGED <<input, phase>>

Return ==
  /\ phase = "points"
  /\ Len(out) = Len(raw)
  /\ phase' = "done"
  /\ UNCHANGED <<input, out, previous, smooth>>

Next ==
  \/ DryRun \/ Read
  \/ SkipPoint \/ RefusePoint \/ NormalizePoint
  \/ Return

Spec == Init /\ [][Next]_vars

(***************************************************************************)
(* Properties.                                                             *)
(***************************************************************************)

\* Whatever MoveIt returned and the joints were: unless the trajectory is
\* returned as it came, every joint stays in its limits and every position is
\* the same pose as MoveIt's, if its limits less the margin have such a one.
BoundedAndEquivalent ==
  phase # "original" =>
    \A i \in DOMAIN out : Finite(raw[i]) => \A j \in Joints :
      IF ~Proper(Limits(j)) THEN out[i][j] = raw[i][j]
      ELSE /\ Within(out[i][j], Limits(j))
           /\ \/ (out[i][j] - raw[i][j]) % TwoPi = 0
              \/ Candidates(raw[i][j], Limits(j)) = {}

\* A trajectory that needs no change gets none: one that begins at the reading,
\* stays inside the limits less the margin, and makes steps of less than half a
\* turn.
GoodLeftAlone ==
  phase # "original" /\ smooth => \A i \in DOMAIN out : out[i] = raw[i]
=============================================================================
