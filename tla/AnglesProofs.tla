----------------------------- MODULE AnglesProofs -----------------------------
(***************************************************************************)
(* Proofs about JointAngles, for all limits, periods, margins, readings    *)
(* and trajectories.                                                       *)
(***************************************************************************)
EXTENDS JointAngles, WellFoundedInduction, TLAPS

(***************************************************************************)
(* Arithmetic.                                                             *)
(***************************************************************************)

LEMMA ModRange ==
  ASSUME NEW t \in Nat \ {0}, NEW x \in Int
  PROVE  x % t \in Nat /\ x % t < t
OBVIOUS

LEMMA ModZero ==
  ASSUME NEW t \in Nat \ {0}
  PROVE  0 % t = 0
OBVIOUS

\* What is less than a turn and a whole number of turns is nothing.
LEMMA ModSmall ==
  ASSUME NEW t \in Nat \ {0}, NEW x \in Int, x % t = 0, x < t, -t < x
  PROVE  x = 0
OBVIOUS

LEMMA HalfWay ==
  ASSUME NEW a \in Int, NEW b \in Int, a <= b
  PROVE  /\ (a + b) \div 2 \in Int
         /\ a <= (a + b) \div 2 /\ (a + b) \div 2 <= b
OBVIOUS

LEMMA AbsOK ==
  ASSUME NEW x \in Int
  PROVE  Abs(x) \in Nat /\ (x = Abs(x) \/ x = -Abs(x))
BY DEF Abs

Less == {p \in Nat \X Nat : p[1] < p[2]}

LEMMA LessIsWellFounded == IsWellFoundedOn(Less, Nat)
BY NatLessThanWellFounded DEF OpToRel, Less

LEMMA LeastNumber ==
  ASSUME NEW S, S \subseteq Nat, S # {}
  PROVE  \E x \in S : \A y \in S : x <= y
<1>1. \E x \in S : \A y \in S : ~(<<y, x>> \in Less)
  BY WFMin, LessIsWellFounded, Zenon
<1>2. ASSUME NEW x \in Nat, NEW y \in Nat, <<y, x>> \notin Less
      PROVE  x <= y
  BY <1>2 DEF Less
<1>3. QED
  BY <1>1, <1>2

(***************************************************************************)
(* The nearest candidate.                                                  *)
(***************************************************************************)

LEMMA CostOK ==
  ASSUME NEW c \in Int, NEW reference \in Int \cup {Nothing}
  PROVE  Cost(c, reference) \in Nat
BY AbsOK DEF Cost

LEMMA NearestExists ==
  ASSUME NEW C, C \subseteq Int, C # {}, NEW reference \in Int \cup {Nothing}
  PROVE  \E c \in C : \A d \in C : Nearer(c, d, reference)
<1> DEFINE cost(c) == Cost(c, reference)
<1>1. \A c \in C : cost(c) \in Nat /\ Abs(c) \in Nat
  BY CostOK, AbsOK
<1> HIDE DEF cost
<1>2. PICK a \in C : \A d \in C : cost(a) <= cost(d)
  <2> DEFINE S == {cost(c) : c \in C}
  <2>1. S \subseteq Nat /\ S # {}
    BY <1>1
  <2>2. \E x \in S : \A y \in S : x <= y
    BY <2>1, LeastNumber
  <2>3. QED
    BY <2>2
<1> DEFINE cheap == {c \in C : cost(c) = cost(a)}
<1>3. PICK b \in cheap : \A d \in cheap : Abs(b) <= Abs(d)
  <2> DEFINE S == {Abs(c) : c \in cheap}
  <2>1. S \subseteq Nat /\ S # {}
    BY <1>1
  <2>2. \E x \in S : \A y \in S : x <= y
    BY <2>1, LeastNumber
  <2>3. QED
    BY <2>2
<1>4. PICK c \in cheap : Abs(c) = Abs(b) /\ (-Abs(b) \in cheap => c = -Abs(b))
  <2>1. Abs(b) \in Nat
    BY <1>1
  <2>2. Abs(-Abs(b)) = Abs(b)
    BY <2>1 DEF Abs
  <2>3. QED
    BY <2>2
<1>5. ASSUME NEW d \in C
      PROVE  Nearer(c, d, reference)
  <2>1. cost(c) = cost(a) /\ cost(a) <= cost(d)
    BY <1>2
  <2>2. CASE cost(a) # cost(d)
    BY <1>1, <2>1, <2>2 DEF Nearer, cost
  <2>3. CASE cost(a) = cost(d)
    <3>1. d \in cheap /\ Abs(c) <= Abs(d)
      BY <1>3, <1>4, <2>3
    <3>2. Abs(c) = Abs(d) => c <= d
      <4>1. SUFFICES ASSUME Abs(c) = Abs(d)
                     PROVE  c <= d
        OBVIOUS
      <4>2. d \in Int /\ c \in Int /\ Abs(b) \in Nat
        BY <1>1
      <4>3. (d = Abs(b) \/ d = -Abs(b)) /\ (c = Abs(b) \/ c = -Abs(b))
        BY <1>4, <4>1, <4>2, AbsOK
      <4>4. d = -Abs(b) => c = -Abs(b)
        BY <1>4, <3>1
      <4>5. QED
        BY <4>2, <4>3, <4>4
    <3>3. QED
      BY <1>1, <2>1, <2>3, <3>1, <3>2 DEF Nearer, cost
  <2>4. QED
    BY <2>2, <2>3
<1>6. QED
  BY <1>5

LEMMA LimitsOK ==
  ASSUME NEW j \in Joints
  PROVE  Limits(j) \in Int \X Int
BY AnglesAssumption DEF Limits

LEMMA InnerOK ==
  ASSUME NEW limits \in Int \X Int, Proper(limits)
  PROVE  /\ Inner(limits)[1] \in Int /\ Inner(limits)[2] \in Int
         /\ limits[1] <= Inner(limits)[1] /\ Inner(limits)[2] <= limits[2]
<1>1. limits[1] \in Int /\ limits[2] \in Int /\ limits[1] <= limits[2]
  BY DEF Proper
<1>2. Margin \in Nat
  BY AnglesAssumption
<1>3. CASE limits[1] + Margin <= limits[2] - Margin
  BY <1>1, <1>2, <1>3 DEF Inner
<1>4. CASE ~(limits[1] + Margin <= limits[2] - Margin)
  BY <1>1, <1>4, HalfWay DEF Inner
<1>5. QED
  BY <1>3, <1>4

LEMMA WrapToPiOK ==
  ASSUME NEW angle \in Int
  PROVE  WrapToPi(angle) \in Int
<1>1. TwoPi \in Nat \ {0} /\ TwoPi \div 2 \in Int
  BY AnglesAssumption
<1>2. (angle + TwoPi \div 2) % TwoPi \in Nat
  BY <1>1, ModRange
<1>3. QED
  BY <1>1, <1>2 DEF WrapToPi

\* What canonical_angle returns.
LEMMA CanonicalOK ==
  ASSUME NEW angle \in Int, NEW limits \in Int \X Int, Proper(limits),
         NEW reference \in Int \cup {Nothing}
  PROVE  /\ CanonicalAngle(angle, limits, reference) \in Int
         /\ Within(CanonicalAngle(angle, limits, reference), limits)
         /\ Candidates(angle, limits) # {} =>
              /\ CanonicalAngle(angle, limits, reference)
                   \in Candidates(angle, limits)
              /\ \A d \in Candidates(angle, limits) :
                   Nearer(CanonicalAngle(angle, limits, reference), d,
                          reference)
<1> DEFINE C == Candidates(angle, limits)
           x == CanonicalAngle(angle, limits, reference)
<1>1. limits[1] \in Int /\ limits[2] \in Int /\ limits[1] <= limits[2]
  BY DEF Proper
<1>2. CASE C = {}
  <2>1. x = Clamp(WrapToPi(angle), limits)
    BY <1>2 DEF CanonicalAngle
  <2>2. WrapToPi(angle) \in Int
    BY WrapToPiOK
  <2>3. QED
    BY <1>1, <1>2, <2>1, <2>2 DEF Clamp, Within
<1>3. CASE C # {}
  <2>1. C \subseteq Inner(limits)[1]..Inner(limits)[2]
    BY DEF Candidates
  <2>2. \A c \in C : c \in Int /\ limits[1] <= c /\ c <= limits[2]
    BY <1>1, <2>1, InnerOK
  <2>3. \E c \in C : \A d \in C : Nearer(c, d, reference)
    BY <1>3, <2>2, NearestExists
  <2>4. x = CHOOSE c \in C : \A d \in C : Nearer(c, d, reference)
    BY <1>3 DEF CanonicalAngle
  <2>5. x \in C /\ \A d \in C : Nearer(x, d, reference)
    BY <2>3, <2>4
  <2>6. QED
    BY <2>2, <2>5 DEF Within
<1>4. QED
  BY <1>2, <1>3

\* A position inside the limits less the margin, and less than half a turn
\* from the reference, is the nearest of its equivalents.
LEMMA CanonicalKeeps ==
  ASSUME NEW angle \in Int, NEW limits \in Int \X Int, Proper(limits),
         NEW reference \in Int, Within(angle, Inner(limits)),
         2 * Abs(angle - reference) < TwoPi
  PROVE  CanonicalAngle(angle, limits, reference) = angle
<1> DEFINE x == CanonicalAngle(angle, limits, reference)
<1>1. TwoPi \in Nat \ {0} /\ reference # Nothing
  BY AnglesAssumption
<1>2. angle \in Candidates(angle, limits)
  <2>1. (angle - angle) % TwoPi = 0
    BY <1>1, ModZero
  <2>2. angle \in Inner(limits)[1]..Inner(limits)[2]
    BY InnerOK DEF Within
  <2>3. QED
    BY <2>1, <2>2 DEF Candidates
<1>3. /\ x \in Int /\ x \in Candidates(angle, limits)
      /\ Nearer(x, angle, reference)
  BY <1>2, CanonicalOK
<1>4. (x - angle) % TwoPi = 0
  BY <1>3 DEF Candidates
<1> HIDE DEF x
<1>5. Cost(x, reference) <= Cost(angle, reference)
  <2>1. Cost(x, reference) \in Nat /\ Cost(angle, reference) \in Nat
    BY <1>3, CostOK
  <2>2. QED
    BY <1>3, <2>1 DEF Nearer
<1>6. Abs(x - reference) <= Abs(angle - reference)
  BY <1>1, <1>5 DEF Cost
<1>7. x - angle < TwoPi /\ -TwoPi < x - angle
  BY <1>1, <1>3, <1>6 DEF Abs
<1>8. x - angle = 0
  BY <1>1, <1>3, <1>4, <1>7, ModSmall
<1>9. QED
  BY <1>3, <1>8 DEF x

(***************************************************************************)
(* The executor.                                                           *)
(***************************************************************************)

LEMMA CanonicalCurrentStateOK ==
  ASSUME TypeOK
  PROVE  CanonicalCurrentState \in [Joints -> Int \cup {Nothing}]
<1>1. ASSUME NEW j \in Joints, Finite(reading)
      PROVE  /\ reading[j] \in Int
             /\ Proper(Limits(j)) =>
                  CanonicalAngle(reading[j], Limits(j), Nothing) \in Int
  <2>1. reading[j] \in Int
    BY <1>1 DEF Finite
  <2>2. QED
    BY <2>1, LimitsOK, CanonicalOK
<1>2. QED
  BY <1>1 DEF CanonicalCurrentState

\* What normalize_joint_positions makes of a point.
LEMMA NormalizeOK ==
  ASSUME TypeOK, NEW point \in Point, Finite(point), NEW j \in Joints
  PROVE  /\ NormalizeJointPositions(point)[j] \in Int
         /\ IF ~Proper(Limits(j))
              THEN NormalizeJointPositions(point)[j] = point[j]
              ELSE /\ Within(NormalizeJointPositions(point)[j], Limits(j))
                   /\ \/ (NormalizeJointPositions(point)[j] - point[j]) % TwoPi
                           = 0
                      \/ Candidates(point[j], Limits(j)) = {}
         /\ Smooth(point) => NormalizeJointPositions(point)[j] = point[j]
<1> DEFINE x == CanonicalAngle(point[j], Limits(j), previous[j])
<1>1. /\ point[j] \in Int /\ Limits(j) \in Int \X Int
      /\ previous[j] \in Int \cup {Nothing}
  BY LimitsOK DEF Finite, TypeOK
<1>2. CASE ~Proper(Limits(j))
  BY <1>1, <1>2 DEF NormalizeJointPositions
<1>3. CASE Proper(Limits(j))
  <2>1. NormalizeJointPositions(point)[j] = x
    BY <1>3 DEF NormalizeJointPositions
  <2>2. /\ x \in Int /\ Within(x, Limits(j))
        /\ x \in Candidates(point[j], Limits(j))
             \/ Candidates(point[j], Limits(j)) = {}
    BY <1>1, <1>3, CanonicalOK
  <2>3. x \in Candidates(point[j], Limits(j)) => (x - point[j]) % TwoPi = 0
    BY DEF Candidates
  <2>4. Smooth(point) => x = point[j]
    <3>1. SUFFICES ASSUME Smooth(point)
                   PROVE  x = point[j]
      OBVIOUS
    <3>2. /\ previous[j] \in Int /\ Within(point[j], Inner(Limits(j)))
          /\ 2 * Abs(point[j] - previous[j]) < TwoPi
      BY <1>1, <1>3, <3>1 DEF Smooth
    <3>3. QED
      BY <1>1, <1>3, <3>2, CanonicalKeeps
  <2>5. QED
    BY <1>3, <2>1, <2>2, <2>3, <2>4
<1>4. QED
  BY <1>2, <1>3

\* A step either returns the trajectory as it came, or adds at most a point.
Adds(point) ==
  /\ phase = "points" /\ phase' = phase
  /\ Len(out) < Len(raw)
  /\ out' = Append(out, point)
  /\ UNCHANGED input

Skips ==
  /\ NextPoint = NoPositions /\ Adds(NextPoint)
  /\ UNCHANGED <<previous, smooth>>

Normalizes ==
  /\ Finite(NextPoint) /\ Adds(NormalizeJointPositions(NextPoint))
  /\ previous' = NormalizeJointPositions(NextPoint)
  /\ smooth' = (smooth /\ Smooth(NextPoint))

Waits ==
  /\ UNCHANGED <<input, out>>
  /\ phase = "original" <=> phase' = "original"

LEMMA StepKinds ==
  ASSUME TypeOK, [Next]_vars
  PROVE  \/ ReturnOriginal
         \/ Read
         \/ Skips
         \/ Normalizes
         \/ Waits /\ UNCHANGED <<previous, smooth>>
                  /\ (phase' = phase \/ phase' = "done")
<1>1. CASE DryRun \/ RefusePoint
  BY <1>1 DEF DryRun, RefusePoint
<1>2. CASE SkipPoint
  BY <1>2 DEF SkipPoint, Skips, Adds
<1>3. CASE NormalizePoint
  BY <1>3 DEF NormalizePoint, Normalizes, Adds
<1>4. CASE Return
  BY <1>4 DEF Return, Waits
<1>5. CASE UNCHANGED vars
  BY <1>5 DEF vars, Waits
<1>6. QED
  BY <1>1, <1>2, <1>3, <1>4, <1>5 DEF Next

LEMMA AddedPoint ==
  ASSUME TypeOK, NEW point \in Point, Adds(point)
  PROVE  /\ raw' = raw /\ raw \in Seq(Point) /\ phase # "original"
         /\ Len(out) \in Nat /\ Len(out) + 1 \in DOMAIN raw
         /\ DOMAIN out = 1..Len(out)
         /\ out' \in Seq(Point)
         /\ DOMAIN out' = 1..(Len(out) + 1) /\ Len(out') = Len(out) + 1
         /\ \A i \in 1..Len(out) : out'[i] = out[i]
         /\ out'[Len(out) + 1] = point
<1>1. /\ raw' = raw /\ raw \in Seq(Point) /\ phase # "original"
      /\ out \in Seq(Point) /\ out' = Append(out, point)
      /\ Len(out) < Len(raw)
  BY DEF Adds, TypeOK, input
<1>2. QED
  BY <1>1

LEMMA NextPointOK ==
  ASSUME TypeOK, Skips \/ Normalizes
  PROVE  NextPoint \in Point
<1>1. raw \in Seq(Point) /\ out \in Seq(Point) /\ Len(out) < Len(raw)
  BY DEF Skips, Normalizes, Adds, TypeOK
<1>2. QED
  BY <1>1 DEF NextPoint

LEMMA NormalizedPoint ==
  ASSUME TypeOK, Normalizes
  PROVE  /\ NormalizeJointPositions(NextPoint) \in [Joints -> Int]
         /\ NormalizeJointPositions(NextPoint) \in Point
         /\ Finite(NormalizeJointPositions(NextPoint))
<1>1. NextPoint \in Point /\ Finite(NextPoint)
  BY NextPointOK DEF Normalizes
<1>2. \A j \in Joints : NormalizeJointPositions(NextPoint)[j] \in Int
  BY <1>1, NormalizeOK
<1>3. NormalizeJointPositions(NextPoint) =
        [j \in Joints |-> NormalizeJointPositions(NextPoint)[j]]
  BY Zenon DEF NormalizeJointPositions
<1>4. QED
  BY <1>2, <1>3 DEF Finite, Point

\* A point of the result against the one it came from.
PointOK(i) ==
  \/ Finite(raw[i]) /\ Finite(out[i])
  \/ raw[i] = NoPositions /\ out[i] = raw[i]

\* The trajectory grows point by point, or is the one that came; a point is
\* normalized as a whole or left alone.
THEOREM TypeCorrect == Spec => []TypeOK
<1>1. Init => TypeOK
  BY AnglesAssumption DEF Init, TypeOK
<1>2. TypeOK /\ [Next]_vars => TypeOK'
  <2> SUFFICES ASSUME TypeOK, [Next]_vars
               PROVE  TypeOK'
    OBVIOUS
  <2>1. CASE ReturnOriginal
    BY <2>1 DEF ReturnOriginal, TypeOK, input
  <2>2. CASE Read
    <3>1. previous' \in [Joints -> Int \cup {Nothing}]
      BY <2>2, CanonicalCurrentStateOK DEF Read
    <3>2. (previous' = reading) \in BOOLEAN
      OBVIOUS
    <3>3. /\ UNCHANGED <<dryRun, reading, raw, out>>
          /\ phase = "reading" /\ phase' = "points"
          /\ smooth' = (previous' = reading)
      BY <2>2 DEF Read, input
    <3>4. smooth' \in BOOLEAN
      BY <3>2, <3>3
    <3>5. QED
      BY <3>1, <3>3, <3>4, Zenon DEF TypeOK
  <2>3. CASE Skips \/ Normalizes
    <3>1. PICK point \in Point :
            /\ Adds(point)
            /\ \/ Finite(NextPoint) /\ Finite(point)
               \/ NextPoint = NoPositions /\ point = NextPoint
      BY <2>3, NextPointOK, NormalizedPoint DEF Skips, Normalizes
    <3> DEFINE n == Len(out) + 1
    <3>2. \A i \in 1..n :
            \/ Finite(raw[i]) /\ Finite(out'[i])
            \/ raw[i] = NoPositions /\ out'[i] = raw[i]
      <4> TAKE i \in 1..n
      <4>1. CASE i = n
        BY <3>1, <4>1, AddedPoint DEF NextPoint
      <4>2. CASE i \in 1..Len(out)
        BY <3>1, <4>2, AddedPoint DEF TypeOK
      <4>3. QED
        BY <3>1, <4>1, <4>2, AddedPoint
    <3>3. /\ out' \in Seq(Point) /\ Len(out') <= Len(raw)
          /\ DOMAIN out' = 1..n /\ raw' = raw
      BY <3>1, AddedPoint
    <3>4. \A i \in DOMAIN out' :
            \/ Finite(raw'[i]) /\ Finite(out'[i])
            \/ raw'[i] = NoPositions /\ out'[i] = raw'[i]
      BY <3>2, <3>3
    <3>5. phase' = "points" /\ raw' \in Seq(Point) /\ Len(out') <= Len(raw')
      BY <3>1, <3>3, AddedPoint DEF Adds
    <3>6. /\ previous' \in [Joints -> Int \cup {Nothing}]
          /\ {dryRun', smooth'} \subseteq BOOLEAN /\ reading' \in Point
      <4>1. {dryRun', smooth'} \subseteq BOOLEAN /\ reading' \in Point
        BY <2>3, <3>1 DEF Skips, Normalizes, Adds, TypeOK, input, Smooth
      <4>2. previous' \in [Joints -> Int \cup {Nothing}]
        BY <2>3, NormalizedPoint DEF Skips, Normalizes, TypeOK
      <4>3. QED
        BY <4>1, <4>2
    <3>7. QED
      BY <3>3, <3>4, <3>5, <3>6, Zenon DEF TypeOK, Finite
  <2>4. CASE Waits /\ UNCHANGED <<previous, smooth>>
                   /\ (phase' = phase \/ phase' = "done")
    BY <2>4 DEF Waits, TypeOK, input, Finite
  <2>5. QED
    BY <2>1, <2>2, <2>3, <2>4, StepKinds
<1>3. QED
  BY <1>1, <1>2, PTL DEF Spec

\* What BoundedAndEquivalent says of a point.
Right(from, to) ==
  Finite(from) => \A j \in Joints :
    IF ~Proper(Limits(j)) THEN to[j] = from[j]
    ELSE /\ Within(to[j], Limits(j))
         /\ \/ (to[j] - from[j]) % TwoPi = 0
            \/ Candidates(from[j], Limits(j)) = {}

LEMMA NoPositionsIsNotFinite == ~Finite(NoPositions)
BY AnglesAssumption DEF Finite, NoPositions

\* Every trajectory that is not returned as it came keeps the joints in their
\* limits and is the pose that MoveIt meant.
THEOREM Bounded == Spec => []BoundedAndEquivalent
<1> DEFINE Inv == phase # "original" =>
                    \A i \in DOMAIN out : Right(raw[i], out[i])
<1>1. Init => Inv
  BY DEF Init
<1>2. TypeOK /\ Inv /\ [Next]_vars => Inv'
  <2> SUFFICES ASSUME TypeOK, Inv, [Next]_vars, phase' # "original"
               PROVE  \A i \in DOMAIN out' : Right(raw'[i], out'[i])
    BY Zenon DEF Right, Finite
  <2>1. CASE Skips \/ Normalizes
    <3>1. PICK point \in Point : Adds(point) /\ Right(NextPoint, point)
      <4>1. CASE Skips
        BY <4>1, NextPointOK, NoPositionsIsNotFinite DEF Skips, Right
      <4>2. CASE Normalizes
        <5>1. NextPoint \in Point /\ Finite(NextPoint)
          BY <4>2, NextPointOK DEF Normalizes
        <5>2. Right(NextPoint, NormalizeJointPositions(NextPoint))
          BY <5>1, NormalizeOK DEF Right
        <5>3. QED
          BY <4>2, <5>2, NormalizedPoint DEF Normalizes
      <4>3. QED
        BY <2>1, <4>1, <4>2
    <3>2. ASSUME NEW i \in 1..(Len(out) + 1)
          PROVE  Right(raw[i], out'[i])
      <4>1. CASE i = Len(out) + 1
        BY <3>1, <4>1, AddedPoint DEF NextPoint
      <4>2. CASE i \in 1..Len(out)
        BY <3>1, <4>2, AddedPoint
      <4>3. QED
        BY <3>1, <4>1, <4>2, AddedPoint
    <3>3. QED
      BY <3>1, <3>2, AddedPoint
  <2>2. CASE ~(Skips \/ Normalizes)
    <3>1. raw' = raw /\ out' = out /\ phase # "original"
      BY <2>2, StepKinds DEF ReturnOriginal, Read, Waits, input
    <3>2. QED
      BY <3>1
  <2>3. QED
    BY <2>1, <2>2
<1>3. Inv => BoundedAndEquivalent
  BY Zenon DEF BoundedAndEquivalent, Right
<1>4. QED
  BY <1>1, <1>2, <1>3, TypeCorrect, PTL DEF Spec

\* A trajectory that is smooth and inside the limits is executed unchanged.
THEOREM Untouched == Spec => []GoodLeftAlone
<1> DEFINE Inv == GoodLeftAlone /\ (phase = "reading" => out = <<>>)
<1>1. Init => Inv
  BY DEF Init, GoodLeftAlone
<1>2. TypeOK /\ Inv /\ [Next]_vars => Inv'
  <2> SUFFICES ASSUME TypeOK, Inv, [Next]_vars
               PROVE  Inv'
    OBVIOUS
  <2>0. phase' = "reading" => phase = "reading" /\ out' = out
    <3>1. ReturnOriginal \/ Read \/ Skips \/ Normalizes => phase' # "reading"
      BY DEF ReturnOriginal, Read, Skips, Normalizes, Adds
    <3>2. Waits => out' = out
      BY DEF Waits
    <3>3. QED
      BY <3>1, <3>2, StepKinds
  <2> SUFFICES ASSUME phase' # "original", smooth'
               PROVE  \A i \in DOMAIN out' : out'[i] = raw'[i]
    BY <2>0 DEF GoodLeftAlone
  <2>1. CASE Skips \/ Normalizes
    <3>1. smooth
      BY <2>1 DEF Skips, Normalizes
    <3>2. PICK point \in Point : Adds(point) /\ point = NextPoint
      <4>1. CASE Skips
        BY <4>1, NextPointOK DEF Skips
      <4>2. CASE Normalizes
        <5>1. NextPoint \in Point /\ Finite(NextPoint) /\ Smooth(NextPoint)
          BY <4>2, NextPointOK DEF Normalizes
        <5>2. \A j \in Joints :
                NormalizeJointPositions(NextPoint)[j] = NextPoint[j]
          BY <5>1, NormalizeOK
        <5>3. NormalizeJointPositions(NextPoint) = NextPoint
          BY <4>2, <5>1, <5>2, NormalizedPoint DEF Point
        <5>4. QED
          BY <4>2, <5>1, <5>3 DEF Normalizes
      <4>3. QED
        BY <2>1, <4>1, <4>2
    <3>3. ASSUME NEW i \in 1..(Len(out) + 1)
          PROVE  out'[i] = raw[i]
      <4>1. CASE i = Len(out) + 1
        BY <3>2, <4>1, AddedPoint DEF NextPoint
      <4>2. CASE i \in 1..Len(out)
        BY <3>1, <3>2, <4>2, AddedPoint DEF GoodLeftAlone
      <4>3. QED
        BY <3>2, <4>1, <4>2, AddedPoint
    <3>4. QED
      BY <3>2, <3>3, AddedPoint
  <2>2. CASE Read
    <3>1. out' = <<>>
      BY <2>2 DEF Read
    <3>2. QED
      BY <3>1
  <2>3. CASE ~(Skips \/ Normalizes \/ Read)
    <3>1. raw' = raw /\ out' = out /\ phase # "original" /\ smooth' = smooth
      BY <2>3, StepKinds DEF ReturnOriginal, Waits, input
    <3>2. QED
      BY <3>1 DEF GoodLeftAlone
  <2>4. QED
    BY <2>1, <2>2, <2>3
<1>3. QED
  BY <1>1, <1>2, TypeCorrect, PTL DEF Spec
=============================================================================
