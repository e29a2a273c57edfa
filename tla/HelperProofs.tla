------------------------------ MODULE HelperProofs ------------------------------
(***************************************************************************)
(* Proofs about RobotStateHelper, for any goals and any stops.             *)
(***************************************************************************)
EXTENDS RobotStateHelper, TLAPS

\* The transition calls one of the services that restore the robot, or none.
LEMMA TransitionCalls ==
  ASSUME NEW g, NEW m, NEW s
  PROVE  Transition(g, m, s) \in Restoring \cup {"none"}
BY DEF Transition, Recovery, Rise, Restoring

\* What a step of updateRobotState may leave behind.
LEMMA AdvanceCalls ==
  ASSUME NEW g, NEW m, NEW s, Advance(g, m, s)
  PROVE  \/ /\ call' \in Restoring \cup {"none", "play"}
            /\ status' = "active"
         \/ /\ call' = "none"
            /\ status' \in {"succeeded", "aborted"}
BY TransitionCalls DEF Advance

\* Update either leaves the goal alone or advances an active one.
LEMMA UpdateCalls ==
  ASSUME NEW m, NEW s, Update(m, s)
  PROVE  \/ UNCHANGED <<call, status, plays>>
         \/ /\ status = "active"
            /\ Advance(goal, m, s)
            /\ \/ call' = "play" /\ plays' = plays + 1
               \/ call' # "play" /\ plays' = plays + 0
<1>1. CASE status = "active"
  <2>1. Advance(goal, m, s) /\ plays' = plays + (IF call' = "play" THEN 1 ELSE 0)
    BY <1>1, Zenon DEF Update
  <2>2. CASE call' = "play"
    BY <1>1, <2>1, <2>2, Zenon
  <2>3. CASE call' # "play"
    BY <1>1, <2>1, <2>3, Zenon
  <2> QED
    BY <2>2, <2>3
<1>2. CASE status # "active"
  BY <1>2, Zenon DEF Update
<1> QED
  BY <1>1, <1>2

\* What accepting a goal leads to: if the goal wants the program stopped, no
\* other service is called but that, or play where there is nothing to do.
LEMMA AcceptCalls ==
  ASSUME TypeOK, NEW g \in Goals, AcceptGoal(g)
  PROVE  /\ \/ /\ call' \in Restoring \cup {"none", "stop", "play"}
               /\ status' = "active"
            \/ /\ call' = "none"
               /\ status' \in {"succeeded", "aborted"}
         /\ status' = "active" /\ g.stop => call' \in {"stop", "play"}
<1>1. CASE g.target \notin Selectable
  BY <1>1, Zenon DEF AcceptGoal
<1>2. CASE g.target \in Selectable
  <2>1. \/ /\ call' = IF g.stop THEN "stop"
                      ELSE Transition(g, robotMode, safetyMode)
           /\ status' = "active"
        \/ /\ robotMode = g.target /\ safetyMode <= REDUCED
           /\ Advance(g, robotMode, safetyMode)
    BY <1>2, Zenon DEF AcceptGoal
  <2>2. CASE /\ robotMode = g.target /\ safetyMode <= REDUCED
             /\ Advance(g, robotMode, safetyMode)
    <3>1. g.target \in {3, 5, 7} /\ safetyMode \in Int
      BY <1>2, TypeOK DEF TypeOK, Selectable, POWER_OFF, IDLE, RUNNING, SafetyModes,
         NORMAL, REDUCED, PROTECTIVE_STOP, SAFEGUARD_STOP, ROBOT_EMERGENCY_STOP,
         FAULT, UNDEFINED_SAFETY_MODE
    <3>2. \/ call' = "play" /\ status' = "active"
          \/ call' = "none" /\ status' \in {"succeeded", "aborted"}
      BY <2>2, <3>1 DEF Advance, REDUCED
    <3> QED
      BY <3>2, Zenon
  <2>3. CASE /\ call' = IF g.stop THEN "stop"
                        ELSE Transition(g, robotMode, safetyMode)
             /\ status' = "active"
    <3>1. CASE g.stop
      BY <2>3, <3>1, Zenon
    <3>2. CASE ~g.stop
      BY <2>3, <3>2, TransitionCalls, Zenon
    <3> QED
      BY <3>1, <3>2
  <2> QED
    BY <2>1, <2>2, <2>3
<1> QED
  BY <1>1, <1>2

(***************************************************************************)
(* Type correctness.                                                       *)
(***************************************************************************)

\* The robot, the callbacks and the clients keep every variable to its type.
THEOREM TypeCorrect == Spec => []TypeOK
<1> USE DEF TypeOK, robot, known, action, history
<1>1. Init => TypeOK
  <2> SUFFICES ASSUME Init PROVE TypeOK
    OBVIOUS
  <2>1. {started, asked, unseen} \subseteq BOOLEAN
    BY DEF Init
  <2>2. stops \in 0..MaxStops /\ plays \in Nat
    BY StopsAssumption DEF Init
  <2> QED
    BY <2>1, <2>2, SMT DEF Init, SafetyModes
<1>2. TypeOK /\ [Next]_vars => TypeOK'
  <2> SUFFICES ASSUME TypeOK, [Next]_vars PROVE TypeOK'
    OBVIOUS
  <2>1. CASE CarryOut
    BY <2>1 DEF CarryOut, Modes, SafetyModes, Restoring
  <2>2. CASE Stop
    <3>1. safety' \in SafetyModes /\ stops' \in 0..MaxStops /\ unseen' \in BOOLEAN
      BY <2>2, StopsAssumption DEF Stop, Missed
    <3>2. mode' \in Modes /\ doing' \in Restoring \cup {"nothing"}
      <4>1. CASE safety' = REDUCED
        BY <2>2, <4>1 DEF Stop
      <4>2. CASE safety' # REDUCED
        BY <2>2, <4>2 DEF Stop, Modes
      <4> QED
        BY <4>1, <4>2
    <3> QED
      BY <2>2, <3>1, <3>2 DEF Stop
  <2>3. CASE Release
    BY <2>3 DEF Release, SafetyModes, Missed
  <2>4. CASE RobotModeCallback \/ SafetyModeCallback
    <3>1. ASSUME NEW m, NEW s, Update(m, s)
          PROVE  /\ call' \in Restoring \cup {"none", "stop", "play"}
                 /\ status' \in {"none", "active", "succeeded", "aborted", "preempted"}
                 /\ plays' \in Nat
      BY <3>1, UpdateCalls, AdvanceCalls
    <3>2. ASSUME NEW m, NEW s, Start(m, s) PROVE started' \in BOOLEAN
      BY <3>2 DEF Start
    <3>3. CASE RobotModeCallback
      BY <3>1, <3>2, <3>3 DEF RobotModeCallback
    <3>4. CASE SafetyModeCallback
      BY <3>1, <3>2, <3>4 DEF SafetyModeCallback
    <3> QED
      BY <2>4, <3>3, <3>4
  <2>5. ASSUME NEW g \in Goals, AcceptGoal(g) PROVE TypeOK'
    <3>1. plays' \in {0, 1}
      BY <2>5 DEF AcceptGoal
    <3>2. /\ call' \in Restoring \cup {"none", "stop", "play"}
          /\ status' \in {"active", "succeeded", "aborted"}
      BY <2>5, AcceptCalls
    <3>3. asked' \in BOOLEAN /\ goal' = g
      BY <2>5 DEF AcceptGoal
    <3> QED
      BY <2>5, <3>1, <3>2, <3>3 DEF AcceptGoal
  <2>6. CASE Preempt
    BY <2>6 DEF Preempt
  <2>7. CASE CallSucceeds \/ CallFails
    <3>1. doing' \in Restoring \cup {"nothing"}
      BY <2>7 DEF CallSucceeds, CallFails, Carried
    <3>2. call' \in Restoring \cup {"none"}
      BY <2>7, TransitionCalls DEF CallSucceeds, CallFails, Continues
    <3>3. CASE CallSucceeds
      BY <3>1, <3>2, <3>3 DEF CallSucceeds
    <3>4. CASE CallFails
      BY <3>1, <3>2, <3>4 DEF CallFails
    <3> QED
      BY <2>7, <3>3, <3>4
  <2>8. CASE UNCHANGED vars
    BY <2>8 DEF vars
  <2> QED
    BY <2>1, <2>2, <2>3, <2>4, <2>5, <2>6, <2>7, <2>8 DEF Next, Robot, Helper
<1> QED
  BY <1>1, <1>2, PTL DEF Spec

(***************************************************************************)
(* The services the thread calls.                                          *)
(***************************************************************************)

\* What is known of the goal between two callbacks and inside of one: play is
\* the last call of a goal, and a goal that is active has asked for the stop it
\* wants unless there was nothing to do but play.
GoalInv ==
  /\ plays \in {0, 1}
  /\ status = "active" /\ plays = 1 => call = "play"
  /\ goal.stop /\ status = "active" => asked \/ call = "play"
  /\ call = "stop" => asked

LEMMA GoalInvInit == Init => GoalInv
BY DEF Init, GoalInv

LEMMA GoalInvStep == TypeOK /\ GoalInv /\ [Next]_vars => GoalInv'
<1> SUFFICES ASSUME TypeOK, GoalInv, [Next]_vars PROVE GoalInv'
  OBVIOUS
<1> USE DEF GoalInv, robot, known, action, history
<1>1. CASE CarryOut \/ Stop \/ Release
  BY <1>1 DEF CarryOut, Stop, Release
<1>2. CASE RobotModeCallback \/ SafetyModeCallback
  <2>1. ASSUME NEW m, NEW s, Update(m, s), call = "none", UNCHANGED <<goal, asked>>
        PROVE  GoalInv'
    <3>1. CASE UNCHANGED <<call, status, plays>>
      BY <2>1, <3>1
    <3>2. CASE /\ status = "active"
               /\ Advance(goal, m, s)
               /\ \/ call' = "play" /\ plays' = plays + 1
                  \/ call' # "play" /\ plays' = plays + 0
      BY <2>1, <3>2, AdvanceCalls DEF Restoring
    <3> QED
      BY <2>1, <3>1, <3>2, UpdateCalls
  <2>2. CASE RobotModeCallback
    BY <2>1, <2>2 DEF RobotModeCallback
  <2>3. CASE SafetyModeCallback
    BY <2>1, <2>3 DEF SafetyModeCallback
  <2> QED
    BY <1>2, <2>2, <2>3
<1>3. ASSUME NEW g \in Goals, AcceptGoal(g) PROVE GoalInv'
  <2>1. goal' = g /\ asked' = (call' = "stop")
    BY <1>3, Zenon DEF AcceptGoal
  <2>2. plays' \in {0, 1} /\ (plays' = 1 => call' = "play")
    BY <1>3 DEF AcceptGoal
  <2> QED
    BY <1>3, <2>1, <2>2, AcceptCalls
<1>4. CASE Preempt
  BY <1>4 DEF Preempt
<1>5. CASE CallSucceeds
  BY <1>5, TransitionCalls DEF CallSucceeds, Continues, Restoring
<1>6. CASE CallFails
  <2>1. status' # "active"
    BY <1>6 DEF CallFails
  <2>2. call' # "stop"
    BY <1>6, TransitionCalls DEF CallFails, Continues, Restoring
  <2> QED
    BY <1>6, <2>1, <2>2 DEF CallFails
<1>7. CASE UNCHANGED vars
  BY <1>7 DEF vars
<1> QED
  BY <1>1, <1>2, <1>3, <1>4, <1>5, <1>6, <1>7 DEF Next, Robot, Helper

\* However the modes change while a goal is active, and whatever fails, the
\* program is played at most once for it.
THEOREM PlayedOnce == Spec => []PlaysOnce
<1>1. GoalInv => PlaysOnce
  BY DEF GoalInv, PlaysOnce
<1> QED
  BY <1>1, GoalInvInit, GoalInvStep, TypeCorrect, PTL DEF Spec

\* What a step may call.
ServesTheGoal ==
  call' # call /\ call' # "none" =>
       /\ status' = "active" \/ call = "stop"
       /\ goal'.stop /\ call' \in Restoring => asked'

LEMMA ServesTheGoalStep == TypeOK /\ GoalInv /\ [Next]_vars => [ServesTheGoal]_vars
<1> SUFFICES ASSUME TypeOK, GoalInv, Next, call' # call, call' # "none"
             PROVE  ServesTheGoal
  BY DEF ServesTheGoal, vars
<1> USE DEF GoalInv, ServesTheGoal, robot, known, action, history
<1>1. CASE CarryOut \/ Stop \/ Release \/ Preempt
  BY <1>1 DEF CarryOut, Stop, Release, Preempt
<1>2. CASE RobotModeCallback \/ SafetyModeCallback
  <2>1. ASSUME NEW m, NEW s, Update(m, s), call = "none", UNCHANGED <<goal, asked>>
        PROVE  ServesTheGoal
    BY <2>1, UpdateCalls, AdvanceCalls
  <2>2. CASE RobotModeCallback
    BY <2>1, <2>2 DEF RobotModeCallback
  <2>3. CASE SafetyModeCallback
    BY <2>1, <2>3 DEF SafetyModeCallback
  <2> QED
    BY <1>2, <2>2, <2>3
<1>3. ASSUME NEW g \in Goals, AcceptGoal(g) PROVE ServesTheGoal
  <2>1. goal' = g
    BY <1>3, Zenon DEF AcceptGoal
  <2> QED
    BY <1>3, <2>1, AcceptCalls DEF Restoring
<1>4. CASE CallSucceeds \/ CallFails
  <2>1. call = "stop" /\ asked' = asked
    BY <1>4 DEF CallSucceeds, CallFails, Continues
  <2> QED
    BY <2>1
<1> QED
  BY <1>1, <1>2, <1>3, <1>4 DEF Next, Robot, Helper

\* A service is only called for an active goal, or in the callback in which
\* the stop of its goal failed, and the stop a goal wants is asked for first.
THEOREM CommandsServe == Spec => CommandsServeTheGoal
<1>1. [ServesTheGoal]_vars =>
        [call' # call /\ call' # "none" =>
           /\ status' = "active" \/ call = "stop"
           /\ goal'.stop /\ call' \in Restoring => asked']_vars
  BY DEF ServesTheGoal
<1> QED
  BY <1>1, GoalInvInit, GoalInvStep, ServesTheGoalStep, TypeCorrect, PTL
     DEF Spec, CommandsServeTheGoal
=============================================================================
