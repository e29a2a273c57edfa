------------------------------- MODULE ArmProofs -------------------------------
(***************************************************************************)
(* Proofs about ArmControllers, for any set of controllers and any of them *)
(* loaded: the arm is held, and reset while it is not.                     *)
(***************************************************************************)
EXTENDS ArmControllers, TLAPS

\* What a switch does to one controller.
LEMMA Performed ==
  ASSUME NEW stop, NEW start, TypeOK, Perform(stop, start)
  PROVE  /\ ctrl' \in [Controllers -> {"unloaded", "stopped", "running"}]
         /\ \A c \in Controllers :
              /\ ctrl[c] = "unloaded" <=> ctrl'[c] = "unloaded"
              /\ c \in start /\ ctrl[c] # "unloaded" => ctrl'[c] = "running"
              /\ c \notin stop /\ ctrl[c] = "running" => ctrl'[c] = "running"
              /\ ctrl'[c] = "running"
                   => c \in start \/ (ctrl[c] = "running" /\ c \notin stop)
BY DEF Perform, After, Running, TypeOK

(***************************************************************************)
(* Type correctness.                                                       *)
(***************************************************************************)

\* The variables of both nodes, of Gazebo and of the controller manager keep
\* to their types.
THEOREM TypeCorrect == Spec => []TypeOK
<1>1. Init => TypeOK
  BY LoadedAssumption, SwitchesAssumption DEF Init, TypeOK
<1>2. TypeOK /\ [Next]_vars => TypeOK'
  <2> SUFFICES ASSUME TypeOK, [Next]_vars PROVE TypeOK'
    OBVIOUS
  <2> USE DEF TypeOK, world, recovery, history, Proceed, Becomes
  <2>1. CASE Turn
    BY <2>1 DEF Turn
  <2>2. CASE Sample
    BY <2>2 DEF Sample
  <2>3. CASE Operate
    BY <2>3 DEF Operate
  <2>4. ASSUME NEW c \in Loaded, Load(c) PROVE TypeOK'
    BY <2>4, LoadedAssumption DEF Load
  <2>5. CASE Spawned \/ Configure \/ UnpauseWorld \/ SawLoaded \/ Hold \/ Dies
    BY <2>5 DEF Spawned, Configure, UnpauseWorld, SawLoaded, Hold, Dies
  <2>6. CASE StartArm
    BY <2>6, Performed DEF StartArm
  <2>7. CASE Recover \/ CooldownEnds \/ Query \/ StopNothing
    BY <2>7 DEF Recover, CooldownEnds, Query, Running, StopNothing
  <2>8. CASE StopAnswered
    BY <2>8, Performed DEF StopAnswered
  <2>9. CASE StopRaises
    BY <2>9, Performed DEF StopRaises
  <2>10. CASE Reset
    BY <2>10 DEF Reset
  <2>11. CASE RestartNothing \/ Await
    BY <2>11 DEF RestartNothing, Restarted, Await
  <2>12. CASE RestartAnswered
    BY <2>12, Performed DEF RestartAnswered, Restarted
  <2>13. CASE RestartRaises
    BY <2>13, Performed DEF RestartRaises, Restarted
  <2>14. CASE UNCHANGED vars
    BY <2>14 DEF vars
  <2> QED
    BY <2>1, <2>2, <2>3, <2>4, <2>5, <2>6, <2>7, <2>8, <2>9, <2>10, <2>11,
       <2>12, <2>13, <2>14
    DEF Next, World, Initializer, Recovering, Breaks
<1> QED
  BY <1>1, <1>2, PTL DEF Spec

(***************************************************************************)
(* The arm is held.                                                        *)
(***************************************************************************)

\* A controller that was polled once stays loaded.
ArmIsLoaded == ini \in {"switch", "hold", "done"} => ctrl[Arm] # "unloaded"

\* Once started, the controller runs, or the recovery has it on its list.
ArmIsKnown ==
  ini \in {"hold", "done"} /\ ~trouble =>
    \/ ctrl[Arm] = "running"
    \/ rec \in {"reset", "restart"} /\ Arm \in stopped

Held == TypeOK /\ ArmIsLoaded /\ ArmIsKnown

LEMMA HeldInit == Init => Held
BY LoadedAssumption, SwitchesAssumption
   DEF Init, Held, TypeOK, ArmIsLoaded, ArmIsKnown

LEMMA HeldStep == Held /\ TypeOK' /\ [Next]_vars => Held'
<1> SUFFICES ASSUME Held, TypeOK', [Next]_vars
             PROVE  ArmIsLoaded' /\ ArmIsKnown'
  BY DEF Held
<1>a. Arm \in Controllers
  BY LoadedAssumption
<1> USE <1>a DEF Held, ArmIsLoaded, ArmIsKnown, world, recovery, history, Proceed, Becomes
<1>1. CASE Turn \/ Sample \/ Operate
  BY <1>1 DEF Turn, Sample, Operate
<1>2. ASSUME NEW c \in Loaded, Load(c) PROVE ArmIsLoaded' /\ ArmIsKnown'
  BY <1>2, LoadedAssumption DEF Load, TypeOK
<1>3. CASE Spawned \/ Configure \/ UnpauseWorld \/ SawLoaded \/ Hold \/ Dies
  BY <1>3 DEF Spawned, Configure, UnpauseWorld, SawLoaded, Hold, Dies
<1>4. CASE StartArm
  BY <1>4, Performed DEF StartArm
<1>5. CASE Recover \/ CooldownEnds \/ Query \/ StopNothing
  BY <1>5 DEF Recover, CooldownEnds, Query, StopNothing
<1>6. CASE StopAnswered
  <2>1. CASE Perform(found, {}) /\ UNCHANGED trouble
    BY <1>6, <2>1, Performed DEF StopAnswered
  <2>2. CASE trouble' = TRUE /\ UNCHANGED ctrl
    BY <1>6, <2>2 DEF StopAnswered
  <2> QED
    BY <1>6, <2>1, <2>2 DEF StopAnswered
<1>7. CASE StopRaises
  BY <1>7, Performed DEF StopRaises
<1>8. CASE Reset
  BY <1>8 DEF Reset
<1>9. CASE RestartNothing \/ Await
  BY <1>9 DEF RestartNothing, Restarted, Await
<1>10. CASE RestartAnswered
  BY <1>10, Performed DEF RestartAnswered, Restarted
<1>11. CASE RestartRaises
  BY <1>11, Performed DEF RestartRaises, Restarted
<1>12. CASE UNCHANGED vars
  BY <1>12 DEF vars
<1> QED
  BY <1>1, <1>2, <1>3, <1>4, <1>5, <1>6, <1>7, <1>8, <1>9, <1>10, <1>11, <1>12
  DEF Next, World, Initializer, Recovering, Breaks

\* Whatever the recovery and the initializer do to each other, an initialized
\* arm is under control between recoveries, unless a switch was refused or
\* its answer lost.
THEOREM ArmHeld == Spec => []ArmIsHeld
<1>1. Held => ArmIsHeld
  BY DEF Held, ArmIsKnown, ArmIsHeld
<1> QED
  BY <1>1, HeldInit, HeldStep, TypeCorrect, PTL DEF Spec

(***************************************************************************)
(* The reset.                                                              *)
(***************************************************************************)

\* Nobody but the recovery and the initializer starts a controller.
Alone ==
  /\ TypeOK
  /\ rec = "stop" /\ ~crossed => Running \subseteq found
  /\ rec = "reset" /\ stopOk /\ ~crossed => Running = {}

LEMMA AloneInit == Init => Alone
BY LoadedAssumption, SwitchesAssumption DEF Init, Alone, TypeOK

LEMMA AloneStep == Alone /\ TypeOK' /\ [Next]_vars => Alone'
<1> SUFFICES ASSUME Alone, TypeOK', [Next]_vars PROVE Alone'
  OBVIOUS
<1> USE DEF Alone, world, recovery, history, Proceed, Becomes, Running
<1>1. CASE Turn \/ Sample \/ Operate
  BY <1>1 DEF Turn, Sample, Operate
<1>2. ASSUME NEW c \in Loaded, Load(c) PROVE Alone'
  BY <1>2, LoadedAssumption DEF Load, TypeOK
<1>3. CASE Initializer
  <2>1. CASE StartArm
    <3>1. crossed' = TRUE
      BY <2>1 DEF StartArm
    <3> QED
      BY <3>1
  <2>2. CASE Spawned \/ Configure \/ UnpauseWorld \/ SawLoaded \/ Hold \/ Dies
    <3>1. UNCHANGED <<ctrl, recovery, crossed>>
      BY <2>2 DEF Spawned, Configure, UnpauseWorld, SawLoaded, Hold, Dies
    <3> QED
      BY <3>1
  <2> QED
    BY <1>3, <2>1, <2>2 DEF Initializer
<1>4. CASE Recover \/ CooldownEnds \/ Query \/ StopNothing
  BY <1>4 DEF Recover, CooldownEnds, Query, StopNothing, TypeOK
<1>5. CASE StopAnswered
  BY <1>5, Performed DEF StopAnswered
<1>6. CASE StopRaises
  BY <1>6 DEF StopRaises
<1>7. CASE Reset
  BY <1>7 DEF Reset
<1>8. CASE RestartNothing \/ Await \/ RestartAnswered \/ RestartRaises
  BY <1>8 DEF RestartNothing, Restarted, Await, RestartAnswered, RestartRaises
<1>9. CASE UNCHANGED vars
  BY <1>9 DEF vars
<1> QED
  BY <1>1, <1>2, <1>3, <1>4, <1>5, <1>6, <1>7, <1>8, <1>9
  DEF Next, World, Recovering, Breaks

\* An acknowledged stop leaves no controller running when the joints are
\* reset, for any set of controllers, unless the initializer starts one.
THEOREM ResetIsSafe == Spec => ResetWhileStopped
<1>1. Alone /\ [Next]_vars =>
        [rec = "reset" /\ rec' # rec /\ stopOk /\ ~crossed => Running = {}]_vars
  BY DEF Alone
<1> QED
  BY <1>1, AloneInit, AloneStep, TypeCorrect, PTL DEF Spec, ResetWhileStopped
=============================================================================
