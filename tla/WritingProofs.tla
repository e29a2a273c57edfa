----------------------------- MODULE WritingProofs -----------------------------
(***************************************************************************)
(* Theorems about WritingService, for every set of clients, every layout   *)
(* and every required fraction.                                            *)
(***************************************************************************)
EXTENDS WritingService, WellFoundedInduction, FiniteSetTheorems, TLAPS

(***************************************************************************)
(* Waypoints.                                                              *)
(***************************************************************************)

LEMMA LeastNatural ==
  ASSUME NEW T \in SUBSET Nat, T # {}
  PROVE  \E m \in T : \A n \in T : m <= n
<1>1. PICK m \in T : \A n \in T : ~(<<n, m>> \in OpToRel(<, Nat))
  BY NatLessThanWellFounded, WFMin
<1>2. ASSUME NEW n \in T, n < m
      PROVE  <<n, m>> \in OpToRel(<, Nat)
  BY <1>2, Zenon DEF OpToRel
<1>3. \A n \in T : ~(n < m)
  BY <1>1, <1>2, Zenon
<1>4. \A n \in T : m <= n
  BY <1>3, SMT
<1>5. QED
  BY <1>4

\* A path is a nonempty set of waypoints; its first one is well defined.
LEMMA FirstIsIn ==
  ASSUME NEW path \in SUBSET (Nat \X Nat), path # {}
  PROVE  First(path) \in path
<1> DEFINE Is == {v[1] : v \in path}
<1>0. Is \in SUBSET Nat /\ Is # {}
  OBVIOUS
<1>1. PICK i \in Is : \A j \in Is : i <= j
  BY <1>0, LeastNatural, Zenon
<1> DEFINE Ks == {v[2] : v \in {u \in path : u[1] = i}}
<1>. Ks \in SUBSET Nat /\ Ks # {}
  BY <1>1
<1>2. PICK k \in Ks : \A j \in Ks : k <= j
  BY LeastNatural, Zenon
<1>3. <<i, k>> \in path
  OBVIOUS
<1>4. ASSUME NEW v \in path, v[1] < i \/ (v[1] = i /\ v[2] <= k)
      PROVE  v = <<i, k>>
  <2>1. v[1] \in Is /\ v[1] \in Nat /\ v[2] \in Nat /\ i \in Nat /\ k \in Nat
    OBVIOUS
  <2>2. v[1] = i
    BY <1>1, <1>4, <2>1
  <2>3. v[2] \in Ks
    BY <2>2
  <2>4. v[2] = k
    BY <1>2, <1>4, <2>1, <2>2, <2>3
  <2>5. QED
    BY <2>2, <2>4
<1>5. Upto(<<i, k>>, path) = {<<i, k>>}
  BY <1>3, <1>4 DEF Upto
<1>6. QED
  BY <1>3, <1>5 DEF First

LEMMA PathsAreMarks ==
  ASSUME NEW l \in Layouts
  PROVE  /\ SentencePath(l) \in SUBSET Marks
         /\ SentencePath(l) \in SUBSET (Nat \X Nat)
         /\ \A i \in 1..Len(l) : StrokeWaypoints(l, i) \in SUBSET SentencePath(l)
<1>1. l \in Seq(Strokes)
  BY LayoutsAssumption
<1>2. DOMAIN l = 1..Len(l)
  BY <1>1
<1>3. ASSUME NEW i \in 1..Len(l)
      PROVE  StrokeWaypoints(l, i) \in SUBSET (Nat \X Nat)
  <2>1. l[i] \in Strokes
    BY <1>1
  <2>2. Points[l[i]] \in Nat
    BY <2>1, PointsAssumption
  <2>3. QED
    BY <2>2 DEF StrokeWaypoints
<1>4. QED
  BY <1>2, <1>3 DEF SentencePath, Marks

(***************************************************************************)
(* The inductive invariant.  ExclusiveService and StatusSettled are not    *)
(* inductive without the types, and the position of the pen and the ink    *)
(* are only known from how far the owner of the lock has come.             *)
(***************************************************************************)

\* The steps at which the handler has a layout to work on.
Moving == {"prepare", "ready", "start", "plan", "execute"}

\* The locals of a handler: none before they are assigned, and while it drives
\* the arm its attempt is the sentence or one of the strokes of its layout.
Locals ==
  \A c \in Clients :
    /\ pc[c] \in Moving => layout[c] \in Layouts /\ layout[c] # <<>>
    /\ attempt[c] \in 0..Len(layout[c])
    /\ pc[c] \in {"idle", "called", "replied", "begun", "parsing", "prepare",
                  "ready"} => attempt[c] = 0

\* What is executed is a trajectory from the first waypoint of the path on.
Plans ==
  \A c \in Clients :
    pc[c] = "execute" => \E w \in Path(c) : planned[c] = Upto(w, Path(c))

\* From the move to the first waypoint up to the execution the pen hovers there.
Hovering ==
  \A c \in Clients :
    pc[c] \in {"plan", "execute"} /\ ~dryRun /\ Path(c) # {} =>
      arm = First(Path(c)) /\ ~down

TypeInv == TypeOK /\ ExclusiveService /\ Locals /\ Plans

LEMMA PathType ==
  ASSUME TypeOK, Locals, NEW c \in Clients, pc[c] \in Moving
  PROVE  /\ Path(c) \in SUBSET Marks
         /\ Path(c) \in SUBSET (Nat \X Nat)
         /\ Path(c) # {} => First(Path(c)) \in Marks
<1>1. layout[c] \in Layouts /\ attempt[c] \in 0..Len(layout[c])
  BY DEF Locals
<1>2. /\ Path(c) \in SUBSET Marks
      /\ Path(c) \in SUBSET (Nat \X Nat)
  <2>1. CASE attempt[c] = 0
    BY <1>1, <2>1, PathsAreMarks DEF Path
  <2>2. CASE attempt[c] # 0
    <3>1. attempt[c] \in 1..Len(layout[c])
      BY <1>1, <2>2, LayoutsAssumption
    <3>2. QED
      BY <1>1, <2>2, <3>1, PathsAreMarks DEF Path
  <2>3. QED
    BY <2>1, <2>2
<1>3. QED
  BY <1>2, FirstIsIn

\* Stopping at a waypoint of a set that is closed downwards.
LEMMA LastOfUpto ==
  ASSUME NEW path \in SUBSET (Nat \X Nat), NEW w \in path
  PROVE  /\ Upto(w, path) \in SUBSET path
         /\ Upto(w, Upto(w, path)) = Upto(w, path)
         /\ w \in Upto(w, path)
  BY DEF Upto

(***************************************************************************)
(* Types, the lock and the locals.                                         *)
(***************************************************************************)

LEMMA TypeInvInit == Init => TypeInv
<1> SUFFICES ASSUME Init
             PROVE  TypeInv
  OBVIOUS
<1> USE DEF Init, Working
<1>1. TypeOK
  BY DEF TypeOK, Outcomes
<1>2. ExclusiveService
  BY NoneAssumption DEF ExclusiveService
<1>3. Locals
  <2>1. Len(<<>>) = 0
    OBVIOUS
  <2>2. QED
    BY <2>1 DEF Locals, Moving
<1>4. Plans
  BY DEF Plans
<1>5. QED
  BY <1>1, <1>2, <1>3, <1>4 DEF TypeInv

LEMMA TraceType ==
  ASSUME TypeInv, NEW c \in Clients, pc[c] = "execute",
         NEW w \in planned[c], Trace(c, Upto(w, planned[c]))
  PROVE  arm' \in Marks /\ down' \in BOOLEAN /\ ink' \in [Marks -> Nat]
<1>1. planned[c] \in SUBSET Marks /\ planned[c] \in SUBSET (Nat \X Nat)
  BY PathType DEF TypeInv, Plans, Moving, Upto
<1>2. Upto(w, planned[c]) \in SUBSET planned[c]
  BY <1>1, LastOfUpto
<1>3. \E v \in Upto(w, planned[c]) :
        Upto(v, Upto(w, planned[c])) = Upto(w, planned[c])
  BY <1>1, LastOfUpto
<1>4. arm' \in Marks
  BY <1>1, <1>2, <1>3 DEF Trace
<1>5. ink' \in [Marks -> Nat]
  BY DEF Trace, TypeInv, TypeOK
<1>6. down' \in BOOLEAN
  BY DEF Trace
<1>7. QED
  BY <1>4, <1>5, <1>6

LEMMA LayoutLength ==
  ASSUME TypeInv, NEW c \in Clients, pc[c] \in Moving
  PROVE  /\ Len(layout[c]) \in Nat \ {0}
         /\ attempt[c] \in 0..Len(layout[c])
<1>1. layout[c] \in Seq(Strokes) /\ layout[c] # <<>>
  BY LayoutsAssumption DEF TypeInv, Locals
<1>2. QED
  BY <1>1 DEF TypeInv, Locals

\* Only PlanCartesian gives a handler a trajectory to execute.
LEMMA PlansStep == TypeInv /\ [Next]_vars => Plans'
<1> SUFFICES ASSUME TypeInv, [Next]_vars, NEW d \in Clients,
                    pc'[d] = "execute"
             PROVE  \E w \in Path(d)' : planned'[d] = Upto(w, Path(d)')
  BY DEF Plans
<1> USE DEF TypeInv, TypeOK, Goto, Conclude
<1>1. CASE PlanCartesian(d)
  <2>1. Path(d)' = Path(d)
    BY <1>1 DEF PlanCartesian, Path
  <2>2. QED
    BY <1>1, <2>1 DEF PlanCartesian
<1>2. CASE ~PlanCartesian(d)
  <2>1. /\ pc[d] = "execute"
        /\ planned'[d] = planned[d]
        /\ layout'[d] = layout[d]
        /\ attempt'[d] = attempt[d]
    BY <1>2 DEF Next, Handle, vars, node, thread, robot, NodeReady, Call,
         Begin, Reject, RefuseInput, AcceptInput, ParseFails, Parse,
         InitializeFails, Initialize, ReadyPoseFails, ReadyPose,
         EnsureStartFails, EnsureStart, PlanFails, PlanRaises, PlanCartesian,
         ExecuteFails, Execute, Publish, End, AttemptFails, AttemptSucceeds
  <2>2. Path(d)' = Path(d)
    BY <2>1 DEF Path
  <2>3. QED
    BY <2>1, <2>2 DEF Plans
<1>3. QED
  BY <1>1, <1>2

\* After an attempt the handler goes for another one or to its conclusion.
LEMMA AttemptEnds ==
  ASSUME TypeInv, NEW c \in Clients, pc[c] \in {"start", "plan", "execute"},
         AttemptFails(c) \/ AttemptSucceeds(c)
  PROVE  \E p \in {"start", "publish"}, a \in 0..Len(layout[c]), o \in Outcomes :
           /\ pc' = [pc EXCEPT ![c] = p]
           /\ attempt' = [attempt EXCEPT ![c] = a]
           /\ outcome' = [outcome EXCEPT ![c] = o]
<1> USE DEF TypeInv, TypeOK, Outcomes, Goto, Conclude
<1>1. Len(layout[c]) \in Nat \ {0} /\ attempt[c] \in 0..Len(layout[c])
  BY LayoutLength DEF Moving
<1>2. /\ attempt = [attempt EXCEPT ![c] = attempt[c]]
      /\ outcome = [outcome EXCEPT ![c] = outcome[c]]
      /\ outcome[c] \in Outcomes
  OBVIOUS
<1>3. CASE AttemptFails(c) /\ attempt[c] = 0
  <2>1. /\ pc' = [pc EXCEPT ![c] = "start"]
        /\ attempt' = [attempt EXCEPT ![c] = 1]
        /\ outcome' = outcome
    BY <1>3 DEF AttemptFails
  <2>2. 1 \in 0..Len(layout[c])
    BY <1>1
  <2>3. QED
    BY <1>2, <2>1, <2>2, Zenon
<1>4. CASE AttemptFails(c) /\ attempt[c] # 0
  <2>1. /\ pc' = [pc EXCEPT ![c] = "publish"]
        /\ attempt' = attempt
        /\ outcome' = [outcome EXCEPT ![c] = "failed"]
    BY <1>4 DEF AttemptFails
  <2>2. QED
    BY <1>1, <1>2, <2>1, Zenon
<1>5. CASE AttemptSucceeds(c) /\ attempt[c] \in {0, Len(layout[c])}
  <2>1. /\ pc' = [pc EXCEPT ![c] = "publish"]
        /\ attempt' = attempt
        /\ outcome' = [outcome EXCEPT ![c] = "completed"]
    BY <1>5 DEF AttemptSucceeds
  <2>2. QED
    BY <1>1, <1>2, <2>1, Zenon
<1>6. CASE AttemptSucceeds(c) /\ attempt[c] \notin {0, Len(layout[c])}
  <2>1. /\ pc' = [pc EXCEPT ![c] = "start"]
        /\ attempt' = [attempt EXCEPT ![c] = attempt[c] + 1]
        /\ outcome' = outcome
    BY <1>6 DEF AttemptSucceeds
  <2>2. attempt[c] + 1 \in 0..Len(layout[c])
    BY <1>1, <1>6
  <2>3. QED
    BY <1>2, <2>1, <2>2, Zenon
<1>7. QED
  BY <1>3, <1>4, <1>5, <1>6

LEMMA TypesStep ==
  TypeInv /\ [Next]_vars => TypeOK' /\ ExclusiveService' /\ Locals'
<1> SUFFICES ASSUME TypeInv, [Next]_vars
             PROVE  TypeOK' /\ ExclusiveService' /\ Locals'
  OBVIOUS
<1> DEFINE Types == TypeOK /\ ExclusiveService /\ Locals
<1> USE DEF TypeInv, TypeOK, ExclusiveService, Locals, Moving, Working,
            Outcomes, node, thread, robot
<1>0. dryRun' = dryRun
  BY DEF Next, vars
<1> USE <1>0
<1>1. CASE NodeReady
  BY <1>1 DEF NodeReady
<1>2. ASSUME NEW c \in Clients, Call(c)
      PROVE  Types'
  BY <1>2, NoneAssumption DEF Call, Goto
<1>3. ASSUME NEW c \in Clients, Begin(c)
      PROVE  Types'
  BY <1>3, NoneAssumption DEF Begin, Goto, Free
<1>4. ASSUME NEW c \in Clients, Reject(c)
      PROVE  Types'
  BY <1>4, NoneAssumption DEF Reject, Goto, Free
<1>5. ASSUME NEW c \in Clients, RefuseInput(c)
      PROVE  Types'
  BY <1>5, NoneAssumption DEF RefuseInput, Goto
<1>6. ASSUME NEW c \in Clients, AcceptInput(c)
      PROVE  Types'
  BY <1>6, NoneAssumption DEF AcceptInput, Goto, Reports
<1>7. ASSUME NEW c \in Clients, ParseFails(c)
      PROVE  Types'
  BY <1>7, NoneAssumption DEF ParseFails, Conclude, Goto
<1>8. ASSUME NEW c \in Clients, Parse(c)
      PROVE  Types'
  BY <1>8, NoneAssumption DEF Parse, Goto, Reports
<1>9. ASSUME NEW c \in Clients, InitializeFails(c)
      PROVE  Types'
  BY <1>9, NoneAssumption DEF InitializeFails, Conclude, Goto, Reports
<1>10. ASSUME NEW c \in Clients, Initialize(c)
      PROVE  Types'
  BY <1>10, NoneAssumption DEF Initialize, Goto, Reports
<1>11. ASSUME NEW c \in Clients, ReadyPoseFails(c)
      PROVE  Types'
  BY <1>11, NoneAssumption DEF ReadyPoseFails, Conclude, Goto, MayReport, GoFails
<1>12. ASSUME NEW c \in Clients, ReadyPose(c)
      PROVE  Types'
  BY <1>12, NoneAssumption DEF ReadyPose, Goto, Reports, GoTo
<1>13. ASSUME NEW c \in Clients, EnsureStartFails(c)
      PROVE  Types'
  <2>1. PICK p \in {"start", "publish"}, a \in 0..Len(layout[c]), o \in Outcomes :
          /\ pc' = [pc EXCEPT ![c] = p]
          /\ attempt' = [attempt EXCEPT ![c] = a]
          /\ outcome' = [outcome EXCEPT ![c] = o]
    BY <1>13, AttemptEnds DEF EnsureStartFails
  <2>2. arm' \in Marks \cup {Away} /\ down' \in BOOLEAN /\ ink' = ink
    BY <1>13 DEF EnsureStartFails, GoFails
  <2>3. QED
    BY <1>13, <2>1, <2>2
       DEF EnsureStartFails, MayReport
<1>14. ASSUME NEW c \in Clients, EnsureStart(c)
      PROVE  Types'
  <2>1. Len(layout[c]) \in Nat \ {0} /\ attempt[c] \in 0..Len(layout[c])
    BY <1>14, LayoutLength DEF EnsureStart
  <2>2. Path(c) # {} => First(Path(c)) \in Marks
    BY <1>14, PathType DEF EnsureStart
  <2>3. arm' \in Marks \cup {Away} /\ down' \in BOOLEAN /\ ink' = ink
    BY <1>14, <2>2 DEF EnsureStart, GoTo
  <2>4. QED
    BY <1>14, <2>1, <2>3 DEF EnsureStart, Goto, MayReport
<1>15. ASSUME NEW c \in Clients, PlanFails(c)
      PROVE  Types'
  <2>1. PICK p \in {"start", "publish"}, a \in 0..Len(layout[c]), o \in Outcomes :
          /\ pc' = [pc EXCEPT ![c] = p]
          /\ attempt' = [attempt EXCEPT ![c] = a]
          /\ outcome' = [outcome EXCEPT ![c] = o]
    BY <1>15, AttemptEnds DEF PlanFails
  <2>2. QED
    BY <1>15, <2>1 DEF PlanFails, MayReport
<1>16. ASSUME NEW c \in Clients, PlanRaises(c)
      PROVE  Types'
  BY <1>16, NoneAssumption DEF PlanRaises, Conclude, Goto
<1>17. ASSUME NEW c \in Clients, PlanCartesian(c)
      PROVE  Types'
  <2>1. Len(layout[c]) \in Nat \ {0} /\ attempt[c] \in 0..Len(layout[c])
    BY <1>17, LayoutLength DEF PlanCartesian
  <2>2. Path(c) \in SUBSET Marks
    BY <1>17, PathType DEF PlanCartesian
  <2>3. PICK w \in Path(c) :
          planned' = [planned EXCEPT ![c] = Upto(w, Path(c))]
    BY <1>17 DEF PlanCartesian
  <2>4. Upto(w, Path(c)) \in SUBSET Marks
    BY <2>2 DEF Upto
  <2>5. QED
    BY <1>17, <2>1, <2>3, <2>4 DEF PlanCartesian, Goto, MayReport
<1>18. ASSUME NEW c \in Clients, ExecuteFails(c)
      PROVE  Types'
  <2>1. PICK p \in {"start", "publish"}, a \in 0..Len(layout[c]), o \in Outcomes :
          /\ pc' = [pc EXCEPT ![c] = p]
          /\ attempt' = [attempt EXCEPT ![c] = a]
          /\ outcome' = [outcome EXCEPT ![c] = o]
    BY <1>18, AttemptEnds DEF ExecuteFails
  <2>2. /\ arm' \in Marks \cup {Away}
        /\ down' \in BOOLEAN
        /\ ink' \in [Marks -> Nat]
    <3>1. CASE UNCHANGED robot
      BY <3>1
    <3>2. ASSUME NEW w \in planned[c], Trace(c, Upto(w, planned[c]))
          PROVE  /\ arm' \in Marks
                 /\ down' \in BOOLEAN
                 /\ ink' \in [Marks -> Nat]
      BY <1>18, <3>2, TraceType DEF ExecuteFails
    <3>3. QED
      BY <1>18, <3>1, <3>2 DEF ExecuteFails
  <2>3. QED
    BY <1>18, <2>1, <2>2
       DEF ExecuteFails, MayReport
<1>19. ASSUME NEW c \in Clients, Execute(c)
      PROVE  Types'
  <2>1. PICK p \in {"start", "publish"}, a \in 0..Len(layout[c]), o \in Outcomes :
          /\ pc' = [pc EXCEPT ![c] = p]
          /\ attempt' = [attempt EXCEPT ![c] = a]
          /\ outcome' = [outcome EXCEPT ![c] = o]
    BY <1>19, AttemptEnds DEF Execute
  <2>2. /\ arm' \in Marks \cup {Away}
        /\ down' \in BOOLEAN
        /\ ink' \in [Marks -> Nat]
    <3>1. PICK w \in Path(c) : planned[c] = Upto(w, Path(c))
      BY <1>19 DEF Execute, Plans
    <3>2. Path(c) \in SUBSET (Nat \X Nat)
      BY <1>19, PathType DEF Execute
    <3>3. w \in planned[c] /\ planned[c] = Upto(w, planned[c])
      <4>1. /\ Upto(w, Upto(w, Path(c))) = Upto(w, Path(c))
            /\ w \in Upto(w, Path(c))
        BY <3>1, <3>2, LastOfUpto, Zenon
      <4>2. QED
        BY <3>1, <4>1, Zenon
    <3>4. CASE dryRun
      BY <1>19, <3>4 DEF Execute
    <3>5. CASE ~dryRun
      <4>1. Trace(c, Upto(w, planned[c]))
        BY <1>19, <3>3, <3>5 DEF Execute
      <4>2. QED
        BY <1>19, <3>3, <4>1, TraceType DEF Execute
    <3>6. QED
      BY <3>4, <3>5
  <2>3. QED
    BY <1>19, <2>1, <2>2 DEF Execute, Reports
<1>20. ASSUME NEW c \in Clients, Publish(c)
      PROVE  Types'
  BY <1>20, NoneAssumption DEF Publish, Goto
<1>21. ASSUME NEW c \in Clients, End(c)
      PROVE  Types'
  <2>1. TypeOK' /\ ExclusiveService'
    BY <1>21, NoneAssumption DEF End, Goto
  <2>2. Locals'
    <3>1. Len(<<>>) = 0
      OBVIOUS
    <3>2. QED
      BY <1>21, <3>1 DEF End, Goto
  <2>3. QED
    BY <2>1, <2>2
<1>22. CASE UNCHANGED vars
  BY <1>22 DEF vars
<1>23. QED
  BY <1>1, <1>2, <1>3, <1>4, <1>5, <1>6, <1>7, <1>8, <1>9, <1>10, <1>11,
     <1>12, <1>13, <1>14, <1>15, <1>16, <1>17, <1>18, <1>19, <1>20, <1>21,
     <1>22
     DEF Next, Handle

LEMMA TypeInvInvariant == Spec => []TypeInv
<1>1. TypeInv /\ [Next]_vars => TypeInv'
  BY TypesStep, PlansStep DEF TypeInv
<1>2. QED
  BY TypeInvInit, <1>1, PTL DEF Spec

\* Every variable keeps to its type, for all clients, layouts and fractions.
THEOREM TypeCorrect == Spec => []TypeOK
<1>1. TypeInv => TypeOK
  BY DEF TypeInv
<1>2. QED
  BY TypeInvInvariant, <1>1, PTL

\* The service is exclusive: between _begin and the end of the finally clause
\* a handler is alone, whatever the number of clients.
THEOREM Exclusive == Spec => []ExclusiveService
<1>1. TypeInv => ExclusiveService
  BY DEF TypeInv
<1>2. QED
  BY TypeInvInvariant, <1>1, PTL

(***************************************************************************)
(* The status at rest.                                                     *)
(***************************************************************************)

\* What the next conclusion of the handler leaves behind.  A handler about to
\* release the lock has published its conclusion, or nothing at all.
StatusInv ==
  /\ started /\ lock = None => status \in {"idle", "error"}
  /\ \A c \in Clients : started /\ pc[c] \in {"begun", "ending"}
                          => status \in {"idle", "error"}

LEMMA StatusStep == TypeInv /\ StatusInv /\ [Next]_vars => StatusInv'
<1> SUFFICES ASSUME TypeInv, StatusInv, [Next]_vars
             PROVE  StatusInv'
  OBVIOUS
<1> USE DEF TypeInv, TypeOK, ExclusiveService, StatusInv, Working, node,
            thread, robot, Goto, Conclude
<1>1. CASE NodeReady
  BY <1>1 DEF NodeReady
<1>2. ASSUME NEW c \in Clients, Call(c) \/ Begin(c) \/ Reject(c) \/ End(c)
      PROVE  StatusInv'
  BY <1>2, NoneAssumption DEF Call, Begin, Reject, End, Free
<1>3. ASSUME NEW c \in Clients, RefuseInput(c) \/ Publish(c)
      PROVE  StatusInv'
  BY <1>3, NoneAssumption DEF RefuseInput, Publish
<1>4. ASSUME NEW c \in Clients,
             \/ AcceptInput(c) \/ ParseFails(c) \/ Parse(c)
             \/ InitializeFails(c) \/ Initialize(c)
             \/ ReadyPoseFails(c) \/ ReadyPose(c)
             \/ EnsureStart(c) \/ PlanRaises(c) \/ PlanCartesian(c)
      PROVE  StatusInv'
  <2>1. /\ pc[c] \in Working /\ lock' = lock
        /\ \E p \in Working \ {"begun", "ending"} : pc' = [pc EXCEPT ![c] = p]
    BY <1>4 DEF AcceptInput, ParseFails, Parse, InitializeFails, Initialize,
       ReadyPoseFails, ReadyPose, EnsureStart, PlanRaises, PlanCartesian
  <2>2. QED
    BY <2>1, NoneAssumption
<1>5. ASSUME NEW c \in Clients,
             EnsureStartFails(c) \/ PlanFails(c) \/ ExecuteFails(c) \/ Execute(c)
      PROVE  StatusInv'
  <2>1. pc[c] \in {"start", "plan", "execute"} /\ lock' = lock
    BY <1>5 DEF EnsureStartFails, PlanFails, ExecuteFails, Execute
  <2>2. \E p \in {"start", "publish"} : pc' = [pc EXCEPT ![c] = p]
    BY <1>5, <2>1, AttemptEnds
       DEF EnsureStartFails, PlanFails, ExecuteFails, Execute
  <2>3. QED
    BY <2>1, <2>2, NoneAssumption
<1>6. CASE UNCHANGED vars
  BY <1>6 DEF vars
<1>7. QED
  BY <1>1, <1>2, <1>3, <1>4, <1>5, <1>6 DEF Next, Handle

\* A request that is over leaves "idle" or "error" on /vla/status.
THEOREM Settled == Spec => []StatusSettled
<1>1. Init => StatusInv
  BY DEF Init, StatusInv
<1>2. StatusInv => StatusSettled
  BY DEF StatusInv, StatusSettled
<1>3. QED
  BY TypeInvInvariant, StatusStep, <1>1, <1>2, PTL DEF Spec

(***************************************************************************)
(* The arm.                                                                *)
(***************************************************************************)

\* While a handler works, the steps of the others leave it and the arm alone.
LEMMA OthersStandBy ==
  ASSUME TypeInv, [Next]_vars, NEW c \in Clients, pc[c] \in Working, ~Handle(c)
  PROVE  /\ UNCHANGED robot
         /\ pc'[c] = pc[c]
         /\ layout'[c] = layout[c]
         /\ attempt'[c] = attempt[c]
         /\ planned'[c] = planned[c]
         /\ Path(c)' = Path(c)
<1> USE DEF TypeInv, TypeOK, ExclusiveService, Goto, Path
<1>1. CASE NodeReady
  BY <1>1 DEF NodeReady, thread
<1>2. ASSUME NEW d \in Clients, Call(d)
      PROVE  d # c /\ UNCHANGED robot /\ UNCHANGED <<layout, attempt, planned>>
             /\ pc' = [pc EXCEPT ![d] = "called"]
  BY <1>2 DEF Call, Working
<1>3. ASSUME NEW d \in Clients, Handle(d)
      PROVE  Reject(d) /\ d # c
  <2>1. d # c
    BY <1>3
  <2>2. pc[d] \notin Working /\ lock = c
    BY <2>1
  <2>3. ~Free /\ pc[d] \notin Working
    BY <2>2, NoneAssumption DEF Free
  <2>4. QED
    BY <1>3, <2>1, <2>3 DEF Handle, Working, Begin, RefuseInput, AcceptInput,
       ParseFails, Parse, InitializeFails, Initialize, ReadyPoseFails,
       ReadyPose, EnsureStartFails, EnsureStart, PlanFails, PlanRaises,
       PlanCartesian, ExecuteFails, Execute, Publish, End
<1>4. CASE UNCHANGED vars
  BY <1>4 DEF vars, thread, robot
<1>5. QED
  BY <1>1, <1>2, <1>3, <1>4 DEF Next, Reject

LEMMA HoveringStep == TypeInv /\ Hovering /\ [Next]_vars => Hovering'
<1> SUFFICES ASSUME TypeInv, Hovering, [Next]_vars, NEW c \in Clients,
                    pc'[c] \in {"plan", "execute"}, ~dryRun, Path(c)' # {}
             PROVE  arm' = First(Path(c)') /\ ~down'
  BY DEF Hovering, Next, vars
<1> USE DEF TypeInv, TypeOK, Goto, Conclude, robot
<1>1. CASE EnsureStart(c)
  <2>1. Path(c)' = Path(c)
    BY <1>1 DEF EnsureStart, Path
  <2>2. QED
    BY <1>1, <2>1 DEF EnsureStart, GoTo
<1>2. CASE PlanCartesian(c)
  <2>1. Path(c)' = Path(c)
    BY <1>2 DEF PlanCartesian, Path
  <2>2. QED
    BY <1>2, <2>1 DEF PlanCartesian, Hovering
<1>3. CASE Handle(c) /\ ~EnsureStart(c) /\ ~PlanCartesian(c)
  <2>1. CASE EnsureStartFails(c) \/ PlanFails(c) \/ ExecuteFails(c) \/ Execute(c)
    <3>1. pc[c] \in {"start", "plan", "execute"}
      BY <2>1 DEF EnsureStartFails, PlanFails, ExecuteFails, Execute
    <3>2. \E p \in {"start", "publish"} : pc' = [pc EXCEPT ![c] = p]
      BY <2>1, <3>1, AttemptEnds
         DEF EnsureStartFails, PlanFails, ExecuteFails, Execute
    <3>3. QED
      BY <3>2
  <2>2. QED
    BY <1>3, <2>1 DEF Handle, Begin, Reject, RefuseInput, AcceptInput,
       ParseFails, Parse, InitializeFails, Initialize, ReadyPoseFails,
       ReadyPose, PlanRaises, Publish, End
<1>4. CASE ~Handle(c)
  <2>1. CASE pc[c] \in Working
    BY <1>4, <2>1, OthersStandBy DEF Hovering
  <2>2. CASE pc[c] \notin Working
    <3>1. pc'[c] = pc[c] \/ pc'[c] = "called"
      BY <1>4 DEF Next, Handle, vars, node, thread, NodeReady, Call, Begin,
         Reject, RefuseInput, AcceptInput, ParseFails, Parse, InitializeFails,
         Initialize, ReadyPoseFails, ReadyPose, EnsureStartFails, EnsureStart,
         PlanFails, PlanRaises, PlanCartesian, ExecuteFails, Execute, Publish,
         End, AttemptFails, AttemptSucceeds
    <3>2. QED
      BY <2>2, <3>1 DEF Working
  <2>3. QED
    BY <2>1, <2>2
<1>5. QED
  BY <1>1, <1>2, <1>3, <1>4

\* A trajectory is only executed while the pen hovers over its first waypoint.
THEOREM FromItsStart == Spec => []ExecutesFromItsStart
<1>1. Init => Hovering
  BY DEF Init, Hovering
<1>2. TypeInv /\ Hovering => ExecutesFromItsStart
  <2>1. ASSUME TypeInv, NEW c \in Clients, pc[c] = "execute"
        PROVE  Path(c) # {}
    BY <2>1 DEF TypeInv, Plans
  <2>2. QED
    BY <2>1 DEF Hovering, ExecutesFromItsStart
<1>3. QED
  BY TypeInvInvariant, HoveringStep, <1>1, <1>2, PTL DEF Spec

(***************************************************************************)
(* The ink.                                                                *)
(***************************************************************************)

\* How often a waypoint can have been written when an attempt begins: the
\* sentence starts on an empty page, and the fallback for stroke n has been
\* preceded by the sentence and by the strokes before n.
WrittenBefore(w, n) == IF n = 0 THEN 0 ELSE IF w[1] < n THEN 2 ELSE 1

InkInv ==
  /\ AtMostTwice
  /\ \A c \in Clients :
       /\ pc[c] \in {"begun", "parsing", "prepare", "ready"} =>
            \A w \in Marks : ink[w] = 0
       /\ pc[c] \in {"start", "plan", "execute"} =>
            \A w \in Marks : ink[w] <= WrittenBefore(w, attempt[c])

\* A trajectory writes each waypoint of its path at most once more.
LEMMA TraceInk ==
  ASSUME TypeInv, NEW c \in Clients, pc[c] = "execute",
         NEW reached \in SUBSET Path(c), Trace(c, reached)
  PROVE  \A w \in Marks : ink'[w] <= ink[w] + (IF w \in Path(c) THEN 1 ELSE 0)
  BY DEF Trace, TypeInv, TypeOK

LEMMA PathOfStroke ==
  ASSUME TypeInv, NEW c \in Clients, pc[c] \in Moving, attempt[c] # 0
  PROVE  \A w \in Path(c) : w[1] = attempt[c]
  BY DEF Path, StrokeWaypoints

\* The trajectory that Execute or ExecuteFails traces stays on the path.
LEMMA ExecuteInk ==
  ASSUME TypeInv, NEW c \in Clients, Execute(c) \/ ExecuteFails(c)
  PROVE  \A w \in Marks : ink'[w] <= ink[w] + (IF w \in Path(c) THEN 1 ELSE 0)
<1> USE DEF TypeInv, TypeOK
<1>1. pc[c] = "execute"
  BY DEF Execute, ExecuteFails
<1>2. planned[c] \in SUBSET Path(c)
  BY <1>1 DEF Plans, Upto
<1>3. CASE ink' = ink
  BY <1>3
<1>4. CASE Trace(c, planned[c])
  BY <1>1, <1>2, <1>4, TraceInk
<1>5. ASSUME NEW w \in planned[c], Trace(c, Upto(w, planned[c]))
      PROVE  \A v \in Marks : ink'[v] <= ink[v] + (IF v \in Path(c) THEN 1 ELSE 0)
  <2>1. Upto(w, planned[c]) \in SUBSET Path(c)
    BY <1>2 DEF Upto
  <2>2. QED
    BY <1>1, <1>5, <2>1, TraceInk
<1>6. QED
  BY <1>3, <1>4, <1>5 DEF Execute, ExecuteFails, robot

LEMMA InkStep == TypeInv /\ InkInv /\ [Next]_vars => InkInv'
<1> SUFFICES ASSUME TypeInv, InkInv, [Next]_vars
             PROVE  InkInv'
  OBVIOUS
<1> USE DEF TypeInv, TypeOK, AtMostTwice, Goto, Conclude, robot
<1> DEFINE Bound(c) ==
      /\ pc[c] \in {"begun", "parsing", "prepare", "ready"} =>
           \A w \in Marks : ink[w] = 0
      /\ pc[c] \in {"start", "plan", "execute"} =>
           \A w \in Marks : ink[w] <= WrittenBefore(w, attempt[c])
<1>0. \A c \in Clients : Bound(c)
  BY DEF InkInv
<1>1. ASSUME ink' = ink, \A c \in Clients : Bound(c)'
      PROVE  InkInv'
  BY <1>1 DEF InkInv
<1>2. ASSUME NEW c \in Clients, Handle(c), pc[c] \in Working, NEW d \in Clients,
             d # c
      PROVE  Bound(d)'
  <2>1. pc[d] \notin Working /\ pc'[d] = pc[d]
    BY <1>2 DEF ExclusiveService, Handle, Begin, Reject, RefuseInput,
       AcceptInput, ParseFails, Parse, InitializeFails, Initialize,
       ReadyPoseFails, ReadyPose, EnsureStartFails, EnsureStart, PlanFails,
       PlanRaises, PlanCartesian, ExecuteFails, Execute, Publish, End,
       AttemptFails, AttemptSucceeds
  <2>2. QED
    BY <2>1 DEF Working
<1>3. ASSUME NEW c \in Clients, Begin(c)
      PROVE  InkInv'
  <2>1. ink' = [w \in Marks |-> 0] /\ \A d \in Clients : pc[d] \notin Working
    BY <1>3, NoneAssumption DEF Begin, Free, ExclusiveService
  <2>2. \A d \in Clients : Bound(d)'
    BY <1>3, <2>1 DEF Begin, Working
  <2>3. QED
    BY <2>1, <2>2 DEF InkInv
<1>4. ASSUME NEW c \in Clients,
             \/ RefuseInput(c) \/ AcceptInput(c) \/ ParseFails(c) \/ Parse(c)
             \/ InitializeFails(c) \/ Initialize(c) \/ ReadyPoseFails(c)
             \/ ReadyPose(c) \/ EnsureStart(c) \/ PlanRaises(c)
             \/ PlanCartesian(c) \/ Publish(c) \/ End(c)
      PROVE  InkInv'
  <2>1. ink' = ink /\ Handle(c) /\ pc[c] \in Working
    BY <1>4 DEF Handle, Working, RefuseInput, AcceptInput, ParseFails, Parse,
       InitializeFails, Initialize, ReadyPoseFails, ReadyPose, EnsureStart,
       PlanRaises, PlanCartesian, Publish, End, GoTo, GoFails
  <2>2. Bound(c)'
    <3>1. /\ attempt'[c] = attempt[c] \/ pc'[c] = "replied"
          /\ pc[c] = "ready" => attempt[c] = 0
      BY <1>4 DEF Locals, RefuseInput, AcceptInput, ParseFails, Parse,
         InitializeFails, Initialize, ReadyPoseFails, ReadyPose, EnsureStart,
         PlanRaises, PlanCartesian, Publish, End
    <3>2. QED
      BY <1>0, <1>4, <2>1, <3>1 DEF RefuseInput, AcceptInput, ParseFails, Parse,
         InitializeFails, Initialize, ReadyPoseFails, ReadyPose, EnsureStart,
         PlanRaises, PlanCartesian, Publish, End, WrittenBefore
  <2>3. QED
    BY <1>1, <1>2, <2>1, <2>2
<1>5. ASSUME NEW c \in Clients, EnsureStartFails(c) \/ PlanFails(c)
      PROVE  InkInv'
  <2>1. /\ ink' = ink /\ Handle(c) /\ pc[c] \in Working
        /\ pc[c] \in {"start", "plan"} /\ AttemptFails(c)
    BY <1>5 DEF Handle, Working, EnsureStartFails, PlanFails, GoFails
  <2>2. Bound(c)'
    BY <1>0, <2>1 DEF AttemptFails, WrittenBefore
  <2>3. QED
    BY <1>1, <1>2, <2>1, <2>2
<1>6. ASSUME NEW c \in Clients, Execute(c) \/ ExecuteFails(c)
      PROVE  InkInv'
  <2>1. /\ Handle(c) /\ pc[c] \in Working /\ pc[c] = "execute"
        /\ AttemptFails(c) \/ AttemptSucceeds(c)
        /\ ink' \in [Marks -> Nat]
    BY <1>6, TypesStep DEF Handle, Working, Execute, ExecuteFails
  <2>2. \A w \in Marks : ink'[w] <= ink[w] + (IF w \in Path(c) THEN 1 ELSE 0)
    BY <1>6, ExecuteInk
  <2>3. \A w \in Marks : ink[w] <= WrittenBefore(w, attempt[c])
    BY <1>0, <2>1
  <2>4. attempt[c] # 0 => \A w \in Path(c) : w[1] = attempt[c]
    BY <2>1, PathOfStroke DEF Moving
  <2>5. attempt[c] \in Nat /\ \A w \in Marks : w[1] \in Nat
    <3>1. \A l \in Layouts : SentencePath(l) \in SUBSET (Nat \X Nat)
      BY PathsAreMarks
    <3>2. QED
      BY <3>1 DEF Marks
  <2>6. \A w \in Marks : ink'[w] <= WrittenBefore(w, attempt[c] + 1)
    BY <2>1, <2>2, <2>3, <2>4, <2>5 DEF WrittenBefore
  <2>7. \A w \in Marks : ink'[w] <= 2
    <3>1. \A w \in Marks : WrittenBefore(w, attempt[c] + 1) \in {1, 2}
      BY <2>5 DEF WrittenBefore
    <3>2. \A w \in Marks : ink'[w] \in Nat
      BY <2>1
    <3>3. QED
      BY <2>6, <3>1, <3>2
  <2>8. Bound(c)'
    BY <2>1, <2>6 DEF AttemptFails, AttemptSucceeds
  <2>9. QED
    BY <1>2, <2>1, <2>7, <2>8 DEF InkInv
<1>7. CASE NodeReady \/ UNCHANGED vars
  BY <1>7 DEF NodeReady, vars, thread, InkInv
<1>8. ASSUME NEW c \in Clients, Call(c) \/ Reject(c)
      PROVE  InkInv'
  BY <1>8 DEF Call, Reject, InkInv
<1>9. QED
  BY <1>3, <1>4, <1>5, <1>6, <1>7, <1>8 DEF Next, Handle

\* The fallback goes over no part of the text more than once more.
THEOREM NeverThrice == Spec => []AtMostTwice
<1>1. Init => InkInv
  BY DEF Init, InkInv, AtMostTwice
<1>2. InkInv => AtMostTwice
  BY DEF InkInv
<1>3. QED
  BY TypeInvInvariant, InkStep, <1>1, <1>2, PTL DEF Spec

(***************************************************************************)
(* What a completed request has written.                                   *)
(***************************************************************************)

LEMMA StrokesAreFinite ==
  ASSUME NEW l \in Seq(Strokes), NEW i \in 1..Len(l)
  PROVE  /\ IsFiniteSet(StrokeWaypoints(l, i))
         /\ StrokeWaypoints(l, i) \in SUBSET (Nat \X Nat)
         /\ \A w \in StrokeWaypoints(l, i) : w[1] = i
<1>1. Points[l[i]] + 2 \in Int
  BY PointsAssumption
<1>2. IsFiniteSet(1..Points[l[i]] + 2)
  BY <1>1, FS_Interval
<1>3. IsFiniteSet({i} \X (1..Points[l[i]] + 2))
  BY <1>2, FS_Singleton, FS_Product, Zenon
<1>4. QED
  BY <1>3, FS_EmptySet DEF StrokeWaypoints

\* A sentence has finitely many waypoints, as many as its strokes together.
LEMMA SentencesAreFinite ==
  ASSUME NEW l \in Seq(Strokes)
  PROVE  /\ IsFiniteSet(SentencePath(l))
         /\ SentencePath(l) \in SUBSET (Nat \X Nat)
         /\ \A w \in SentencePath(l) : w[1] \in 1..Len(l)
<1> DEFINE Is == 1..Len(l)
           f  == [i \in Is |-> StrokeWaypoints(l, i)]
           Ws == {StrokeWaypoints(l, i) : i \in Is}
<1>1. DOMAIN l = Is /\ Len(l) \in Int
  OBVIOUS
<1>2. f \in Surjection(Is, Ws)
  BY DEF Surjection
<1>3. IsFiniteSet(Is)
  BY <1>1, FS_Interval
<1>4. IsFiniteSet(Ws)
  <2> HIDE DEF f, Ws, Is
  <2> QED
    BY <1>2, <1>3, FS_Surjection
<1>5. \A W \in Ws : IsFiniteSet(W)
  BY StrokesAreFinite
<1>6. IsFiniteSet(UNION Ws)
  <2> HIDE DEF Ws
  <2> QED
    BY <1>4, <1>5, FS_UNION
<1>7. SentencePath(l) = UNION Ws
  BY <1>1 DEF SentencePath
<1>8. \A i \in Is : /\ StrokeWaypoints(l, i) \in SUBSET (Nat \X Nat)
                    /\ \A w \in StrokeWaypoints(l, i) : w[1] = i
  BY StrokesAreFinite
<1>9. QED
  BY <1>6, <1>7, <1>8

\* The waypoints of the first n - 1 strokes, and those the pen has not written.
Before(l, n)    == {w \in SentencePath(l) : w[1] < n}
Unwritten(l, n) == {w \in OnPaper(l) : w[1] < n /\ ink[w] = 0}

\* few is at most the share of all that may stay unwritten.
Granted(few, all) ==
  Cardinality(few) * 100 <= (100 - RequiredPercent) * Cardinality(all)

LEMMA ShareLeft ==
  ASSUME NEW u \in Nat, NEW r \in Nat, NEW p \in Nat, NEW R \in 1..100,
         u <= p - r, r * 100 >= R * p
  PROVE  u * 100 <= (100 - R) * p
BY SMT

LEMMA Distributes ==
  ASSUME NEW r \in Int, NEW p \in Int, NEW q \in Int
  PROVE  r * (p + q) = r * p + r * q /\ r * p \in Int /\ r * q \in Int
BY SMT

\* A trajectory with a sufficient fraction leaves at most the rest unwritten.
LEMMA RestIsGranted ==
  ASSUME NEW path, IsFiniteSet(path), NEW reached \in SUBSET path,
         Sufficient(reached, path), NEW few \in SUBSET (path \ reached)
  PROVE  Granted(few, path)
<1>1. /\ IsFiniteSet(path \ reached)
      /\ Cardinality(path \ reached)
           = Cardinality(path) - Cardinality(path \cap reached)
  BY FS_Difference
<1>2. path \cap reached = reached
  OBVIOUS
<1>3. /\ IsFiniteSet(few) /\ IsFiniteSet(reached)
      /\ Cardinality(few) <= Cardinality(path \ reached)
  BY <1>1, FS_Subset
<1>4. /\ Cardinality(few) \in Nat
      /\ Cardinality(reached) \in Nat
      /\ Cardinality(path) \in Nat
  BY <1>3, FS_CardinalityType
<1>5. Cardinality(few) <= Cardinality(path) - Cardinality(reached)
  BY <1>1, <1>2, <1>3
<1>6. Cardinality(reached) * 100 >= RequiredPercent * Cardinality(path)
  BY DEF Sufficient
<1> QED
  BY <1>4, <1>5, <1>6, ShareLeft, PercentAssumption, Zenon DEF Granted

\* Shares of two paths without a waypoint in common.
LEMMA GrantsAdd ==
  ASSUME NEW path, IsFiniteSet(path), NEW more, IsFiniteSet(more),
         path \cap more = {}, NEW few, IsFiniteSet(few),
         NEW some, IsFiniteSet(some),
         Granted(few, path), Granted(some, more), NEW all \in SUBSET (few \cup some)
  PROVE  Granted(all, path \cup more)
<1>1. /\ Cardinality(path) \in Nat /\ Cardinality(more) \in Nat
      /\ Cardinality(few) \in Nat /\ Cardinality(some) \in Nat
      /\ Cardinality({}) = 0
  BY FS_CardinalityType, FS_EmptySet
<1>2. Cardinality(path \cup more) = Cardinality(path) + Cardinality(more)
  <2>1. Cardinality(path \cup more)
          = Cardinality(path) + Cardinality(more) - Cardinality(path \cap more)
    BY FS_Union
  <2>2. Cardinality(path \cap more) = 0
    BY <1>1
  <2> QED
    BY <1>1, <2>1, <2>2
<1>3. /\ IsFiniteSet(few \cup some)
      /\ Cardinality(few \cup some)
           = Cardinality(few) + Cardinality(some) - Cardinality(few \cap some)
  BY FS_Union
<1>4. IsFiniteSet(few \cap some) /\ IsFiniteSet(all)
      /\ Cardinality(all) <= Cardinality(few \cup some)
  BY <1>3, FS_Intersection, FS_Subset
<1>5. Cardinality(few \cap some) \in Nat /\ Cardinality(all) \in Nat
      /\ Cardinality(few \cup some) \in Nat
  BY <1>3, <1>4, FS_CardinalityType
<1>6. Cardinality(all) <= Cardinality(few) + Cardinality(some)
  BY <1>1, <1>3, <1>4, <1>5
<1>7. /\ Cardinality(few) * 100 <= (100 - RequiredPercent) * Cardinality(path)
      /\ Cardinality(some) * 100 <= (100 - RequiredPercent) * Cardinality(more)
  BY DEF Granted
<1>8. Cardinality(all) * 100
        <= (100 - RequiredPercent) * (Cardinality(path) + Cardinality(more))
  <2> DEFINE r == 100 - RequiredPercent
             x == r * Cardinality(path)
             y == r * Cardinality(more)
  <2>1. r \in Int
    BY PercentAssumption
  <2>2. /\ r * (Cardinality(path) + Cardinality(more)) = x + y
        /\ x \in Int /\ y \in Int
    <3> HIDE DEF r
    <3> QED
      BY <1>1, <2>1, Distributes
  <2>3. Cardinality(few) * 100 <= x /\ Cardinality(some) * 100 <= y
    BY <1>7
  <2>4. Cardinality(all) * 100 <= x + y
    <3> HIDE DEF x, y
    <3> QED
      BY <1>1, <1>5, <1>6, <2>2, <2>3
  <2> QED
    BY <2>2, <2>4, Zenon
<1> QED
  BY <1>2, <1>8, Zenon DEF Granted

\* What is written, and what of it a completed request owes: the fraction of
\* every trajectory it executed, which add up to that of the sentence.
Owes(c) ==
  /\ pc[c] = "execute" => Sufficient(planned[c], Path(c))
  /\ pc[c] \in {"start", "plan", "execute"} /\ ~dryRun /\ attempt[c] # 0 =>
       Granted(Unwritten(layout[c], attempt[c]), Before(layout[c], attempt[c]))
  /\ pc[c] \in {"publish", "ending"} /\ outcome[c] = "completed" /\ ~dryRun =>
       Granted(Unwritten(layout[c], Len(layout[c]) + 1),
               Before(layout[c], Len(layout[c]) + 1))

WrittenInv == \A c \in Clients : Owes(c)

\* The layout of a request is one of the parsers', or the empty one.
LEMMA LayoutIsSeq ==
  ASSUME TypeOK, NEW c \in Clients
  PROVE  layout[c] \in Seq(Strokes) /\ Len(layout[c]) \in Nat
<1>1. <<>> \in Seq(Strokes)
  OBVIOUS
<1>2. layout[c] \in Seq(Strokes)
  BY <1>1, LayoutsAssumption, Zenon DEF TypeOK
<1> QED
  BY <1>2

LEMMA UnwrittenFinite ==
  ASSUME NEW l \in Seq(Strokes), NEW n
  PROVE  /\ IsFiniteSet(Before(l, n)) /\ IsFiniteSet(Unwritten(l, n))
         /\ Unwritten(l, n) \in SUBSET Before(l, n)
<1>1. IsFiniteSet(SentencePath(l))
  BY SentencesAreFinite
<1>2. Before(l, n) \in SUBSET SentencePath(l)
  BY DEF Before
<1>3. Unwritten(l, n) \in SUBSET Before(l, n)
  BY DEF Unwritten, Before, OnPaper
<1> QED
  BY <1>1, <1>2, <1>3, FS_Subset

\* Nothing is owed before the first stroke of the fallback.
LEMMA NothingOwed ==
  ASSUME NEW l \in Seq(Strokes)
  PROVE  Granted(Unwritten(l, 1), Before(l, 1))
<1>1. Before(l, 1) = {}
  BY SentencesAreFinite DEF Before
<1>2. Unwritten(l, 1) = {}
  BY <1>1, UnwrittenFinite
<1>3. Cardinality(Before(l, 1)) = 0 /\ Cardinality(Unwritten(l, 1)) = 0
  BY <1>1, <1>2, FS_EmptySet
<1>4. 0 * 100 <= (100 - RequiredPercent) * 0
  BY PercentAssumption
<1> QED
  BY <1>3, <1>4, Zenon DEF Granted

\* Executing a trajectory leaves unwritten, of its path, what it did not reach,
\* and unwrites nothing.
LEMMA TraceWrites ==
  ASSUME TypeInv, NEW c \in Clients, pc[c] = "execute", Trace(c, planned[c])
  PROVE  \A w \in Marks :
           /\ ink'[w] = 0 => ink[w] = 0
           /\ w \in planned[c] /\ w \in OnPaper(layout[c]) => ink'[w] # 0
BY DEF Trace, TypeInv, TypeOK

\* The attempt that Execute ends extends the share to the next stroke, or to
\* the whole sentence.
LEMMA ExecuteGrants ==
  ASSUME TypeInv, WrittenInv, NEW c \in Clients, Execute(c), ~dryRun,
         NEW l, l = layout[c], NEW a, a = attempt[c],
         NEW n, n = IF a = 0 THEN Len(l) + 1 ELSE a + 1
  PROVE  Granted(Unwritten(l, n)', Before(l, n))
<1>1. pc[c] = "execute" /\ Trace(c, planned[c])
  BY DEF Execute
<1>2. /\ l \in Seq(Strokes) /\ l \in Layouts /\ Len(l) \in Nat
      /\ a \in 0..Len(l)
  BY <1>1, LayoutIsSeq DEF TypeInv, Locals, Moving
<1>3. planned[c] \in SUBSET Path(c)
  BY <1>1 DEF TypeInv, Plans, Upto
<1>4. Sufficient(planned[c], Path(c))
  BY <1>1 DEF WrittenInv, Owes
<1>5. \A w \in OnPaper(l) : /\ w \in SentencePath(l) /\ w \in Marks
                            /\ w[1] \in 1..Len(l)
                            /\ ink'[w] = 0 => ink[w] = 0 /\ w \notin planned[c]
  BY <1>1, <1>2, TraceWrites, PathsAreMarks, SentencesAreFinite DEF OnPaper
<1>6. CASE a = 0
  <2>1. Path(c) = SentencePath(l) /\ IsFiniteSet(Path(c))
    BY <1>2, <1>6, SentencesAreFinite DEF Path
  <2>2. Before(l, Len(l) + 1) = Path(c)
    BY <1>2, <2>1, SentencesAreFinite DEF Before
  <2>3. Unwritten(l, Len(l) + 1)' \in SUBSET (Path(c) \ planned[c])
    BY <1>5, <2>1 DEF Unwritten
  <2>4. Granted(Unwritten(l, Len(l) + 1)', Path(c))
    BY <1>3, <1>4, <2>1, <2>3, RestIsGranted, Zenon
  <2> QED
    BY <1>6, <2>2, <2>4
<1>7. CASE a # 0
  <2>1. Path(c) = StrokeWaypoints(l, a) /\ a \in 1..Len(l)
    BY <1>2, <1>7 DEF Path
  <2>2. IsFiniteSet(Path(c)) /\ \A w \in Path(c) : w[1] = a
    BY <1>2, <2>1, StrokesAreFinite
  <2>3. DOMAIN l = 1..Len(l)
    BY <1>2
  <2>4. \A w \in SentencePath(l) : w[1] = a => w \in Path(c)
    BY <1>2, <2>1, <2>3, StrokesAreFinite DEF SentencePath
  <2>5. Path(c) \in SUBSET SentencePath(l)
    BY <2>1, <2>3 DEF SentencePath
  <2>6. \A w \in SentencePath(l) : w[1] \in 1..Len(l)
    BY <1>2, SentencesAreFinite
  <2>7. Before(l, a + 1) = Before(l, a) \cup Path(c)
    BY <1>2, <2>2, <2>4, <2>5, <2>6 DEF Before
  <2>8. Before(l, a) \cap Path(c) = {}
    BY <1>2, <2>2 DEF Before
  <2> DEFINE some == {w \in Path(c) : w \notin planned[c]}
  <2>9. Unwritten(l, a + 1)' \in SUBSET (Unwritten(l, a) \cup some)
    BY <1>2, <1>5, <2>4 DEF Unwritten
  <2>10. Granted(Unwritten(l, a), Before(l, a))
    BY <1>1, <1>7 DEF WrittenInv, Owes
  <2>11. Granted(some, Path(c)) /\ IsFiniteSet(some)
    BY <1>3, <1>4, <2>2, RestIsGranted, FS_Subset
  <2>12. IsFiniteSet(Before(l, a)) /\ IsFiniteSet(Unwritten(l, a))
    BY <1>2, UnwrittenFinite
  <2>13. Granted(Unwritten(l, a + 1)', Before(l, a) \cup Path(c))
    <3> HIDE DEF some
    <3> QED
      BY <2>2, <2>8, <2>9, <2>10, <2>11, <2>12, GrantsAdd, Zenon
  <2> QED
    BY <1>7, <2>7, <2>13
<1> QED
  BY <1>6, <1>7

\* What a handler owes outlives the steps that leave its text and the ink.
LEMMA OwesInert ==
  ASSUME NEW c \in Clients, Owes(c), ink' = ink, dryRun' = dryRun,
         pc'[c] = pc[c], layout'[c] = layout[c], attempt'[c] = attempt[c],
         planned'[c] = planned[c], outcome'[c] = outcome[c]
  PROVE  Owes(c)'
<1>1. Path(c)' = Path(c)
  BY DEF Path
<1>2. \A l, n : Unwritten(l, n)' = Unwritten(l, n)
  BY DEF Unwritten
<1> QED
  BY <1>1, <1>2 DEF Owes

\* A handler that does nothing, or is not one, owes what it owed.
LEMMA OwesAside ==
  ASSUME TypeInv, [Next]_vars, NEW c \in Clients, Owes(c), ~Handle(c)
  PROVE  Owes(c)'
<1> USE DEF TypeInv, TypeOK, Goto, Conclude
<1>1. CASE pc[c] \in Working
  <2>1. /\ UNCHANGED robot /\ pc'[c] = pc[c] /\ layout'[c] = layout[c]
        /\ attempt'[c] = attempt[c] /\ planned'[c] = planned[c]
    BY <1>1, OthersStandBy
  <2>2. outcome'[c] = outcome[c] /\ dryRun' = dryRun
    BY <1>1 DEF Next, Handle, vars, node, thread, NodeReady, Call, Begin,
       Reject, RefuseInput, AcceptInput, ParseFails, Parse, InitializeFails,
       Initialize, ReadyPoseFails, ReadyPose, EnsureStartFails, EnsureStart,
       PlanFails, PlanRaises, PlanCartesian, ExecuteFails, Execute, Publish,
       End, AttemptFails, AttemptSucceeds, Working
  <2> QED
    BY <2>1, <2>2, OwesInert DEF robot
<1>2. CASE pc[c] \notin Working
  <2>1. pc'[c] = pc[c] \/ pc'[c] = "called"
    BY DEF Next, Handle, vars, node, thread, NodeReady, Call, Begin,
       Reject, RefuseInput, AcceptInput, ParseFails, Parse, InitializeFails,
       Initialize, ReadyPoseFails, ReadyPose, EnsureStartFails, EnsureStart,
       PlanFails, PlanRaises, PlanCartesian, ExecuteFails, Execute, Publish,
       End, AttemptFails, AttemptSucceeds
  <2> QED
    BY <1>2, <2>1 DEF Owes, Working
<1> QED
  BY <1>1, <1>2

LEMMA OwesStep ==
  ASSUME TypeInv, WrittenInv, [Next]_vars, NEW c \in Clients, Handle(c)
  PROVE  Owes(c)'
<1> USE DEF TypeInv, TypeOK, Goto, Conclude
<1>0. Owes(c) /\ dryRun' = dryRun
  BY DEF WrittenInv, Next, vars
<1>1. CASE \/ Begin(c) \/ Reject(c) \/ RefuseInput(c) \/ AcceptInput(c)
           \/ ParseFails(c) \/ Parse(c) \/ InitializeFails(c) \/ Initialize(c)
           \/ ReadyPoseFails(c) \/ PlanRaises(c) \/ End(c)
  <2>1. \/ pc'[c] \in {"begun", "replied", "parsing", "prepare", "ready"}
        \/ pc'[c] \in {"publish", "ending"} /\ outcome'[c] # "completed"
    BY <1>1 DEF Begin, Reject, RefuseInput, AcceptInput, ParseFails, Parse,
       InitializeFails, Initialize, ReadyPoseFails, PlanRaises, End
  <2> QED
    BY <2>1 DEF Owes
<1>2. CASE ReadyPose(c)
  <2>1. pc'[c] = "start" /\ attempt'[c] = 0
    BY <1>2 DEF ReadyPose, Locals
  <2> QED
    BY <2>1 DEF Owes
<1>3. CASE EnsureStart(c) \/ PlanCartesian(c)
  <2>1. /\ pc[c] \in {"start", "plan"} /\ pc'[c] \in {"plan", "execute"}
        /\ ink' = ink /\ layout' = layout /\ attempt' = attempt
    BY <1>3 DEF EnsureStart, PlanCartesian, GoTo, robot
  <2>2. \A l, n : Unwritten(l, n)' = Unwritten(l, n)
    BY <2>1 DEF Unwritten
  <2>3. Path(c)' = Path(c)
    BY <2>1 DEF Path
  <2>4. pc'[c] = "execute" => Sufficient(planned'[c], Path(c))
    BY <1>3 DEF EnsureStart, PlanCartesian
  <2> QED
    BY <1>0, <2>1, <2>2, <2>3, <2>4 DEF Owes
<1>4. CASE EnsureStartFails(c) \/ PlanFails(c) \/ ExecuteFails(c)
  <2>1. /\ AttemptFails(c) /\ pc[c] \in {"start", "plan", "execute"}
        /\ layout' = layout
    BY <1>4 DEF EnsureStartFails, PlanFails, ExecuteFails
  <2>2. CASE attempt[c] = 0
    <3>1. pc'[c] = "start" /\ attempt'[c] = 1
      BY <2>1, <2>2 DEF AttemptFails
    <3>2. layout'[c] \in Seq(Strokes)
      BY <2>1, LayoutIsSeq
    <3>3. PICK l : l = layout'[c]
      OBVIOUS
    <3>4. Granted(Unwritten(l, 1)', Before(l, 1))
      <4>1. Before(l, 1) = {}
        BY <3>2, <3>3, SentencesAreFinite DEF Before
      <4>2. Unwritten(l, 1)' = {}
        BY <4>1 DEF Unwritten, Before, OnPaper
      <4>3. Unwritten(l, 1) = {}
        BY <4>1 DEF Unwritten, Before, OnPaper
      <4> QED
        BY <3>2, <3>3, <4>2, <4>3, NothingOwed
    <3> QED
      BY <3>1, <3>3, <3>4 DEF Owes
  <2>3. CASE attempt[c] # 0
    <3>1. pc'[c] = "publish" /\ outcome'[c] = "failed"
      BY <2>1, <2>3 DEF AttemptFails
    <3> QED
      BY <3>1 DEF Owes
  <2> QED
    BY <2>2, <2>3
<1>5. CASE Execute(c)
  <2>1. /\ AttemptSucceeds(c) /\ pc[c] = "execute" /\ layout' = layout
    BY <1>5 DEF Execute
  <2>2. PICK l, a, n : /\ l = layout[c] /\ a = attempt[c]
                       /\ n = IF a = 0 THEN Len(l) + 1 ELSE a + 1
    OBVIOUS
  <2>3. ~dryRun => Granted(Unwritten(l, n)', Before(l, n))
    BY <1>5, <2>2, ExecuteGrants
  <2>4. CASE a \in {0, Len(l)}
    <3>1. pc'[c] = "publish" /\ layout'[c] = l /\ n = Len(l) + 1
      BY <2>1, <2>2, <2>4 DEF AttemptSucceeds
    <3> QED
      BY <1>0, <2>3, <3>1 DEF Owes
  <2>5. CASE a \notin {0, Len(l)}
    <3>1. pc'[c] = "start" /\ layout'[c] = l /\ attempt'[c] = n
      BY <2>1, <2>2, <2>5 DEF AttemptSucceeds
    <3> QED
      BY <1>0, <2>3, <3>1 DEF Owes
  <2> QED
    BY <2>4, <2>5
<1>6. CASE Publish(c)
  <2>1. /\ pc[c] = "publish" /\ pc'[c] = "ending" /\ ink' = ink
        /\ layout' = layout /\ outcome' = outcome
    BY <1>6 DEF Publish, robot
  <2>2. \A l, n : Unwritten(l, n)' = Unwritten(l, n)
    BY <2>1 DEF Unwritten
  <2> QED
    BY <1>0, <2>1, <2>2 DEF Owes
<1> QED
  BY <1>1, <1>2, <1>3, <1>4, <1>5, <1>6 DEF Handle

\* A request that is answered "completed" left unwritten no more than the
\* required fraction grants: of the sentence, or of its strokes one by one.
THEOREM CompletedWrites == Spec => []CompletedIsWritten
<1>1. Init => WrittenInv
  BY DEF Init, WrittenInv, Owes
<1>2. TypeInv /\ WrittenInv /\ [Next]_vars => WrittenInv'
  <2> SUFFICES ASSUME TypeInv, WrittenInv, [Next]_vars, NEW c \in Clients
               PROVE  Owes(c)'
    BY DEF WrittenInv
  <2>1. Owes(c)
    BY DEF WrittenInv
  <2> QED
    BY <2>1, OwesStep, OwesAside
<1>3. TypeInv /\ WrittenInv => CompletedIsWritten
  <2> SUFFICES ASSUME TypeInv, WrittenInv, NEW c \in Clients, pc[c] = "ending",
                      outcome[c] = "completed", ~dryRun
               PROVE  Granted({w \in OnPaper(layout[c]) : ink[w] = 0},
                              SentencePath(layout[c]))
    BY DEF CompletedIsWritten, Granted
  <2> DEFINE l == layout[c]
  <2>1. l \in Seq(Strokes) /\ Len(l) \in Nat
    BY LayoutIsSeq DEF TypeInv
  <2>2. \A w \in SentencePath(l) : w[1] < Len(l) + 1
    BY <2>1, SentencesAreFinite
  <2>3. /\ Before(l, Len(l) + 1) = SentencePath(l)
        /\ Unwritten(l, Len(l) + 1) = {w \in OnPaper(l) : ink[w] = 0}
    BY <2>2 DEF Before, Unwritten, OnPaper
  <2>4. Granted(Unwritten(l, Len(l) + 1), Before(l, Len(l) + 1))
    BY DEF WrittenInv, Owes
  <2> QED
    BY <2>3, <2>4
<1> QED
  BY TypeInvInvariant, <1>1, <1>2, <1>3, PTL DEF Spec

(***************************************************************************)
(* The abstract service.                                                   *)
(***************************************************************************)

\* The node implements OneAtATime: every step of a handler is a step of the
\* abstract service for the same client, or none.
THEOREM Implements == Spec => ServesOneAtATime
<1>1. Init => Requests!Init
  BY DEF Init, Requests!Init, Phase, Working
<1>2. TypeInv /\ [Next]_vars => [Requests!Next]_Requests!vars
  <2> SUFFICES ASSUME TypeInv, [Next]_vars
               PROVE  Requests!Next \/ UNCHANGED Requests!vars
    BY DEF Requests!vars
  <2> USE DEF TypeInv, TypeOK, ExclusiveService, Goto, Conclude, Working
  <2>1. ASSUME NEW c \in Clients, Call(c)
        PROVE  Requests!Ask(c)
    BY <2>1 DEF Call, Phase, Requests!Ask, Requests!Enter
  <2>2. ASSUME NEW c \in Clients, Begin(c)
        PROVE  Requests!Serve(c)
    BY <2>2, NoneAssumption
       DEF Begin, Free, Phase, Requests!Serve, Requests!Enter
  <2>3. ASSUME NEW c \in Clients, Reject(c)
        PROVE  Requests!TurnAway(c)
    BY <2>3, NoneAssumption
       DEF Reject, Free, Phase, Requests!TurnAway, Requests!Enter
  <2>4. ASSUME NEW c \in Clients, End(c)
        PROVE  Requests!Answer(c)
    BY <2>4 DEF End, Phase, Requests!Answer, Requests!Enter
  <2>5. ASSUME NEW c \in Clients,
               \/ RefuseInput(c) \/ AcceptInput(c) \/ ParseFails(c) \/ Parse(c)
               \/ InitializeFails(c) \/ Initialize(c) \/ ReadyPoseFails(c)
               \/ ReadyPose(c) \/ EnsureStart(c) \/ PlanRaises(c)
               \/ PlanCartesian(c) \/ Publish(c)
        PROVE  Requests!Write(c)
    <3>1. pc[c] \in Working /\ \E p \in Working : pc' = [pc EXCEPT ![c] = p]
      BY <2>5 DEF RefuseInput, AcceptInput, ParseFails, Parse, InitializeFails,
         Initialize, ReadyPoseFails, ReadyPose, EnsureStart, PlanRaises,
         PlanCartesian, Publish
    <3>2. QED
      BY <3>1 DEF Phase, Requests!Write
  <2>6. ASSUME NEW c \in Clients,
               EnsureStartFails(c) \/ PlanFails(c) \/ ExecuteFails(c) \/ Execute(c)
        PROVE  Requests!Write(c)
    <3>1. pc[c] \in {"start", "plan", "execute"}
      BY <2>6 DEF EnsureStartFails, PlanFails, ExecuteFails, Execute
    <3>2. \E p \in {"start", "publish"} : pc' = [pc EXCEPT ![c] = p]
      BY <2>6, <3>1, AttemptEnds
         DEF EnsureStartFails, PlanFails, ExecuteFails, Execute
    <3>3. QED
      BY <3>1, <3>2 DEF Phase, Requests!Write
  <2>7. CASE NodeReady \/ UNCHANGED vars
    BY <2>7 DEF NodeReady, vars, thread, robot, Phase, Requests!vars
  <2>8. QED
    BY <2>1, <2>2, <2>3, <2>4, <2>5, <2>6, <2>7 DEF Next, Handle, Requests!Next
<1>3. QED
  BY TypeInvInvariant, <1>1, <1>2, PTL DEF Spec, ServesOneAtATime, Requests!Spec

(***************************************************************************)
(* A dry run.                                                              *)
(***************************************************************************)

\* Begin names the marks anew for its request: a stutter while none is written.
Untouched == dryRun => arm = Away /\ ink = [w \in Marks |-> 0]

LEMMA StillStep ==
  ASSUME Untouched, [Next]_vars, dryRun
  PROVE  UNCHANGED robot
<1>1. CASE NodeReady \/ UNCHANGED vars
  BY <1>1 DEF NodeReady, vars
<1>2. CASE \E c \in Clients : Begin(c)
  BY <1>2 DEF Begin, Untouched, robot
<1>3. CASE \E c \in Clients : Call(c) \/ Reject(c) \/ End(c) \/ Publish(c)
  BY <1>3 DEF Call, Reject, End, Publish
<1>4. CASE \E c \in Clients :
             \/ RefuseInput(c) \/ AcceptInput(c) \/ ParseFails(c) \/ Parse(c)
             \/ InitializeFails(c) \/ Initialize(c)
  BY <1>4 DEF RefuseInput, AcceptInput, ParseFails, Parse, InitializeFails,
              Initialize
<1>5. CASE \E c \in Clients :
             \/ ReadyPoseFails(c) \/ ReadyPose(c) \/ EnsureStartFails(c)
             \/ EnsureStart(c) \/ PlanFails(c) \/ PlanRaises(c)
             \/ PlanCartesian(c) \/ ExecuteFails(c) \/ Execute(c)
  BY <1>5 DEF ReadyPoseFails, ReadyPose, EnsureStartFails, EnsureStart,
              PlanFails, PlanRaises, PlanCartesian, ExecuteFails, Execute
<1>6. QED
  BY <1>1, <1>2, <1>3, <1>4, <1>5 DEF Next, Handle

\* While ~dry_run is set no step of any handler, and no failure of any call,
\* moves the arm, lowers the pen or writes.
THEOREM StillInDryRun == Spec => DryRunIsStill
<1>1. Init => Untouched
  BY DEF Init, Untouched
<1>2. Untouched /\ [Next]_vars => Untouched'
  <2>1. ASSUME [Next]_vars
        PROVE  dryRun' = dryRun
    BY <2>1 DEF Next, vars
  <2>2. QED
    BY <2>1, StillStep DEF Untouched, robot
<1>3. Untouched /\ [Next]_vars => [~dryRun]_robot
  BY StillStep
<1>4. QED
  BY <1>1, <1>2, <1>3, PTL DEF Spec, DryRunIsStill
=============================================================================
