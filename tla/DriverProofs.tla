------------------------------ MODULE DriverProofs ------------------------------
(***************************************************************************)
(* Proofs about DriverControl, for any controllers and kinds of command,   *)
(* and about SpeedScaling, for every speed, increment and content of the   *)
(* memory, and for packets that are lost in any number.                    *)
(***************************************************************************)
EXTENDS DriverControl, SpeedScaling, TLAPS

(***************************************************************************)
(* Type correctness.                                                       *)
(***************************************************************************)

LEMMA TypeInit == Init => TypeOK
<1> SUFFICES ASSUME Init PROVE TypeOK
  OBVIOUS
<1>1. <<FALSE>> \in Seq(BOOLEAN)
  OBVIOUS
<1> QED
  BY <1>1 DEF Init, TypeOK, RuntimeStates, NoSwitch

\* The loop, the callback, the service and the two nodes keep every variable
\* of the driver and of the stopper to its type.
THEOREM TypeCorrect == Spec => []TypeOK
<1>1. TypeOK /\ [Next]_vars => TypeOK'
  <2> SUFFICES ASSUME TypeOK, [Next]_vars PROVE TypeOK'
    OBVIOUS
  <2> USE DEF TypeOK, flagVars, manager, follower, history
  <2>1. CASE Read
    BY <2>1 DEF Read
  <2>2. CASE Update
    <3>1. KindsOf(switch.start) \subseteq Kinds
      BY KindAssumption DEF KindsOf
    <3>2. flags' \subseteq Kinds /\ NoSwitch \in [start : SUBSET Controllers,
             stop : SUBSET Controllers, by : {"nobody", "user", "stopper"}]
      BY <2>2, <3>1 DEF Update, Switched, NoSwitch
    <3> QED
      BY <2>2, <3>2 DEF Update
  <2>3. CASE Write
    <3>1. ASSUME Accepting PROVE staleWrites' \in Nat /\ stopReq' \in BOOLEAN
      <4>1. stopReq' = FALSE
        BY <2>3, <3>1, Zenon DEF Write
      <4>2. \/ staleWrites' = staleWrites + 1
            \/ staleWrites' = staleWrites + 0
        BY <2>3, <3>1, Zenon DEF Write
      <4>3. staleWrites \in Nat
        OBVIOUS
      <4>4. staleWrites' \in Nat
        BY <4>2, <4>3, SMT
      <4>5. stopReq' \in BOOLEAN
        BY <4>1, Zenon
      <4> QED
        BY <4>4, <4>5, Zenon
    <3>2. ASSUME ~Accepting PROVE staleWrites' \in Nat /\ stopReq' \in BOOLEAN
      <4>1. UNCHANGED <<stopReq, staleWrites>>
        BY <2>3, <3>2, Zenon DEF Write
      <4> QED
        BY <4>1
    <3>3. staleWrites' \in Nat /\ stopReq' \in BOOLEAN
      BY <3>1, <3>2
    <3> QED
      BY <2>3, <3>3 DEF Write
  <2>4. CASE Connect \/ Disconnect
    <3>1. flapped' \in BOOLEAN
      BY <2>4 DEF Connect, Disconnect, Flap
    <3>2. CASE Connect
      BY <3>1, <3>2 DEF Connect
    <3>3. CASE Disconnect
      BY <3>1, <3>3 DEF Disconnect
    <3> QED
      BY <2>4, <3>2, <3>3
  <2>5. CASE RequestReset \/ Announce \/ Withdraw
    <3>1. CASE RequestReset
      BY <3>1 DEF RequestReset
    <3>2. CASE Announce
      <4>1. mail' \in Seq(BOOLEAN)
        BY <3>2 DEF Announce
      <4> QED
        BY <3>2, <4>1 DEF Announce
    <3>3. CASE Withdraw
      <4>1. mail' \in Seq(BOOLEAN)
        BY <3>3 DEF Withdraw
      <4> QED
        BY <3>3, <4>1 DEF Withdraw
    <3> QED
      BY <2>5, <3>1, <3>2, <3>3
  <2>6. CASE CallStop \/ RequestStop
    <3>1. CASE CallStop
      BY <3>1 DEF CallStop
    <3>2. CASE RequestStop
      BY <3>2 DEF RequestStop
    <3> QED
      BY <2>6, <3>1, <3>2
  <2>7. CASE UserSwitches
    BY <2>7 DEF UserSwitches, Accept
  <2>8. CASE Boot \/ List
    BY <2>8 DEF Boot, List
  <2>9. CASE Receive
    <3>1. PICK k \in 1..Len(mail) :
            /\ follows' = mail[k]
            /\ mail' = SubSeq(mail, k + 1, Len(mail))
            /\ stopper' = IF mail[k] = follows THEN "idle"
                          ELSE IF mail[k] THEN "start" ELSE "list"
      BY <2>9 DEF Receive
    <3>2. mail' \in Seq(BOOLEAN) /\ mail[k] \in BOOLEAN
      BY <3>1
    <3> QED
      BY <2>9, <3>1, <3>2 DEF Receive
  <2>10. CASE StartSaved \/ StopSaved
    <3>1. ASSUME NEW at, NEW start \in SUBSET Controllers,
                 NEW stop \in SUBSET Controllers, Ask(at, start, stop)
          PROVE  TypeOK'
      <4>1. /\ switch' \in [start : SUBSET Controllers, stop : SUBSET Controllers,
                              by : {"nobody", "user", "stopper"}]
            /\ stopper' \in {"idle", "wait"}
            /\ initialized' \in BOOLEAN
        <5>1. CASE /\ Accept(start, stop, "stopper")
                   /\ stopper' = "wait"
          BY <5>1 DEF Accept
        <5>2. CASE stopper' = "idle" /\ UNCHANGED <<switch, initialized>>
          BY <5>2
        <5> QED
          BY <3>1, <5>1, <5>2, Zenon DEF Ask
      <4> QED
        BY <3>1, <4>1 DEF Ask
    <3>2. Ask("start", saved, {}) \/ Ask("stop", {}, saved)
      BY <2>10 DEF StartSaved, StopSaved
    <3>3. saved \in SUBSET Controllers /\ {} \in SUBSET Controllers
      OBVIOUS
    <3> QED
      BY <3>1, <3>2, <3>3, Zenon
  <2>11. CASE UNCHANGED vars
    BY <2>11 DEF vars
  <2> QED
    BY <2>1, <2>2, <2>3, <2>4, <2>5, <2>6, <2>7, <2>8, <2>9, <2>10, <2>11
    DEF Next, Loop, Callback, Stopper
<1> QED
  BY <1>1, TypeInit, PTL DEF Spec

(***************************************************************************)
(* The flags.                                                              *)
(***************************************************************************)

\* A kind has one flag, so the flags mirror the controllers only because no
\* two of them run at once, now or after the accepted switch.
OneClaims ==
  /\ AtMostOne(active)
  /\ Feasible(switch.start, switch.stop)

Mirror == OneClaims /\ FlagsMirror

LEMMA MirrorInit == Init => Mirror
BY DEF Init, Mirror, OneClaims, FlagsMirror, Feasible, AtMostOne, NoSwitch, KindsOf

LEMMA MirrorStep == TypeOK /\ Mirror /\ [Next]_vars => Mirror'
<1> SUFFICES ASSUME TypeOK, Mirror, [Next]_vars PROVE Mirror'
  OBVIOUS
<1> USE DEF Mirror, OneClaims, FlagsMirror, KindsOf, Feasible, AtMostOne
<1>1. CASE Update
  <2> DEFINE after == (active \ switch.stop) \cup switch.start
  <2>1. active' = after /\ AtMostOne(after)
    BY <1>1 DEF Update
  <2>2. Switched(flags, switch) = KindsOf(after)
    <3>1. CASE switch.stop = {}
      BY <3>1 DEF Switched
    <3>2. CASE switch.stop # {}
      <4>1. active = switch.stop
        BY <3>2
      <4> QED
        BY <4>1 DEF Switched
    <3> QED
      BY <3>1, <3>2
  <2>3. switch'.start = {} /\ switch'.stop = {}
    BY <1>1 DEF Update, NoSwitch
  <2> QED
    BY <1>1, <2>1, <2>2, <2>3 DEF Update
<1>2. CASE UserSwitches
  BY <1>2 DEF UserSwitches, Accept
<1>3. CASE StartSaved \/ StopSaved
  BY <1>3 DEF StartSaved, StopSaved, Ask, Accept, flagVars
<1>4. CASE \/ Read \/ Write \/ Callback \/ Connect \/ Disconnect \/ CallStop
           \/ RequestStop \/ Boot \/ Receive \/ List \/ UNCHANGED vars
  BY <1>4 DEF Read, Write, Callback, RequestReset, Announce, Withdraw, Connect,
     Disconnect, CallStop, RequestStop, Boot, Receive, List, vars, manager,
     flagVars
<1> QED
  BY <1>1, <1>2, <1>3, <1>4 DEF Next, Loop, Stopper

\* For any controllers and kinds, write chooses the command of the controller
\* that runs.
THEOREM FlagsRight == Spec => []FlagsMirror
<1>1. Mirror => FlagsMirror
  BY DEF Mirror
<1> QED
  BY <1>1, MirrorInit, MirrorStep, TypeCorrect, PTL DEF Spec

(***************************************************************************)
(* Stale commands.                                                         *)
(***************************************************************************)

\* Why a second stale command is impossible: the reset is requested before
\* running is set, and it is only withdrawn by the update that performs it.
Staleness ==
  /\ running => program \in {"up", "lost"}
  /\ ~fresh /\ program # "connected" => reset
  /\ staleWrites # 0 /\ ~fresh => loop # "write" /\ program # "connected"
  /\ StaleOnce

LEMMA StalenessInit == Init => Staleness
BY DEF Init, Staleness, StaleOnce

LEMMA StalenessStep == TypeOK /\ Staleness /\ [Next]_vars => Staleness'
<1> SUFFICES ASSUME TypeOK, Staleness, [Next]_vars PROVE Staleness'
  OBVIOUS
<1> USE DEF TypeOK, Staleness, StaleOnce, flagVars, history
<1>1. CASE Read \/ Update
  BY <1>1 DEF Read, Update
<1>2. CASE Write
  BY <1>2 DEF Write, Accepting
<1>3. CASE Callback
  <2>1. CASE RequestReset
    BY <2>1 DEF RequestReset
  <2>2. CASE Announce
    BY <2>2 DEF Announce
  <2>3. CASE Withdraw
    BY <2>3 DEF Withdraw
  <2> QED
    BY <1>3, <2>1, <2>2, <2>3 DEF Callback
<1>4. CASE Connect \/ Disconnect
  BY <1>4 DEF Connect, Disconnect
<1>5. CASE CallStop \/ RequestStop
  BY <1>5 DEF CallStop, RequestStop
<1>6. CASE UserSwitches \/ Stopper
  BY <1>6 DEF UserSwitches, Stopper, Boot, Receive, List, StartSaved, StopSaved,
              Ask
<1>7. CASE UNCHANGED vars
  BY <1>7 DEF vars
<1> QED
  BY <1>1, <1>2, <1>3, <1>4, <1>5, <1>6, <1>7 DEF Next, Loop

\* However the start of a program falls between the steps of the loop, the
\* controllers are reset before a second command reaches it.
THEOREM NeverStaleTwice == Spec => []StaleOnce
<1>1. Staleness => StaleOnce
  BY DEF Staleness
<1> QED
  BY <1>1, StalenessInit, StalenessStep, TypeCorrect, PTL DEF Spec
(***************************************************************************)
(* The stopper and the controllers.                                        *)
(***************************************************************************)

\* The phases of the stopper, from its start to the first stop it performs ...
Booting ==
  /\ program = "gone" /\ stopper = "boot" /\ follows /\ mail = <<FALSE>>
  /\ active = wanted /\ switch.by # "stopper"

Warned ==
  /\ program = "gone" /\ stopper = "idle" /\ follows /\ mail = <<FALSE>>
  /\ active = wanted /\ switch = NoSwitch

Listing ==
  /\ program = "gone" /\ stopper = "list" /\ ~follows /\ mail = <<>>
  /\ active = wanted /\ switch = NoSwitch

Stopping ==
  /\ program = "gone" /\ stopper = "stop" /\ ~follows /\ mail = <<>>
  /\ active = wanted /\ saved = wanted /\ switch = NoSwitch

StopAccepted ==
  /\ program = "gone" /\ stopper = "wait" /\ ~follows /\ mail = <<>>
  /\ active = wanted
  /\ switch = [start |-> {}, stop |-> wanted, by |-> "stopper"]
  /\ saved = wanted

\* ... and from the next program, which it learns of only when it is up, to
\* the end of that one.
Stopped ==
  /\ program \in {"gone", "connected", "announced"}
  /\ stopper = "idle" /\ ~follows /\ mail = <<>>
  /\ active = {} /\ saved = wanted /\ switch = NoSwitch

Greeted ==
  /\ program = "up" /\ stopper = "idle" /\ ~follows /\ mail = <<TRUE>>
  /\ active = {} /\ saved = wanted /\ switch = NoSwitch

Starting ==
  /\ program = "up" /\ stopper = "start" /\ follows /\ mail = <<>>
  /\ active = {} /\ saved = wanted /\ switch = NoSwitch

StartAccepted ==
  /\ program = "up" /\ stopper = "wait" /\ follows /\ mail = <<>>
  /\ active = {}
  /\ switch = [start |-> wanted, stop |-> {}, by |-> "stopper"]

Started ==
  /\ program = "up" /\ stopper = "idle" /\ follows /\ mail = <<>>
  /\ active = wanted /\ switch.by # "stopper"

Leaving ==
  /\ program = "lost" /\ stopper = "idle" /\ follows /\ mail = <<>>
  /\ active = wanted /\ switch = NoSwitch

StopPhase  == Booting \/ Warned \/ Listing \/ Stopping \/ StopAccepted
StartPhase == \/ Stopped \/ Greeted \/ Starting \/ StartAccepted
              \/ Started \/ Leaving

\* What the stopper may rely on: a program it is told of is running, and what
\* it saved can run at once.
Links ==
  /\ running <=> program \in {"up", "lost"}
  /\ switch.by = "nobody" => switch = NoSwitch
  /\ AtMostOne(wanted)

\* A message that is on its way tells the phases apart.
LEMMA Messages ==
  \A b \in BOOLEAN : <<b>> # <<>> /\ Len(<<b>>) = 1
OBVIOUS

\* While nobody interferes, the stopper is in one of its phases.
Following == Links /\ (~flapped /\ ~meddled => StopPhase \/ StartPhase)

LEMMA FollowingInit == Init => Following
BY DEF Init, Following, Links, StopPhase, Booting, NoSwitch, AtMostOne

LEMMA LinksStep == TypeOK /\ Mirror' /\ Links /\ [Next]_vars => Links'
<1> SUFFICES ASSUME TypeOK, Mirror', Links, [Next]_vars PROVE Links'
  OBVIOUS
<1> USE DEF Links, TypeOK, flagVars, manager, follower, history
<1>1. CASE Update
  <2>1. AtMostOne(active')
    BY DEF Mirror, OneClaims, AtMostOne
  <2>2. AtMostOne(wanted)'
    BY <1>1, <2>1 DEF Update, AtMostOne
  <2> QED
    BY <1>1, <2>2 DEF Update
<1>2. CASE UserSwitches
  BY <1>2 DEF UserSwitches, Accept, AtMostOne
<1>3. CASE StartSaved \/ StopSaved
  BY <1>3 DEF StartSaved, StopSaved, Ask, Accept, AtMostOne
<1>4. CASE Callback
  <2>1. UNCHANGED <<switch, wanted>>
    BY <1>4 DEF Callback, RequestReset, Announce, Withdraw
  <2>2. running' <=> program' \in {"up", "lost"}
    <3>1. CASE RequestReset
      BY <3>1 DEF RequestReset
    <3>2. CASE Announce
      BY <3>2 DEF Announce
    <3>3. CASE Withdraw
      BY <3>3 DEF Withdraw
    <3> QED
      BY <1>4, <3>1, <3>2, <3>3 DEF Callback
  <2> QED
    BY <2>1, <2>2 DEF AtMostOne
<1>5. CASE Connect \/ Disconnect
  BY <1>5 DEF Connect, Disconnect, AtMostOne
<1>6. CASE \/ Read \/ Write \/ CallStop \/ RequestStop \/ Boot \/ Receive
           \/ List \/ UNCHANGED vars
  BY <1>6 DEF Read, Write, CallStop, RequestStop, Boot, Receive, List, vars,
     AtMostOne
<1> QED
  BY <1>1, <1>2, <1>3, <1>4, <1>5, <1>6 DEF Next, Loop, Stopper

\* What leaves the program, the stopper and the controllers alone.
LEMMA AsideStep ==
  ASSUME StopPhase \/ StartPhase,
         UNCHANGED <<program, manager, mail, follower, wanted>>
  PROVE  StopPhase' \/ StartPhase'
BY DEF StopPhase, StartPhase, Booting, Warned, Listing, Stopping, StopAccepted,
   Stopped, Greeted, Starting, StartAccepted, Started, Leaving, manager, follower

\* A user of the controller manager, who does not meddle.
LEMMA UserStep ==
  ASSUME StopPhase \/ StartPhase, UserSwitches, ~meddled'
  PROVE  StopPhase' \/ StartPhase'
<1>1. UNCHANGED <<program, active, mail, follower, wanted>> /\ switch = NoSwitch
  BY DEF UserSwitches, Accept
<1>2. switch'.by = "user"
  BY DEF UserSwitches, Accept
<1>3. (Settled \/ stopper = "boot") /\ (stopper = "idle" => follows)
  BY DEF UserSwitches
<1>4. Booting \/ Started
  BY <1>3, Messages DEF StopPhase, StartPhase, Booting, Warned, Listing, Stopping,
     StopAccepted, Stopped, Greeted, Starting, StartAccepted, Started, Leaving,
     Settled
<1> QED
  BY <1>1, <1>2, <1>4 DEF StopPhase, StartPhase, Booting, Started, follower

\* The loop performs the switch that was accepted.
LEMMA UpdateStep ==
  ASSUME TypeOK, Links, StopPhase \/ StartPhase, Update
  PROVE  StopPhase' \/ StartPhase'
<1>1. /\ active' = (active \ switch.stop) \cup switch.start
      /\ switch' = NoSwitch
      /\ UNCHANGED <<program, mail, follows, saved>>
  BY DEF Update
<1>2. wanted' = IF switch.by = "user" THEN active' ELSE wanted
  BY DEF Update
<1>3. stopper' = IF switch.by = "stopper" THEN "idle" ELSE stopper
  BY DEF Update
<1>4. CASE switch = NoSwitch
  <2>1. UNCHANGED <<program, manager, mail, follower, wanted>>
    BY <1>1, <1>2, <1>3, <1>4 DEF NoSwitch, manager, follower, TypeOK
  <2> QED
    BY <2>1, AsideStep
<1>5. CASE switch.by = "user"
  <2>1. active' = wanted' /\ stopper' = stopper
    BY <1>2, <1>3, <1>5
  <2>2. switch # NoSwitch /\ NoSwitch.by = "nobody"
    BY <1>5 DEF NoSwitch
  <2>3. ~StopAccepted /\ ~StartAccepted
    BY <1>5 DEF StopAccepted, StartAccepted
  <2>4. Booting \/ Started
    BY <2>2, <2>3 DEF StopPhase, StartPhase, Warned, Listing, Stopping, Stopped,
       Greeted, Starting, Leaving
  <2> QED
    BY <1>1, <2>1, <2>2, <2>4 DEF StopPhase, StartPhase, Booting, Started
<1>6. CASE switch.by = "stopper"
  <2>1. stopper' = "idle" /\ wanted' = wanted
    BY <1>2, <1>3, <1>6
  <2>2. NoSwitch.by = "nobody"
    BY DEF NoSwitch
  <2>3. StopAccepted \/ StartAccepted
    BY <1>6, <2>2 DEF StopPhase, StartPhase, Booting, Warned, Listing, Stopping,
       StopAccepted, Stopped, Greeted, Starting, StartAccepted, Started, Leaving
  <2>4. CASE StopAccepted
    <3>1. active' = {}
      BY <1>1, <2>4 DEF StopAccepted
    <3> QED
      BY <1>1, <2>1, <2>4, <3>1 DEF StartPhase, StopAccepted, Stopped
  <2>5. CASE StartAccepted
    <3>1. active' = wanted
      BY <1>1, <2>5 DEF StartAccepted
    <3> QED
      BY <1>1, <2>1, <2>2, <2>5, <3>1 DEF StartPhase, StartAccepted, Started
  <2> QED
    BY <2>3, <2>4, <2>5
<1> QED
  BY <1>4, <1>5, <1>6 DEF TypeOK, Links

\* A program comes and goes only when the stopper has nothing left to do.
LEMMA ProgramStep ==
  ASSUME StopPhase \/ StartPhase, Connect \/ Disconnect \/ Callback, ~flapped'
  PROVE  StopPhase' \/ StartPhase'
<1>1. CASE Connect
  <2>1. Settled
    BY <1>1, Zenon DEF Connect, Flap
  <2>2. Stopped /\ program' = "connected"
    BY <1>1, <2>1, Messages DEF Connect, Settled, StopPhase, StartPhase, Booting, Warned,
       Listing, Stopping, StopAccepted, Stopped, Greeted, Starting,
       StartAccepted, Started, Leaving
  <2> QED
    BY <1>1, <2>2 DEF Connect, StartPhase, Stopped, manager, follower
<1>2. CASE Disconnect
  <2>1. Settled
    BY <1>2, Zenon DEF Disconnect, Flap
  <2>2. Started /\ switch = NoSwitch /\ program' = "lost"
    BY <1>2, <2>1, Messages DEF Disconnect, Settled, StopPhase, StartPhase, Booting, Warned,
       Listing, Stopping, StopAccepted, Stopped, Greeted, Starting,
       StartAccepted, Started, Leaving
  <2> QED
    BY <1>2, <2>2 DEF Disconnect, StartPhase, Started, Leaving, manager, follower
<1>3. CASE RequestReset
  <2>1. Stopped /\ program' = "announced"
    BY <1>3 DEF RequestReset, StopPhase, StartPhase, Booting, Warned, Listing,
       Stopping, StopAccepted, Stopped, Greeted, Starting, StartAccepted,
       Started, Leaving
  <2> QED
    BY <1>3, <2>1 DEF RequestReset, StartPhase, Stopped, manager, follower,
       history
<1>4. CASE Announce
  <2>1. Stopped /\ program' = "up" /\ mail' = Append(<<>>, TRUE)
    BY <1>4 DEF Announce, StopPhase, StartPhase, Booting, Warned, Listing,
       Stopping, StopAccepted, Stopped, Greeted, Starting, StartAccepted,
       Started, Leaving
  <2>2. Append(<<>>, TRUE) = <<TRUE>>
    OBVIOUS
  <2> QED
    BY <1>4, <2>1, <2>2 DEF Announce, StartPhase, Stopped, Greeted, manager,
       follower, history
<1>5. CASE Withdraw
  <2>1. Leaving /\ program' = "gone" /\ mail' = Append(<<>>, FALSE)
    BY <1>5 DEF Withdraw, StopPhase, StartPhase, Booting, Warned, Listing,
       Stopping, StopAccepted, Stopped, Greeted, Starting, StartAccepted,
       Started, Leaving
  <2>2. Append(<<>>, FALSE) = <<FALSE>>
    OBVIOUS
  <2> QED
    BY <1>5, <2>1, <2>2 DEF Withdraw, StopPhase, Leaving, Warned, manager,
       follower, history
<1> QED
  BY <1>1, <1>2, <1>3, <1>4, <1>5 DEF Callback

\* The stopper goes from phase to phase, and its requests are not refused.
LEMMA StopperStep ==
  ASSUME TypeOK, OneClaims, Links, StopPhase \/ StartPhase, Stopper
  PROVE  StopPhase' \/ StartPhase'
<1>1. CASE Boot
  <2>1. Booting
    BY <1>1 DEF Boot, StopPhase, StartPhase, Booting, Warned, Listing, Stopping,
       StopAccepted, Stopped, Greeted, Starting, StartAccepted, Started, Leaving
  <2> QED
    BY <1>1, <2>1 DEF Boot, StopPhase, Booting, Warned, manager, history
<1>2. CASE Receive
  <2>1. PICK k \in 1..Len(mail) :
          /\ follows' = mail[k]
          /\ mail' = SubSeq(mail, k + 1, Len(mail))
          /\ stopper' = IF mail[k] = follows THEN "idle"
                        ELSE IF mail[k] THEN "start" ELSE "list"
    BY <1>2 DEF Receive
  <2>2. mail # <<>>
    BY <2>1
  <2>3. Warned \/ Greeted
    BY <1>2, <2>2 DEF Receive, StopPhase, StartPhase, Booting, Warned, Listing,
       Stopping, StopAccepted, Stopped, Greeted, Starting, StartAccepted,
       Started, Leaving
  <2>4. k = 1 /\ mail' = <<>>
    <3>1. Len(mail) = 1
      BY <2>3, Messages, Zenon DEF Warned, Greeted
    <3>2. k = 1
      BY <2>1, <3>1
    <3>3. mail' = SubSeq(mail, 2, 1) /\ mail \in Seq(BOOLEAN)
      BY <2>1, <3>1, <3>2 DEF TypeOK
    <3>4. mail \in Seq(BOOLEAN) => SubSeq(mail, 2, 1) = <<>>
      OBVIOUS
    <3> QED
      BY <3>2, <3>3, <3>4
  <2>5. CASE Warned
    BY <1>2, <2>1, <2>4, <2>5 DEF Receive, StopPhase, Warned, Listing, manager,
       history
  <2>6. CASE Greeted
    BY <1>2, <2>1, <2>4, <2>6 DEF Receive, StartPhase, Greeted, Starting, manager,
       history
  <2> QED
    BY <2>3, <2>5, <2>6
<1>3. CASE List
  <2>1. Listing
    BY <1>3 DEF List, StopPhase, StartPhase, Booting, Warned, Listing, Stopping,
       StopAccepted, Stopped, Greeted, Starting, StartAccepted, Started, Leaving
  <2> QED
    BY <1>3, <2>1 DEF List, StopPhase, Listing, Stopping, manager, history
<1>4. CASE StopSaved
  <2>1. Stopping
    BY <1>4 DEF StopSaved, Ask, StopPhase, StartPhase, Booting, Warned, Listing,
       Stopping, StopAccepted, Stopped, Greeted, Starting, StartAccepted,
       Started, Leaving
  <2>2. Feasible({}, saved) /\ Prepared({})
    BY <2>1 DEF Stopping, Feasible, Prepared, AtMostOne
  <2>3. UNCHANGED <<program, active, mail, follows, saved, wanted>>
    BY <1>4 DEF StopSaved, Ask, history
  <2>4. CASE saved = {}
    <3>1. stopper' = "idle" /\ UNCHANGED switch
      BY <1>4, <2>4 DEF StopSaved, Ask
    <3> QED
      BY <2>1, <2>3, <2>4, <3>1 DEF StartPhase, Stopping, Stopped
  <2>5. CASE saved # {}
    <3>1. Accept({}, saved, "stopper") /\ stopper' = "wait"
      BY <1>4, <2>2, <2>5 DEF StopSaved, Ask
    <3> QED
      BY <2>1, <2>3, <3>1 DEF StopPhase, Stopping, StopAccepted, Accept
  <2> QED
    BY <2>4, <2>5
<1>5. CASE StartSaved
  <2>1. Starting
    BY <1>5 DEF StartSaved, Ask, StopPhase, StartPhase, Booting, Warned, Listing,
       Stopping, StopAccepted, Stopped, Greeted, Starting, StartAccepted,
       Started, Leaving
  <2>2. Feasible(saved, {}) /\ Prepared(saved)
    BY <2>1 DEF Starting, Feasible, Prepared, Links, AtMostOne
  <2>3. UNCHANGED <<program, active, mail, follows, saved, wanted>>
    BY <1>5 DEF StartSaved, Ask, history
  <2>4. CASE saved = {}
    <3>1. stopper' = "idle" /\ UNCHANGED switch
      BY <1>5, <2>4 DEF StartSaved, Ask
    <3>2. switch.by = "nobody"
      BY <2>1 DEF Starting, NoSwitch
    <3> QED
      BY <2>1, <2>3, <2>4, <3>1, <3>2 DEF StartPhase, Starting, Started
  <2>5. CASE saved # {}
    <3>1. Accept(saved, {}, "stopper") /\ stopper' = "wait"
      BY <1>5, <2>2, <2>5 DEF StartSaved, Ask
    <3> QED
      BY <2>1, <2>3, <3>1 DEF StartPhase, Starting, StartAccepted, Accept
  <2> QED
    BY <2>4, <2>5
<1> QED
  BY <1>1, <1>2, <1>3, <1>4, <1>5 DEF Stopper

LEMMA FollowingStep ==
  TypeOK /\ Mirror /\ Mirror' /\ Following /\ [Next]_vars => Following'
<1> SUFFICES ASSUME TypeOK, Mirror, Mirror', Following, [Next]_vars,
                    ~flapped', ~meddled'
             PROVE  StopPhase' \/ StartPhase'
  BY LinksStep DEF Following
<1>1. ~flapped /\ ~meddled
  <2>1. CASE Connect \/ Disconnect
    <3>1. flapped' = (flapped \/ ~Settled)
      BY <2>1, Zenon DEF Connect, Disconnect, Flap
    <3>2. UNCHANGED meddled
      BY <2>1 DEF Connect, Disconnect
    <3> QED
      BY <3>1, <3>2, Zenon
  <2>2. CASE UserSwitches
    <3>1. meddled' = (meddled \/ ~(Settled \/ stopper = "boot")
                              \/ (stopper = "idle" /\ ~follows))
      BY <2>2, Zenon DEF UserSwitches
    <3>2. UNCHANGED flapped
      BY <2>2 DEF UserSwitches
    <3> QED
      BY <3>1, <3>2, Zenon
  <2>3. CASE Loop \/ CallStop \/ RequestStop \/ UNCHANGED vars
    <3>1. UNCHANGED <<flapped, meddled>>
      BY <2>3 DEF Loop, Read, Update, Write, CallStop, RequestStop, history, vars
    <3> QED
      BY <3>1
  <2>4. CASE Stopper
    BY <2>4 DEF Stopper, Boot, Receive, List, StartSaved, StopSaved, Ask, history
  <2>5. CASE Callback
    <3>1. UNCHANGED <<flapped, meddled>>
      BY <2>5 DEF Callback, RequestReset, Announce, Withdraw, history
    <3> QED
      BY <3>1
  <2> QED
    BY <2>1, <2>2, <2>3, <2>4, <2>5 DEF Next
<1>2. (StopPhase \/ StartPhase) /\ Links /\ OneClaims
  BY <1>1 DEF Following, Mirror
<1>3. CASE Update
  BY <1>2, <1>3, UpdateStep
<1>4. CASE Stopper
  BY <1>2, <1>4, StopperStep
<1>5. CASE Connect \/ Disconnect \/ Callback
  BY <1>2, <1>5, ProgramStep
<1>6. CASE UserSwitches
  BY <1>2, <1>6, UserStep
<1>7. CASE Read \/ Write \/ CallStop \/ RequestStop \/ UNCHANGED vars
  <2>1. UNCHANGED <<program, manager, mail, follower, wanted>>
    BY <1>7 DEF Read, Write, CallStop, RequestStop, vars, history
  <2> QED
    BY <1>2, <2>1, AsideStep
<1> QED
  BY <1>3, <1>4, <1>5, <1>6, <1>7 DEF Next, Loop

\* However the program, the loop, a user and the stopper interleave: if the
\* program gives the stopper time and no user interferes, the controllers run
\* while their program does, and come back as the user left them.
THEOREM StopperRight == Spec => []ControllersFollow
<1>1. Following => ControllersFollow
  <2> SUFFICES ASSUME Following, Settled, ~flapped, ~meddled
               PROVE  active = IF follows THEN wanted ELSE {}
    BY DEF ControllersFollow
  <2>1. Stopped \/ Started
    BY DEF Following, Settled, StopPhase, StartPhase, Booting, Warned, Listing,
       Stopping, StopAccepted, Stopped, Greeted, Starting, StartAccepted,
       Started, Leaving
  <2> QED
    BY <2>1 DEF Stopped, Started
<1>2. Init => TypeOK /\ Mirror /\ Following
  BY TypeInit, MirrorInit, FollowingInit
<1> QED
  BY <1>1, <1>2, TypeCorrect, MirrorStep, FollowingStep, PTL DEF Spec

(***************************************************************************)
(* The speed of the controllers: type correctness.                         *)
(***************************************************************************)

\* The type invariant holds after every step.
LEMMA ScalingTypeStep == ScalingTypeOK /\ [ScalingNext]_scalingVars => ScalingTypeOK'
<1> SUFFICES ASSUME ScalingTypeOK, [ScalingNext]_scalingVars PROVE ScalingTypeOK'
  OBVIOUS
<1> USE SpeedAssumption
<1>1. CASE Proceed
  BY <1>1 DEF Proceed, ScalingTypeOK, Moves, Speeds, ProgramStates
<1>2. CASE ChangeSpeed
  BY <1>2 DEF ChangeSpeed, ScalingTypeOK, Speeds, ProgramStates
<1>3. CASE ReadPacket
  <2>1. packet' \in [state : ProgramStates, speed : Speeds \cup {Unread}]
        /\ packet'.speed # Unread
    BY <1>3 DEF ReadPacket, ScalingTypeOK, Speeds, Unread
  <2>2. combined \in Nat
    BY DEF ScalingTypeOK, Speeds
  <2>3. Combined \in Speeds
    BY <2>2 DEF Combined, Ramp, Least, ScalingTypeOK, Speeds
  <2>4. pausing' \in {"RUNNING", "PAUSED", "RAMPUP"}
    BY <1>3 DEF ReadPacket, Pausing, ScalingTypeOK
  <2> QED
    BY <1>3, <2>1, <2>3, <2>4 DEF ReadPacket, ScalingTypeOK, robot
<1>4. CASE UNCHANGED scalingVars
  BY <1>4 DEF scalingVars, robot, ScalingTypeOK, Speeds, ProgramStates
<1> QED
  BY <1>1, <1>2, <1>3, <1>4 DEF ScalingNext

\* The driver's state is always one of those ScalingTypeOK lists: the scaling is never
\* negative, nor more than the full speed once a packet was read.
THEOREM ScalingTypeCorrect == ScalingSpec => []ScalingTypeOK
<1>1. ScalingInit => ScalingTypeOK
  BY SpeedAssumption DEF ScalingInit, ScalingTypeOK, ProgramStates, Unread, Speeds
<1> QED
  BY <1>1, ScalingTypeStep, PTL DEF ScalingSpec

(***************************************************************************)
(* What a pause leaves behind until it is over.                            *)
(***************************************************************************)

\* A pause that was shown is known while the robot resumes, ...
PauseKnown ==
  /\ packet.state = "PAUSED" => pausing = "PAUSED"
  /\ ~unshown /\ programState = "RESUMING" => pausing = "PAUSED"
  /\ ~unshown /\ packet.state = "RESUMING" => pausing = "PAUSED"

\* ... and a playing robot is followed at its own speed or up a ramp.
FollowsOrRises ==
  packet.state = "PLAYING" =>
    \/ pausing = "RAMPUP"
    \/ pausing = "RUNNING" /\ combined = packet.speed

ScalingInv == ScalingTypeOK /\ PauseKnown /\ FollowsOrRises /\ StillWhileResuming

LEMMA ReadStep ==
  ASSUME ScalingInv, ReadPacket
  PROVE  PauseKnown' /\ FollowsOrRises' /\ StillWhileResuming'
<1> USE SpeedAssumption
<1>1. /\ packet'.state = programState /\ packet'.speed = speed
      /\ programState' = programState
      /\ combined' = Combined
      /\ pausing' = IF Pausing = "RAMPUP" /\ RampEnds THEN "RUNNING"
                                                      ELSE Pausing
      /\ ~unshown' => ~unshown \/ programState = "PAUSED"
  BY DEF ReadPacket, robot
<1>2. combined \in Nat /\ speed \in Nat
  BY DEF ScalingInv, ScalingTypeOK, Speeds
<1>3. pausing \in {"RUNNING", "PAUSED", "RAMPUP"}
  BY DEF ScalingInv, ScalingTypeOK
<1>4. ~unshown' /\ programState = "RESUMING" => pausing = "PAUSED"
  BY <1>1 DEF ScalingInv, PauseKnown
<1>5. PauseKnown'
  BY <1>1, <1>4 DEF PauseKnown, Pausing
<1>6. FollowsOrRises'
  <2> SUFFICES ASSUME programState = "PLAYING"
               PROVE  \/ pausing' = "RAMPUP"
                      \/ pausing' = "RUNNING" /\ combined' = speed
    BY <1>1 DEF FollowsOrRises
  <2>1. Pausing \in {"RAMPUP", "RUNNING"}
    BY <1>3 DEF Pausing
  <2>2. CASE Pausing = "RUNNING"
    BY <1>1, <2>2 DEF Combined
  <2>3. CASE Pausing = "RAMPUP" /\ RampEnds
    <3>1. Least(Ramp, speed) = speed
      BY <1>2, <2>3 DEF Least, RampEnds, Ramp
    <3> QED
      BY <1>1, <2>3, <3>1 DEF Combined
  <2>4. CASE Pausing = "RAMPUP" /\ ~RampEnds
    BY <1>1, <2>4
  <2> QED
    BY <2>1, <2>2, <2>3, <2>4
<1>7. StillWhileResuming'
  <2> SUFFICES ASSUME programState = "RESUMING", ~unshown' PROVE combined' = 0
    BY <1>1 DEF StillWhileResuming
  <2>1. Pausing = "PAUSED"
    BY <1>4 DEF Pausing
  <2> QED
    BY <1>1, <2>1 DEF Combined
<1> QED
  BY <1>5, <1>6, <1>7

LEMMA ScalingStep == ScalingInv /\ [ScalingNext]_scalingVars => ScalingInv'
<1> SUFFICES ASSUME ScalingInv, [ScalingNext]_scalingVars PROVE ScalingInv'
  OBVIOUS
<1>1. ScalingTypeOK'
  BY ScalingTypeStep DEF ScalingInv
<1>2. CASE Proceed
  <2>1. UNCHANGED <<packet, pausing, combined>> /\ (~unshown' => ~unshown)
    BY <1>2 DEF Proceed
  <2>2. ~unshown' /\ programState' = "RESUMING" => pausing = "PAUSED"
    <3> SUFFICES ASSUME ~unshown', programState' = "RESUMING"
                 PROVE  pausing = "PAUSED"
      OBVIOUS
    <3>1. programState = "PAUSED"
      BY <1>2 DEF Proceed, Moves
    <3>2. packet.state = "PAUSED"
      BY <1>2, <3>1 DEF Proceed
    <3> QED
      BY <3>2 DEF ScalingInv, PauseKnown
  <2>3. PauseKnown' /\ FollowsOrRises' /\ StillWhileResuming'
    BY <2>1, <2>2
    DEF ScalingInv, PauseKnown, FollowsOrRises, StillWhileResuming
  <2> QED
    BY <1>1, <2>3 DEF ScalingInv
<1>3. CASE ChangeSpeed
  BY <1>1, <1>3 DEF ChangeSpeed, ScalingInv, PauseKnown, FollowsOrRises,
                    StillWhileResuming
<1>4. CASE ReadPacket
  BY <1>1, <1>4, ReadStep DEF ScalingInv
<1>5. CASE UNCHANGED scalingVars
  BY <1>1, <1>5 DEF scalingVars, robot, ScalingInv, PauseKnown, FollowsOrRises,
                    StillWhileResuming
<1> QED
  BY <1>2, <1>3, <1>4, <1>5 DEF ScalingNext

LEMMA ScalingAlways == ScalingSpec => []ScalingInv
<1>1. ScalingInit => ScalingTypeOK
  BY SpeedAssumption DEF ScalingInit, ScalingTypeOK, ProgramStates, Unread, Speeds
<1>2. ScalingInit => PauseKnown /\ FollowsOrRises /\ StillWhileResuming
  <2>1. ScalingInit => packet.state = "STOPPED"
    BY DEF ScalingInit
  <2>2. ScalingInit => (~unshown => programState # "RESUMING")
    BY Zenon DEF ScalingInit
  <2> QED
    BY <2>1, <2>2 DEF PauseKnown, FollowsOrRises, StillWhileResuming
<1>3. ScalingInit => ScalingInv
  BY <1>1, <1>2 DEF ScalingInv
<1> QED
  BY <1>3, ScalingStep, PTL DEF ScalingSpec

\* The controllers stand still while the robot resumes, if a packet showed the
\* pause.
THEOREM StandsStill == ScalingSpec => []StillWhileResuming
<1>1. ScalingInv => StillWhileResuming
  BY DEF ScalingInv
<1> QED
  BY <1>1, ScalingAlways, PTL

\* After a pause the controllers get faster by at most one increment with each
\* packet, until they have been as fast as the robot, however its speed changes.
THEOREM Slowly == ScalingSpec => RisesSlowly
<1> DEFINE Risen ==
      packet'.state = "PLAYING" /\ ~unshown' =>
        \/ packet.state = "PLAYING"
           /\ (combined = packet.speed \/ combined' <= combined + Increment)
        \/ packet.state \in {"PAUSED", "RESUMING"} /\ combined' <= Increment
        \/ packet.state \in {"STOPPING", "STOPPED", "PAUSING"}
<1>1. ScalingInv /\ [ScalingNext]_scalingVars => [Risen]_<<packet, combined>>
  <2> SUFFICES ASSUME ScalingInv, ReadPacket PROVE Risen
    BY DEF ScalingNext, scalingVars, Proceed, ChangeSpeed
  <2> SUFFICES ASSUME packet'.state = "PLAYING", ~unshown'
               PROVE  \/ packet.state = "PLAYING"
                         /\ \/ combined = packet.speed
                            \/ combined' <= combined + Increment
                      \/ /\ packet.state \in {"PAUSED", "RESUMING"}
                         /\ combined' <= Increment
                      \/ packet.state \in {"STOPPING", "STOPPED", "PAUSING"}
    OBVIOUS
  <2>1. programState = "PLAYING" /\ ~unshown /\ combined' = Combined
    BY DEF ReadPacket
  <2>2. combined \in Nat /\ speed \in Nat /\ Increment \in Nat
    BY SpeedAssumption DEF ScalingInv, ScalingTypeOK, Speeds
  <2>3. packet.state \in ProgramStates
    BY DEF ScalingInv, ScalingTypeOK
  <2>4. ASSUME pausing \in {"PAUSED", "RAMPUP"}
        PROVE  Combined <= (IF pausing = "PAUSED" THEN 0 ELSE combined)
                             + Increment
    BY <2>1, <2>2, <2>4 DEF Combined, Pausing, Ramp, Least
  <2>5. CASE packet.state = "PLAYING"
    <3>1. CASE pausing = "RAMPUP"
      BY <2>1, <2>4, <2>5, <3>1
    <3>2. CASE pausing # "RAMPUP"
      BY <2>5, <3>2 DEF ScalingInv, FollowsOrRises
    <3> QED
      BY <3>1, <3>2
  <2>6. CASE packet.state \in {"PAUSED", "RESUMING"}
    <3>1. pausing = "PAUSED"
      BY <2>1, <2>6 DEF ScalingInv, PauseKnown
    <3> QED
      BY <2>1, <2>2, <2>4, <2>6, <3>1
  <2> QED
    BY <2>3, <2>5, <2>6 DEF ProgramStates
<1> QED
  BY <1>1, ScalingAlways, PTL DEF ScalingSpec, RisesSlowly
===============================================================================
