------------------------------- MODULE MCAngles -------------------------------
(***************************************************************************)
(* An instance of JointAngles for TLC: a turn is 8, the shoulder may make  *)
(* two of them, the elbow's limits leave room for less than one, and the   *)
(* finger has none.  One joint moves at a time.                            *)
(***************************************************************************)
EXTENDS JointAngles, SequencesExt, TLC

CONSTANTS shoulder, elbow, finger

SomeOwnLimits     == shoulder :> <<1, 0>> @@ elbow :> <<-3, 2>> @@
                     finger :> <<1, 0>>
SomeAliasLimits   == shoulder :> <<-8, 8>> @@ elbow :> <<-8, 8>> @@
                     finger :> <<1, 0>>
SomeDefaultLimits == shoulder :> <<-4, 4>> @@ elbow :> <<-4, 4>> @@
                     finger :> <<1, 0>>

Still == [j \in Joints |-> 0]

Moved(j, angles) == {[Still EXCEPT ![j] = a] : a \in angles}

SomeReadings ==
  Moved(shoulder, {-8, -1, 7, 9, 12, NotFinite}) \cup Moved(elbow, {-4, 2, 6})

SomePoints(j) ==
  Moved(j, {-12, -8, -7, -3, 0, 1, 4, 7, 8, 11, NotFinite})
    \cup {NoPositions, [NoPositions EXCEPT ![j] = 0]}

SomeTrajectories == UNION {BoundedSeq(SomePoints(j), 3) : j \in Joints}
=============================================================================
