------------------------------- MODULE MCWriting -------------------------------
(***************************************************************************)
(* Instances of WritingService for TLC.  A stroke of a request has a few   *)
(* points instead of hundreds, so the 98 percent of writing.yaml become a  *)
(* percentage at which a truncated trajectory can still be accepted.       *)
(***************************************************************************)
EXTENDS WritingService, TLC

CONSTANTS c1, c2, line, dot

TwoClients == {c1, c2}
AllStrokes == {line, dot}

\* A stroke of three points, and a degenerate one.
StrokePoints == line :> 3 @@ dot :> 1

\* One stroke, two strokes, and a degenerate stroke after a drawable one.
Texts == {<<line>>, <<line, line>>, <<line, dot>>}

ClientSymmetry == Permutations(TwoClients)
=============================================================================
