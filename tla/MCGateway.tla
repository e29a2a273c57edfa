------------------------------- MODULE MCGateway -------------------------------
(***************************************************************************)
(* An instance of ForceGateway for TLC: the threshold is 1, the default.   *)
(***************************************************************************)
EXTENDS ForceGateway, TLC

\* Either sign, no force, less than the threshold and no number.
SomeReadings == {-2, 0, 2, NotFinite}

\* An explicit target, none, and a negative one.
SomeTargets == {-1, 0, 1}
=============================================================================
