------------------------------ MODULE OneAtATime ------------------------------
(***************************************************************************)
(* What the writing node promises its clients: requests are served one at  *)
(* a time, a request is turned away only because another one is served,    *)
(* and the arm and the paper change only on behalf of a request.           *)
(***************************************************************************)
CONSTANT Clients

VARIABLES
  phase,   (* "resting", "waiting" for the gate or "serving", per client.   *)
  page     (* The arm and what is written: any value.                       *)

vars == <<phase, page>>

Init == phase = [c \in Clients |-> "resting"]

Enter(c, from, to) ==
  /\ phase[c] = from
  /\ phase' = [phase EXCEPT ![c] = to]

Ask(c) == Enter(c, "resting", "waiting") /\ UNCHANGED page

\* Nobody is being served: the request is, starting on a fresh page.
Serve(c) ==
  /\ \A d \in Clients : phase[d] # "serving"
  /\ Enter(c, "waiting", "serving")

TurnAway(c) ==
  /\ \E d \in Clients : phase[d] = "serving"
  /\ Enter(c, "waiting", "resting")
  /\ UNCHANGED page

Write(c) ==
  /\ phase[c] = "serving"
  /\ UNCHANGED phase

Answer(c) == Enter(c, "serving", "resting") /\ UNCHANGED page

Next ==
  \E c \in Clients :
    Ask(c) \/ Serve(c) \/ TurnAway(c) \/ Write(c) \/ Answer(c)

Spec == Init /\ [][Next]_vars
=============================================================================
