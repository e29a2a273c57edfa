----------------------------- MODULE ForceGateway -----------------------------
(***************************************************************************)
(* The ROS 2 force gateway (force_control_gateway.py): commands, services  *)
(* and the standard topics of the bridge change one record of settings; a  *)
(* timer publishes what follows from it.                                   *)
(*                                                                         *)
(* rclpy.spin runs every callback on one thread, so each is one action.    *)
(* Subscriptions have queues of their own: messages of two topics are      *)
(* handled in any order, and an overrun queue loses some.                  *)
(*                                                                         *)
(* A force is a whole number of some unit, or NotFinite; a wrench is its   *)
(* component along force_axis.  Left out: the settings that are handed on  *)
(* unread (tolerance, velocity, stiffness, source, pen pose, headers).     *)
(***************************************************************************)
EXTENDS Integers

CONSTANTS
  Readings,     (* What a component of a wrench can be.                     *)
  Targets,      (* What target_normal_force and /vla/force_target can be.   *)
  NotFinite,    (* A reading that is infinite or not a number.              *)
  Threshold     (* contact_threshold.                                       *)

ASSUME ReadingsAssumption == Readings \subseteq Int \cup {NotFinite}
ASSUME TargetsAssumption == Targets \subseteq Int
ASSUME NotFiniteAssumption == NotFinite \notin Int
ASSUME ThresholdAssumption == Threshold \in Nat

\* Texts of controller_mode by what the code tells apart: "impedance" stands for
\* every name of compliance but the exact one, "force" for every text it does
\* not know.  An empty text lets the gateway choose.
ComplianceTexts == {"compliance", "impedance"}
Texts == {"disabled", "force", "monitor"} \cup ComplianceTexts

VARIABLES
  enabled,      (* _enabled.                                                *)
  mode,         (* _controller_mode.                                        *)
  compliance,   (* _compliance_active.                                      *)
  target,       (* _target_normal_force.                                    *)
  wrench,       (* _measured_wrench.                                        *)
  state,        (* What was published last on all topics.                   *)
  standard,     (* History: only the standard topics have been used.        *)
  told,         (* History: what each of them said last, and of two that    *)
                (* overwrite each other which was the later one, as long as *)
                (* only they are used.                                      *)
  overruled     (* History: a force command, or a mode, has come over an    *)
                (* active compliance, or names compliance by itself.        *)

settings == <<enabled, mode, compliance, target, wrench>>
history  == <<standard, told, overruled>>
vars     == <<settings, state, history>>

Clip(n) == IF n > 0 THEN n ELSE 0

\* Mistake to be caught: the sign of the sensor's mounting is kept.
NormalSigned(r) == IF r = NotFinite THEN 0 ELSE r

\* _normal_from_wrench.
Normal(r) == IF r = NotFinite THEN 0 ELSE IF r < 0 THEN -r ELSE r

InContact == Normal(wrench) >= Threshold

\* _mode_number, of an enabled gateway and of any.
ModeOf(text) ==
  IF text \in ComplianceTexts THEN "COMPLIANCE"
  ELSE IF text = "monitor" THEN "MONITOR"
  ELSE "FORCE"

ModeNumber == IF enabled THEN ModeOf(mode) ELSE "DISABLED"

\* _status_text, without its suffix that tells the contact.
StatusText ==
  IF ~enabled THEN "DISABLED"
  ELSE IF compliance THEN "COMPLIANCE"
  ELSE IF ModeNumber = "MONITOR" THEN "MONITOR"
  ELSE "FORCE"

Modes == {"DISABLED", "FORCE", "COMPLIANCE", "MONITOR"}

\* What _publish_state would send now.
View == [enabled |-> enabled, mode |-> ModeNumber, status |-> StatusText,
         target |-> target, contact |-> InContact]

Views == [enabled : BOOLEAN, mode : Modes, status : Modes, target : Nat,
          contact : BOOLEAN]

\* The last message of each topic; standing: the text came after the last stop;
\* byWrench: the wrench command came after the last target.
ToldRecords ==
  [enable : BOOLEAN, text : Texts \cup {""}, standing : BOOLEAN,
   target : Int, desired : Int \cup {NotFinite}, byWrench : BOOLEAN,
   wrench : Int \cup {NotFinite}]

Untold ==
  [enable |-> FALSE, text |-> "", standing |-> FALSE,
   target |-> 0, desired |-> 0, byWrench |-> FALSE, wrench |-> 0]

TypeOK ==
  /\ {enabled, compliance, standard, overruled} \subseteq BOOLEAN
  /\ mode \in Texts
  /\ target \in Nat
  /\ wrench \in Int \cup {NotFinite}
  /\ state \in Views
  /\ told \in ToldRecords

Init ==
  /\ enabled = FALSE
  /\ mode = "disabled"
  /\ compliance = FALSE
  /\ target = 0
  /\ wrench = 0
  /\ state = View
  /\ standard = TRUE
  /\ told = Untold
  /\ overruled = FALSE

\* History of a message that may set the mode to text.
Overrules(text) ==
  overruled' = (overruled \/ compliance \/ text \in ComplianceTexts)

\* History of a standard message, and of any other command.
Heard(record) ==
  /\ told' = IF standard THEN record ELSE told
  /\ UNCHANGED standard

Custom == standard' = FALSE /\ told' = Untold

\* An empty text stands for the mode that goes with the flag.
Chosen(text, flag) ==
  IF text # "" THEN text ELSE IF flag THEN "force" ELSE "disabled"

(***************************************************************************)
(* Force commands.                                                         *)
(***************************************************************************)

\* _on_command: a positive explicit target counts, or else the wrench.
Command(explicit, desired, enable, text) ==
  /\ target' = IF explicit > 0 THEN explicit ELSE Normal(desired)
  /\ enabled' = enable
  /\ mode' = Chosen(text, enable)
  /\ Overrules(text)
  /\ Custom
  /\ UNCHANGED <<compliance, wrench, state>>

\* _on_set_force.
SetForce(explicit, enable, text) ==
  /\ enabled' = enable
  /\ target' = Clip(explicit)
  /\ mode' = Chosen(text, enable)
  /\ Overrules(text)
  /\ Custom
  /\ UNCHANGED <<compliance, wrench, state>>

\* Mistakes to be caught: compliance is not entered while the gateway is
\* disabled, and is left without a new mode.
SetComplianceLater(enable) ==
  /\ compliance' = enable
  /\ mode' = IF enable /\ enabled THEN "compliance" ELSE mode
  /\ overruled' = (overruled /\ ~enable)
  /\ Custom
  /\ UNCHANGED <<enabled, target, wrench, state>>

\* _on_set_compliance.
SetCompliance(enable) ==
  /\ compliance' = enable
  /\ enabled' = (enabled \/ enable)
  /\ mode' = IF enable THEN "compliance"
             ELSE IF mode = "compliance" THEN Chosen("", enabled)
             ELSE mode
  /\ overruled' = (overruled /\ ~enable)
  /\ Custom
  /\ UNCHANGED <<target, wrench, state>>

(***************************************************************************)
(* The standard topics of the bridge.                                      *)
(***************************************************************************)

\* _on_bridge_wrench_command.
BridgeWrenchCommand(desired) ==
  /\ target' = Normal(desired)
  /\ Heard([told EXCEPT !.desired = desired, !.byWrench = TRUE])
  /\ UNCHANGED <<enabled, mode, compliance, wrench, state, overruled>>

\* _on_bridge_target.
BridgeTarget(explicit) ==
  /\ target' = Clip(explicit)
  /\ Heard([told EXCEPT !.target = explicit, !.byWrench = FALSE])
  /\ UNCHANGED <<enabled, mode, compliance, wrench, state, overruled>>

\* Mistake to be caught: a start withdraws the mode that came before it.
BridgeEnableForcing(enable) ==
  /\ enabled' = enable
  /\ mode' = Chosen("", enable)
  /\ Heard([told EXCEPT !.enable = enable, !.standing = @ /\ enable])
  /\ Overrules("")
  /\ UNCHANGED <<compliance, target, wrench, state>>

\* _on_bridge_enable.
BridgeEnable(enable) ==
  /\ enabled' = enable
  /\ mode' = IF ~enable THEN "disabled"
             ELSE IF mode = "disabled" THEN "force"
             ELSE mode
  /\ Heard([told EXCEPT !.enable = enable, !.standing = @ /\ enable])
  /\ Overrules("")
  /\ UNCHANGED <<compliance, target, wrench, state>>

\* _on_bridge_mode.
BridgeMode(text) ==
  /\ mode' = Chosen(text, enabled)
  /\ Heard([told EXCEPT !.text = text, !.standing = TRUE])
  /\ Overrules(text)
  /\ UNCHANGED <<enabled, compliance, target, wrench, state>>

(***************************************************************************)
(* Measurements and the timer.                                             *)
(***************************************************************************)

\* _on_measured_wrench.
Measure(reading) ==
  /\ wrench' = reading
  /\ Heard([told EXCEPT !.wrench = reading])
  /\ UNCHANGED <<enabled, mode, compliance, target, state, overruled>>

\* _publish_state.
Publish ==
  /\ state' = View
  /\ UNCHANGED <<settings, history>>

Next ==
  \/ \E t \in Targets, r \in Readings, e \in BOOLEAN, x \in Texts \cup {""} :
       Command(t, r, e, x)
  \/ \E t \in Targets, e \in BOOLEAN, x \in Texts \cup {""} : SetForce(t, e, x)
  \/ \E e \in BOOLEAN : SetCompliance(e)
  \/ \E r \in Readings : BridgeWrenchCommand(r)
  \/ \E t \in Targets : BridgeTarget(t)
  \/ \E e \in BOOLEAN : BridgeEnable(e)
  \/ \E x \in Texts \cup {""} : BridgeMode(x)
  \/ \E r \in Readings : Measure(r)
  \/ Publish

Spec == Init /\ [][Next]_vars

(***************************************************************************)
(* Properties.                                                             *)
(***************************************************************************)

\* The flag, the mode number and the status text that go out in one
\* publication never contradict each other - unless a force command or a
\* mode has overruled set_compliance, which keeps its own flag.
StatusAgrees ==
  /\ View.enabled <=> View.mode # "DISABLED"
  /\ View.enabled <=> View.status # "DISABLED"
  /\ ~overruled => View.status = View.mode

\* What a client of the standard topics alone is promised from their last
\* messages: the mode word, once started, if no stop came after it.
PromisedMode ==
  IF ~told.enable THEN "DISABLED"
  ELSE IF told.standing THEN ModeOf(told.text)
  ELSE "FORCE"

\* A client of the standard topics alone gets what the last message of each
\* topic says.  The order in which they were handled matters for two pairs
\* only: a stop withdraws the mode before it, but not the one after it, and of
\* target and wrench command the later counts.  A start neither sets nor
\* withdraws a mode, whenever it comes, and a mode sent before the start is
\* the mode after it.  The status never speaks of compliance: for these clients
\* it stays FORCE.
FollowsLastMessages ==
  standard =>
    View = [enabled |-> told.enable,
            mode    |-> PromisedMode,
            status  |-> IF PromisedMode = "COMPLIANCE" THEN "FORCE"
                        ELSE PromisedMode,
            target  |-> IF told.byWrench THEN Normal(told.desired)
                        ELSE Clip(told.target),
            contact |-> Normal(told.wrench) >= Threshold]
=============================================================================
