----------------------------- MODULE GatewayProofs -----------------------------
(***************************************************************************)
(* Proofs about ForceGateway, for every set of readings and targets and    *)
(* every threshold.                                                        *)
(***************************************************************************)
EXTENDS ForceGateway, TLAPS

LEMMA NormalIsNat ==
  ASSUME NEW r \in Int \cup {NotFinite}
  PROVE  Normal(r) \in Nat
BY NotFiniteAssumption DEF Normal

LEMMA ClipIsNat ==
  ASSUME NEW n \in Int
  PROVE  Clip(n) \in Nat
BY DEF Clip

LEMMA ResolvedIsNat ==
  ASSUME NEW n \in Int, NEW m \in Nat
  PROVE  (IF n > 0 THEN n ELSE m) \in Nat
OBVIOUS

LEMMA ChosenIsText ==
  ASSUME NEW text \in Texts \cup {""}, NEW flag \in BOOLEAN
  PROVE  Chosen(text, flag) \in Texts
BY DEF Chosen, Texts

LEMMA ViewIsView ==
  ASSUME enabled \in BOOLEAN, target \in Nat, wrench \in Int \cup {NotFinite}
  PROVE  View \in Views
<1>1. ModeNumber \in Modes /\ StatusText \in Modes
  BY DEF ModeNumber, ModeOf, StatusText, Modes
<1>2. InContact \in BOOLEAN
  BY NormalIsNat, ThresholdAssumption DEF InContact
<1>3. QED
  BY <1>1, <1>2 DEF View, Views

\* The history is a record of the standard topics, and so it stays.
LEMMA UntoldIsRecord == Untold \in ToldRecords
BY DEF Untold, ToldRecords

LEMMA HeardIsRecord ==
  ASSUME TypeOK, NEW record \in ToldRecords, Heard(record)
  PROVE  told' \in ToldRecords /\ standard' \in BOOLEAN
BY DEF TypeOK, Heard

LEMMA CustomIsRecord ==
  ASSUME Custom
  PROVE  told' \in ToldRecords /\ standard' \in BOOLEAN
BY UntoldIsRecord DEF Custom

\* Every setting keeps to its type: in particular the target is a natural
\* number whatever the command, its sign or its wrench.
THEOREM TypeCorrect == Spec => []TypeOK
<1>1. Init => TypeOK
  <2> SUFFICES ASSUME Init
               PROVE  TypeOK
    OBVIOUS
  <2>1. /\ enabled \in BOOLEAN /\ compliance \in BOOLEAN
        /\ standard \in BOOLEAN /\ overruled \in BOOLEAN
    BY Zenon DEF Init
  <2>2. target \in Nat /\ wrench \in Int /\ mode \in Texts
    BY DEF Init, Texts
  <2>3. state \in Views
    BY <2>1, <2>2, ViewIsView DEF Init
  <2>4. told \in ToldRecords
    BY UntoldIsRecord DEF Init
  <2>5. QED
    BY <2>1, <2>2, <2>3, <2>4 DEF TypeOK
<1>2. TypeOK /\ [Next]_vars => TypeOK'
  <2> SUFFICES ASSUME TypeOK, [Next]_vars
               PROVE  TypeOK'
    OBVIOUS
  <2> USE DEF TypeOK
  <2>1. ASSUME NEW t \in Targets, NEW r \in Readings, NEW e \in BOOLEAN,
               NEW x \in Texts \cup {""}, Command(t, r, e, x)
        PROVE  TypeOK'
    <3>1. t \in Int /\ Normal(r) \in Nat
      BY NormalIsNat, TargetsAssumption, ReadingsAssumption
    <3>2. target' = IF t > 0 THEN t ELSE Normal(r)
      BY <2>1 DEF Command
    <3>3. target' \in Nat
      BY <3>1, <3>2, ResolvedIsNat, Zenon
    <3>4. QED
      BY <2>1, <3>3, ChosenIsText, CustomIsRecord DEF Command, Overrules
  <2>2. ASSUME NEW t \in Targets, NEW e \in BOOLEAN, NEW x \in Texts \cup {""},
               SetForce(t, e, x)
        PROVE  TypeOK'
    <3>1. target' \in Nat
      BY <2>2, ClipIsNat, TargetsAssumption DEF SetForce
    <3>2. QED
      BY <2>2, <3>1, ChosenIsText, CustomIsRecord DEF SetForce, Overrules
  <2>3. ASSUME NEW e \in BOOLEAN, SetCompliance(e)
        PROVE  TypeOK'
    <3>1. mode' \in Texts
      BY <2>3, ChosenIsText DEF SetCompliance, Texts, ComplianceTexts
    <3>2. QED
      BY <2>3, <3>1, CustomIsRecord DEF SetCompliance
  <2>4. ASSUME NEW r \in Readings, BridgeWrenchCommand(r)
        PROVE  TypeOK'
    <3>1. r \in Int \cup {NotFinite} /\ Normal(r) \in Nat
      BY NormalIsNat, ReadingsAssumption
    <3>2. [told EXCEPT !.desired = r, !.byWrench = TRUE] \in ToldRecords
      BY <3>1 DEF ToldRecords
    <3>3. QED
      BY <2>4, <3>1, <3>2, HeardIsRecord DEF BridgeWrenchCommand
  <2>5. ASSUME NEW t \in Targets, BridgeTarget(t)
        PROVE  TypeOK'
    <3>1. t \in Int /\ Clip(t) \in Nat
      BY ClipIsNat, TargetsAssumption
    <3>2. [told EXCEPT !.target = t, !.byWrench = FALSE] \in ToldRecords
      BY <3>1 DEF ToldRecords
    <3>3. QED
      BY <2>5, <3>1, <3>2, HeardIsRecord DEF BridgeTarget
  <2>6. ASSUME NEW e \in BOOLEAN, BridgeEnable(e)
        PROVE  TypeOK'
    <3>1. mode' \in Texts
      BY <2>6 DEF BridgeEnable, Texts
    <3>2. [told EXCEPT !.enable = e, !.standing = @ /\ e] \in ToldRecords
      BY DEF ToldRecords
    <3>3. QED
      BY <2>6, <3>1, <3>2, HeardIsRecord DEF BridgeEnable, Overrules
  <2>7. ASSUME NEW x \in Texts \cup {""}, BridgeMode(x)
        PROVE  TypeOK'
    <3>1. [told EXCEPT !.text = x, !.standing = TRUE] \in ToldRecords
      BY DEF ToldRecords
    <3>2. QED
      BY <2>7, <3>1, ChosenIsText, HeardIsRecord DEF BridgeMode, Overrules
  <2>8. ASSUME NEW r \in Readings, Measure(r)
        PROVE  TypeOK'
    <3>1. r \in Int \cup {NotFinite}
      BY ReadingsAssumption
    <3>2. [told EXCEPT !.wrench = r] \in ToldRecords
      BY <3>1 DEF ToldRecords
    <3>3. QED
      BY <2>8, <3>1, <3>2, HeardIsRecord DEF Measure
  <2>9. CASE Publish
    BY <2>9, ViewIsView DEF Publish, settings, history
  <2>10. CASE UNCHANGED vars
    BY <2>10 DEF vars, settings, history
  <2>11. QED
    BY <2>1, <2>2, <2>3, <2>4, <2>5, <2>6, <2>7, <2>8, <2>9, <2>10 DEF Next
<1>3. QED
  BY <1>1, <1>2, PTL DEF Spec

(***************************************************************************)
(* The status text and the mode number.  As long as nothing overruled      *)
(* set_compliance, its flag stands for an enabled gateway with its own     *)
(* text, and without the flag no other text names compliance.              *)
(***************************************************************************)

Ruled ==
  ~overruled => IF compliance THEN enabled /\ mode = "compliance"
                              ELSE mode \notin ComplianceTexts

LEMMA RuledInvariant == Spec => []Ruled
<1>1. Init => Ruled
  BY DEF Init, Ruled, ComplianceTexts
<1>2. TypeOK /\ Ruled /\ [Next]_vars => Ruled'
  <2> SUFFICES ASSUME TypeOK, Ruled, [Next]_vars
               PROVE  Ruled'
    OBVIOUS
  <2> USE DEF TypeOK, Ruled, ComplianceTexts, Chosen
  <2>1. ASSUME NEW t \in Targets, NEW r \in Readings, NEW e \in BOOLEAN,
               NEW x \in Texts \cup {""}, Command(t, r, e, x)
        PROVE  Ruled'
    BY <2>1, Zenon DEF Command, Overrules
  <2>2. ASSUME NEW t \in Targets, NEW e \in BOOLEAN, NEW x \in Texts \cup {""},
               SetForce(t, e, x)
        PROVE  Ruled'
    BY <2>2, Zenon DEF SetForce, Overrules
  <2>3. ASSUME NEW e \in BOOLEAN, SetCompliance(e)
        PROVE  Ruled'
    BY <2>3 DEF SetCompliance
  <2>4. ASSUME NEW r \in Readings, BridgeWrenchCommand(r)
        PROVE  Ruled'
    BY <2>4 DEF BridgeWrenchCommand
  <2>5. ASSUME NEW t \in Targets, BridgeTarget(t)
        PROVE  Ruled'
    BY <2>5 DEF BridgeTarget
  <2>6. ASSUME NEW e \in BOOLEAN, BridgeEnable(e)
        PROVE  Ruled'
    BY <2>6 DEF BridgeEnable, Overrules
  <2>7. ASSUME NEW x \in Texts \cup {""}, BridgeMode(x)
        PROVE  Ruled'
    BY <2>7, Zenon DEF BridgeMode, Overrules
  <2>8. ASSUME NEW r \in Readings, Measure(r)
        PROVE  Ruled'
    BY <2>8 DEF Measure
  <2>9. CASE Publish \/ UNCHANGED vars
    BY <2>9 DEF Publish, vars, settings, history
  <2>10. QED
    BY <2>1, <2>2, <2>3, <2>4, <2>5, <2>6, <2>7, <2>8, <2>9 DEF Next
<1>3. QED
  BY <1>1, <1>2, TypeCorrect, PTL DEF Spec

\* Flag, mode number and status text of a publication agree, unless a force
\* command or a mode overruled set_compliance.
THEOREM StatusAgreement == Spec => []StatusAgrees
<1>1. TypeOK /\ Ruled => StatusAgrees
  <2> SUFFICES ASSUME TypeOK, Ruled
               PROVE  StatusAgrees
    OBVIOUS
  <2>1. enabled <=> ModeNumber # "DISABLED"
    BY DEF ModeNumber, ModeOf, TypeOK
  <2>2. enabled <=> StatusText # "DISABLED"
    BY DEF StatusText, TypeOK
  <2>3. ~overruled => StatusText = ModeNumber
    BY DEF Ruled, StatusText, ModeNumber, ModeOf, ComplianceTexts, TypeOK
  <2>4. QED
    BY <2>1, <2>2, <2>3 DEF StatusAgrees, View
<1>2. QED
  BY <1>1, RuledInvariant, TypeCorrect, PTL

(***************************************************************************)
(* The standard topics.  Used alone they never meet an active compliance,  *)
(* and what the text will mean once the gateway is enabled is known while  *)
(* it is disabled, too.                                                    *)
(***************************************************************************)

Promised == IF told.standing THEN ModeOf(told.text) ELSE "FORCE"

AskedFor ==
  IF told.byWrench THEN Normal(told.desired) ELSE Clip(told.target)

Followed ==
  standard =>
    /\ ~compliance
    /\ enabled = told.enable
    /\ ModeOf(mode) = Promised
    /\ target = AskedFor
    /\ wrench = told.wrench

\* The texts that an enable flag sets by itself all mean force, and so does the
\* empty one.
LEMMA ChosenMeans ==
  ASSUME NEW text \in Texts \cup {""}, NEW flag \in BOOLEAN
  PROVE  ModeOf(Chosen(text, flag)) = ModeOf(text)
BY DEF ModeOf, Chosen, Texts, ComplianceTexts

LEMMA PlainMeansForce == ModeOf("force") = "FORCE" /\ ModeOf("disabled") = "FORCE"
BY DEF ModeOf, ComplianceTexts

LEMMA FollowedInvariant == Spec => []Followed
<1>1. Init => Followed
  <2> SUFFICES ASSUME Init
               PROVE  Followed
    OBVIOUS
  <2>1. /\ told.enable = FALSE /\ told.target = 0 /\ told.wrench = 0
        /\ told.standing = FALSE /\ told.byWrench = FALSE
    BY DEF Init, Untold
  <2>2. Clip(0) = 0
    BY DEF Clip
  <2>3. QED
    BY <2>1, <2>2, PlainMeansForce, Zenon DEF Init, Followed, Promised, AskedFor
<1>2. TypeOK /\ Followed /\ [Next]_vars => Followed'
  <2> SUFFICES ASSUME TypeOK, Followed, [Next]_vars, standard'
               PROVE  Followed'
    BY DEF Followed
  <2> USE DEF TypeOK, ToldRecords, Followed, Promised, AskedFor, Heard
  <2>1. CASE \/ \E t \in Targets, r \in Readings, e \in BOOLEAN,
                   x \in Texts \cup {""} : Command(t, r, e, x)
             \/ \E t \in Targets, e \in BOOLEAN, x \in Texts \cup {""} :
                  SetForce(t, e, x)
             \/ \E e \in BOOLEAN : SetCompliance(e)
    BY <2>1 DEF Command, SetForce, SetCompliance, Custom
  <2>2. ASSUME NEW r \in Readings, BridgeWrenchCommand(r)
        PROVE  Followed'
    BY <2>2 DEF BridgeWrenchCommand
  <2>3. ASSUME NEW t \in Targets, BridgeTarget(t)
        PROVE  Followed'
    BY <2>3 DEF BridgeTarget
  <2>4. ASSUME NEW e \in BOOLEAN, BridgeEnable(e)
        PROVE  Followed'
    <3>1. /\ told' = [told EXCEPT !.enable = e, !.standing = @ /\ e]
          /\ standard /\ enabled' = e
          /\ UNCHANGED <<compliance, target, wrench>>
      BY <2>4 DEF BridgeEnable
    <3>2. ModeOf(mode') = IF e THEN ModeOf(mode) ELSE "FORCE"
      BY <2>4, PlainMeansForce DEF BridgeEnable
    <3>3. QED
      BY <3>1, <3>2
  <2>5. ASSUME NEW x \in Texts \cup {""}, BridgeMode(x)
        PROVE  Followed'
    <3>1. /\ told' = [told EXCEPT !.text = x, !.standing = TRUE]
          /\ standard
          /\ UNCHANGED <<enabled, compliance, target, wrench>>
      BY <2>5 DEF BridgeMode
    <3>2. ModeOf(mode') = ModeOf(x)
      BY <2>5, ChosenMeans DEF BridgeMode
    <3>3. QED
      BY <3>1, <3>2
  <2>6. ASSUME NEW r \in Readings, Measure(r)
        PROVE  Followed'
    BY <2>6 DEF Measure
  <2>7. CASE Publish \/ UNCHANGED vars
    BY <2>7 DEF Publish, vars, settings, history
  <2>8. QED
    BY <2>1, <2>2, <2>3, <2>4, <2>5, <2>6, <2>7 DEF Next
<1>3. QED
  BY <1>1, <1>2, TypeCorrect, PTL DEF Spec

\* What is published to a client of the five standard topics follows from the
\* last message of each of them and from which was the later one of mode and
\* stop, and of target and wrench command; no other order matters.
THEOREM LastMessagesCount == Spec => []FollowsLastMessages
<1>1. TypeOK /\ Followed => FollowsLastMessages
  <2> SUFFICES ASSUME TypeOK, Followed, standard
               PROVE  View = [enabled |-> told.enable,
                              mode    |-> PromisedMode,
                              status  |-> IF PromisedMode = "COMPLIANCE"
                                          THEN "FORCE" ELSE PromisedMode,
                              target  |-> AskedFor,
                              contact |-> Normal(told.wrench) >= Threshold]
    BY DEF FollowsLastMessages, AskedFor
  <2>1. ModeNumber = PromisedMode
    BY DEF Followed, Promised, ModeNumber, PromisedMode
  <2>2. PromisedMode \in Modes /\ (enabled <=> PromisedMode # "DISABLED")
    BY <2>1 DEF ModeNumber, ModeOf, Modes, TypeOK
  <2>3. StatusText = IF PromisedMode = "COMPLIANCE" THEN "FORCE"
                     ELSE PromisedMode
    BY <2>1, <2>2 DEF Followed, StatusText, Modes, TypeOK
  <2>4. QED
    BY <2>1, <2>3, Zenon DEF View, Followed, InContact
<1>2. QED
  BY <1>1, FollowedInvariant, TypeCorrect, PTL
=============================================================================
