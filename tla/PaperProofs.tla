----------------------------- MODULE PaperProofs -----------------------------
(***************************************************************************)
(* Theorems about what is to be seen of the writing: about PaperView, for  *)
(* queues of any size and any number of samples and strokes, and about     *)
(* InkPlugin, for any sheet and any number of strokes, lines and points.   *)
(***************************************************************************)
EXTENDS PaperView, InkPlugin, TLAPS

(***************************************************************************)
(* Queues.                                                                 *)
(***************************************************************************)

LEMMA TailOf ==
  ASSUME NEW S, NEW q \in Seq(S), q # <<>>
  PROVE  /\ Tail(q) \in Seq(S) /\ Len(Tail(q)) = Len(q) - 1
         /\ \A i \in 1..Len(q) - 1 : Tail(q)[i] = q[i + 1]
         /\ Head(q) = q[1] /\ q[1] \in S /\ Len(q) \in Nat \ {0}
OBVIOUS

\* How many messages leave a queue when one joins it.
Dropped(q) == IF Len(q) = QueueSize THEN 1 ELSE 0

\* A message joins the queue at its end; at most the first one leaves.
LEMMA QueuedIs ==
  ASSUME NEW S, NEW q \in Seq(S), Len(q) <= QueueSize, NEW m \in S
  PROVE  /\ Queued(q, m) \in Seq(S)
         /\ Len(Queued(q, m)) <= QueueSize
         /\ Len(Queued(q, m)) = Len(q) + 1 - Dropped(q)
         /\ Queued(q, m)[Len(q) + 1 - Dropped(q)] = m
         /\ \A i \in 1..Len(q) - Dropped(q) :
              Queued(q, m)[i] = q[i + Dropped(q)]
<1>1. QueueSize \in Nat \ {0} /\ Len(q) \in Nat
  BY QueueAssumption
<1>2. CASE Len(q) = QueueSize
  <2>1. q # <<>>
    BY <1>1, <1>2
  <2> DEFINE t == Tail(q)
  <2>2. /\ t \in Seq(S) /\ Len(t) = Len(q) - 1
        /\ \A i \in 1..Len(q) - 1 : t[i] = q[i + 1]
    BY <2>1, TailOf
  <2>3. Queued(q, m) = Append(t, m)
    BY <1>2 DEF Queued
  <2> HIDE DEF t
  <2>4. /\ Append(t, m) \in Seq(S) /\ Len(Append(t, m)) = Len(q)
        /\ Append(t, m)[Len(q)] = m
        /\ \A i \in 1..Len(q) - 1 : Append(t, m)[i] = t[i]
    BY <1>1, <2>2
  <2> QED
    BY <1>1, <1>2, <2>2, <2>3, <2>4 DEF Dropped
<1>3. CASE Len(q) # QueueSize
  <2>1. Queued(q, m) = Append(q, m)
    BY <1>3 DEF Queued
  <2>2. /\ Append(q, m) \in Seq(S) /\ Len(Append(q, m)) = Len(q) + 1
        /\ Append(q, m)[Len(q) + 1] = m
        /\ \A i \in 1..Len(q) : Append(q, m)[i] = q[i]
    OBVIOUS
  <2> QED
    BY <1>1, <1>3, <2>1, <2>2 DEF Dropped
<1> QED
  BY <1>2, <1>3

(***************************************************************************)
(* Type correctness.                                                       *)
(***************************************************************************)

LEMMA TypeInit == Init => TypeOK
<1> SUFFICES ASSUME Init PROVE TypeOK
  OBVIOUS
<1>1. /\ <<>> \in Seq(Pose) /\ <<>> \in Seq(Contact) /\ <<>> \in Seq(Nat)
      /\ Len(<<>>) <= QueueSize
  BY QueueAssumption
<1>2. run \in [pose : Pose, poses : Nat, inked : BOOLEAN]
  BY DEF Init, Pose, Places
<1> QED
  BY <1>1, <1>2 DEF Init, TypeOK, Places, Off, Nowhere

LEMMA TypeStep == TypeOK /\ [Next]_vars => TypeOK'
<1> SUFFICES ASSUME TypeOK, [Next]_vars PROVE TypeOK'
  OBVIOUS
<1> USE DEF TypeOK, world, monitor, topics, view, drawing, sampled, lag
<1>1. CASE Lift \/ Fly
  <2>1. pen' \in Places /\ airSample' \in Nat
    BY <1>1 DEF Lift, Fly, Places, Air, Off
  <2> QED
    BY <1>1, <2>1 DEF Lift, Fly
<1>2. CASE Land
  <2>1. gaps' \in Seq(Nat) /\ strokes' \in Nat /\ pen' \in Places
    BY <1>2 DEF Land, Places
  <2>2. seen' \in BOOLEAN
    BY <1>2 DEF Land
  <2> QED
    BY <1>2, <2>1, <2>2 DEF Land
<1>3. CASE Look
  <2>1. [sample |-> sample', place |-> pen] \in Pose /\ sample' \in Nat
    BY <1>3 DEF Look, Pose
  <2>2. poses' \in Seq(Pose) /\ Len(poses') <= QueueSize
    BY <1>3, <2>1, QueuedIs DEF Look
  <2>3. due' \in {<<TRUE>>, <<FALSE>>}
    <3>1. due' = <<pen > 0>> /\ (pen > 0) \in BOOLEAN
      BY <1>3 DEF Look
    <3> DEFINE down == pen > 0
    <3> HIDE DEF down
    <3>2. down = TRUE \/ down = FALSE
      BY <3>1, Zenon DEF down
    <3> QED
      BY <3>1, <3>2, Zenon DEF down
  <2>4. airSample' \in Nat
    BY <1>3, <2>1 DEF Look
  <2> QED
    BY <1>3, <2>1, <2>2, <2>3, <2>4 DEF Look
<1>4. CASE LookFails
  BY <1>4 DEF LookFails
<1>5. CASE Tell
  <2>1. due[1] \in BOOLEAN
    <3>1. <<TRUE>>[1] = TRUE /\ <<FALSE>>[1] = FALSE
      OBVIOUS
    <3>2. due \in {<<TRUE>>, <<FALSE>>}
      BY <1>5, Zenon DEF Tell
    <3> QED
      BY <3>1, <3>2, Zenon
  <2>2. [sample |-> sample, value |-> due[1]] \in Contact
    BY <2>1 DEF Contact
  <2>3. contacts' \in Seq(Contact) /\ Len(contacts') <= QueueSize
    BY <1>5, <2>2, QueuedIs DEF Tell
  <2>4. timely' \in BOOLEAN
    BY <1>5 DEF Tell
  <2> QED
    BY <1>5, <2>3, <2>4 DEF Tell
<1>6. ASSUME NEW b \in BOOLEAN, GatewayTells(b) PROVE TypeOK'
  <2>1. [sample |-> 0, value |-> b] \in Contact
    BY DEF Contact
  <2>2. contacts' \in Seq(Contact) /\ Len(contacts') <= QueueSize
    BY <1>6, <2>1, QueuedIs DEF GatewayTells
  <2>3. timely' \in BOOLEAN /\ others' \in Nat
    BY <1>6 DEF GatewayTells
  <2> QED
    BY <1>6, <2>2, <2>3 DEF GatewayTells
<1>7. CASE ContactCallback
  <2>1. /\ contacts' \in Seq(Contact) /\ Len(contacts') = Len(contacts) - 1
        /\ Head(contacts) \in Contact /\ Len(contacts) \in Nat
    BY <1>7, TailOf DEF ContactCallback
  <2>2. /\ contact' \in BOOLEAN /\ previous' \in Nat \cup {Nowhere}
        /\ told' \in Nat /\ Len(contacts') <= QueueSize
    BY <1>7, <2>1, QueueAssumption DEF ContactCallback, Contact
  <2> QED
    BY <1>7, <2>1, <2>2 DEF ContactCallback
<1>8. CASE PoseCallback
  <2> DEFINE pose == Head(poses)
  <2>1. /\ poses' \in Seq(Pose) /\ Len(poses') = Len(poses) - 1
        /\ pose \in Pose /\ Len(poses) \in Nat
    BY <1>8, TailOf DEF PoseCallback
  <2>2. Len(poses') <= QueueSize
    BY <2>1, QueueAssumption
  <2>3. previous' \in Nat \cup {Nowhere}
    BY <1>8, <2>1 DEF PoseCallback, PreviousAfter, Pose, Places, Air, Nowhere
  <2>4. joined' \in BOOLEAN /\ timely' \in BOOLEAN
    BY <1>8 DEF PoseCallback
  <2>5. RunWith(pose) \in [pose : Pose, poses : Nat, inked : BOOLEAN]
    BY <2>1 DEF RunWith
  <2>6. run' \in [pose : Pose, poses : Nat, inked : BOOLEAN]
    <3>1. run' = RunWith(pose) \/ run' = run
      BY <1>8 DEF PoseCallback
    <3> QED
      BY <2>5, <3>1
  <2> QED
    BY <1>8, <2>1, <2>2, <2>3, <2>4, <2>6 DEF PoseCallback
<1>9. CASE UNCHANGED vars
  BY <1>9 DEF vars
<1> QED
  BY <1>1, <1>2, <1>3, <1>4, <1>5, <1>6, <1>7, <1>8, <1>9 DEF Next

\* The pen, the monitor and the callbacks keep every variable to its type; in
\* particular a topic never holds more than its queue.
THEOREM TypeCorrect == Spec => []TypeOK
BY TypeInit, TypeStep, PTL DEF Spec

(***************************************************************************)
(* The strokes on the paper.  A sample is told once its contact is         *)
(* published, and the numbers of samples order what happened: a stroke     *)
(* begins after the last sample of the air before it, its gap.             *)
(***************************************************************************)

\* A contact is due; it reports that the pen writes.
IsDue    == due # <<>>
IsInkDue == due = <<TRUE>>

\* The last sample whose contact was published.
Published == IF IsDue THEN sample - 1 ELSE sample

\* What the pen did: a sample of the air is no sample of a stroke.
Pen ==
  /\ Len(gaps) = strokes
  /\ pen > 0 => pen = strokes /\ airSample = 0
  /\ airSample <= sample
  /\ \A n \in 1..strokes : gaps[n] <= sample
  /\ IsDue => sample > 0
  /\ IsInkDue =>
       airSample # sample /\ \A n \in 1..strokes : gaps[n] # sample

\* The contacts on their way: as long as they are timely, they are those after
\* the last one told, all of them, in their order.
Complete ==
  \A k \in told + 1..Published :
    \E i \in 1..Len(contacts) : contacts[i].sample = k

Ordered ==
  \A i \in 1..Len(contacts) :
    contacts[i].sample # 0 =>
      /\ told < contacts[i].sample
      /\ \A j \in 1..i - 1 : contacts[j].sample < contacts[i].sample

OfStrokes ==
  \A i \in 1..Len(contacts) :
    contacts[i].value =>
      /\ contacts[i].sample \notin {0, airSample}
      /\ \A n \in 1..strokes : gaps[n] # contacts[i].sample

Contacts ==
  /\ told <= Published
  /\ \A i \in 1..Len(contacts) : contacts[i].sample <= Published
  /\ timely => Complete /\ Ordered /\ OfStrokes

\* The poses on their way: each was sampled after the gap of its stroke, and
\* before the one of the next.
Drawn(pose) ==
  /\ pose.place <= strokes
  /\ pose.sample \in 1..sample
  /\ pose.place > 0 =>
       /\ gaps[pose.place] < pose.sample
       /\ airSample > 0 => pose.sample < airSample
       /\ seen => \A n \in pose.place + 1..strokes : pose.sample < gaps[n]

Poses ==
  /\ \A i \in 1..Len(poses) : Drawn(poses[i])
  /\ \A i \in 1..Len(poses) : \A j \in 1..i - 1 :
       poses[j].place > 0 /\ poses[i].place > 0 =>
         poses[j].place <= poses[i].place

\* The line that may go on: no later gap has been told.
Line ==
  previous > 0 =>
    /\ previous <= strokes
    /\ \A i \in 1..Len(poses) :
         poses[i].place > 0 => previous <= poses[i].place
    /\ timely /\ seen =>
         /\ airSample > 0 => told < airSample
         /\ \A n \in previous + 1..strokes : told < gaps[n]

PaperInv ==
  TypeOK /\ Pen /\ Contacts /\ Poses /\ Line /\ StrokesStayApart

LEMMA Types ==
  ASSUME TypeOK
  PROVE  /\ pen \in Int /\ previous \in Int /\ Published \in Int
         /\ strokes \in Nat /\ sample \in Nat /\ told \in Nat
         /\ others \in Nat /\ airSample \in Nat
         /\ gaps \in Seq(Nat) /\ Len(gaps) \in Nat
         /\ \A n \in 1..Len(gaps) : gaps[n] \in Nat
         /\ poses \in Seq(Pose) /\ Len(poses) \in Nat
         /\ \A i \in 1..Len(poses) :
              poses[i].sample \in Nat /\ poses[i].place \in Int
         /\ contacts \in Seq(Contact) /\ Len(contacts) \in Nat
         /\ \A i \in 1..Len(contacts) :
              contacts[i].sample \in Nat /\ contacts[i].value \in BOOLEAN
         /\ {timely, seen, joined} \subseteq BOOLEAN
<1>1. \A i \in 1..Len(poses) : poses[i] \in Pose
  BY DEF TypeOK
<1>2. \A i \in 1..Len(contacts) : contacts[i] \in Contact
  BY DEF TypeOK
<1> QED
  BY <1>1, <1>2
  DEF TypeOK, Places, Off, Nowhere, Pose, Contact, Published

\* Due is empty or holds one contact, and these differ.
LEMMA DueIs ==
  ASSUME NEW b \in BOOLEAN
  PROVE  /\ <<b>> # <<>> /\ <<b>>[1] = b /\ Len(<<b>>) = 1
         /\ <<b>> = <<TRUE>> => b
OBVIOUS

LEMMA LookIsDue ==
  ASSUME Look \/ LookFails, TypeOK
  PROVE  IsDue' /\ (IsInkDue' => pen > 0)
<1>1. CASE Look
  <2> DEFINE down == pen > 0
  <2>1. due' = <<down>> /\ down \in BOOLEAN
    BY <1>1 DEF Look
  <2> HIDE DEF down
  <2>2. IsDue' /\ (IsInkDue' => down)
    BY <2>1, DueIs DEF IsDue, IsInkDue
  <2> QED
    BY <2>2, Zenon DEF down
<1>2. CASE LookFails
  <2>1. due' = <<FALSE>>
    BY <1>2 DEF LookFails
  <2> QED
    BY <2>1, DueIs DEF IsDue, IsInkDue
<1> QED
  BY <1>1, <1>2

\* Every other step leaves the contact due alone, or publishes it.
LEMMA TellsDue ==
  ASSUME TypeOK
  PROVE  /\ Tell => ~IsDue' /\ ~IsInkDue' /\ IsDue
         /\ Tell => (due[1] => IsInkDue)
         /\ due' = due => (IsDue' <=> IsDue) /\ (IsInkDue' <=> IsInkDue)
         /\ IsInkDue => IsDue
<1>1. <<>> # <<TRUE>> /\ <<>> # <<FALSE>> /\ <<FALSE>>[1] = FALSE
  OBVIOUS
<1>2. due \in {<<>>, <<TRUE>>, <<FALSE>>}
  BY Zenon DEF TypeOK
<1> QED
  BY <1>1, <1>2, Zenon DEF Tell, IsDue, IsInkDue

LEMMA PenStep ==
  ASSUME TypeOK, Pen, [Next]_vars
  PROVE  Pen'
<1> USE DEF Pen
<1>0. /\ pen \in Int /\ strokes \in Nat /\ sample \in Nat
      /\ airSample \in Nat /\ gaps \in Seq(Nat)
      /\ \A n \in 1..strokes : gaps[n] \in Nat
  BY Types
<1>a. /\ IsInkDue => IsDue
      /\ due' = due => (IsDue' <=> IsDue) /\ (IsInkDue' <=> IsInkDue)
  BY TellsDue
<1>1. CASE Lift \/ Fly
  <2>1. /\ UNCHANGED <<strokes, sample, due, gaps>> /\ pen' \in {0, -1}
        /\ airSample' \in {0, airSample}
    BY <1>1 DEF Lift, Fly, world, monitor, sampled, Air, Off
  <2> QED
    BY <1>0, <1>a, <2>1
<1>2. CASE Land
  <2>1. /\ UNCHANGED <<sample, due>> /\ strokes' = strokes + 1
        /\ pen' = strokes' /\ airSample' = 0
        /\ gaps' = Append(gaps, airSample)
    BY <1>2 DEF Land, monitor
  <2>2. /\ Len(gaps') = strokes + 1 /\ gaps'[strokes + 1] = airSample
        /\ \A n \in 1..strokes : gaps'[n] = gaps[n]
    BY <1>0, <2>1
  <2>3. \A n \in 1..strokes' : n \in 1..strokes \/ n = strokes + 1
    BY <1>0, <2>1
  <2>4. \A n \in 1..strokes' : gaps'[n] <= sample'
    BY <1>0, <2>1, <2>2, <2>3
  <2>5. IsInkDue' => /\ airSample' # sample'
                    /\ \A n \in 1..strokes' : gaps'[n] # sample'
    BY <1>0, <1>a, <2>1, <2>2, <2>3
  <2> QED
    BY <1>0, <1>a, <2>1, <2>2, <2>4, <2>5
<1>3. CASE Look \/ LookFails
  <2>1. /\ UNCHANGED <<pen, strokes, gaps>> /\ sample' = sample + 1
        /\ airSample' = IF pen > 0 THEN airSample ELSE sample'
    BY <1>3 DEF Look, LookFails, world
  <2>2. IsDue' /\ (IsInkDue' => pen > 0)
    BY <1>3, LookIsDue
  <2> QED
    BY <1>0, <2>1, <2>2
<1>4. CASE Tell
  <2>1. UNCHANGED <<pen, strokes, sample, gaps, airSample>> /\ ~IsDue' /\ ~IsInkDue'
    BY <1>4, TellsDue DEF Tell, world, sampled
  <2> QED
    BY <2>1
<1>5. CASE \/ \E b \in BOOLEAN : GatewayTells(b)
           \/ ContactCallback \/ PoseCallback \/ UNCHANGED vars
  <2>1. UNCHANGED <<pen, strokes, sample, due, gaps, airSample>>
    BY <1>5 DEF GatewayTells, ContactCallback, PoseCallback, vars, world,
                monitor, sampled
  <2> QED
    BY <1>a, <2>1
<1> QED
  BY <1>1, <1>2, <1>3, <1>4, <1>5 DEF Next

\* What a step does to the samples of the air.
LEMMA AirStep ==
  ASSUME TypeOK, Pen, [Next]_vars
  PROVE  /\ airSample' \in {0, airSample, sample + 1}
         /\ strokes' \in {strokes, strokes + 1}
         /\ \A n \in 1..strokes : gaps'[n] = gaps[n]
         /\ strokes' = strokes + 1 => gaps'[strokes'] = airSample
<1>1. /\ gaps \in Seq(Nat) /\ Len(gaps) = strokes
      /\ airSample \in Nat /\ strokes \in Nat
  BY Types DEF Pen
<1>2. CASE Land
  <2>1. /\ strokes' = strokes + 1 /\ airSample' = 0
        /\ gaps' = Append(gaps, airSample)
    BY <1>2 DEF Land
  <2> QED
    BY <1>1, <2>1
<1>3. CASE Look \/ LookFails
  <2>1. /\ UNCHANGED <<strokes, gaps>> /\ sample' = sample + 1
        /\ airSample' = IF pen > 0 THEN airSample ELSE sample'
    BY <1>3 DEF Look, LookFails, world
  <2> QED
    BY <1>1, <2>1
<1>4. CASE \/ Lift \/ Fly \/ Tell \/ (\E b \in BOOLEAN : GatewayTells(b))
           \/ ContactCallback \/ PoseCallback \/ UNCHANGED vars
  <2>1. UNCHANGED <<strokes, gaps>> /\ airSample' \in {0, airSample}
    BY <1>4 DEF Lift, Fly, Tell, GatewayTells, ContactCallback, PoseCallback,
                vars, world, sampled
  <2> QED
    BY <1>1, <2>1
<1> QED
  BY <1>2, <1>3, <1>4 DEF Next

\* A step that leaves the contacts and the view's side of them alone.
LEMMA ContactsKept ==
  ASSUME TypeOK, Pen, Contacts, [Next]_vars,
         UNCHANGED <<contacts, told>>, Published' = Published,
         timely' => timely
  PROVE  Contacts'
<1>1. /\ Published \in Int /\ airSample \in Nat /\ strokes \in Nat
      /\ sample \in Nat /\ Published <= sample
      /\ \A i \in 1..Len(contacts) : contacts[i].sample \in Nat
  BY Types DEF Published
<1>a. /\ airSample' \in {0, airSample, sample + 1}
      /\ strokes' \in {strokes, strokes + 1}
      /\ \A n \in 1..strokes : gaps'[n] = gaps[n]
      /\ strokes' = strokes + 1 => gaps'[strokes'] = airSample
  BY AirStep
<1>2. /\ told' <= Published'
      /\ \A i \in 1..Len(contacts') : contacts'[i].sample <= Published'
  BY DEF Contacts
<1>3. ASSUME timely' PROVE Complete' /\ Ordered'
  BY <1>3 DEF Contacts, Complete, Ordered
<1>4. ASSUME timely' PROVE OfStrokes'
  <2>1. OfStrokes
    BY <1>4 DEF Contacts
  <2> SUFFICES ASSUME NEW i \in 1..Len(contacts), contacts[i].value
               PROVE  /\ contacts[i].sample # 0
                      /\ contacts[i].sample # airSample'
                      /\ \A n \in 1..strokes' : gaps'[n] # contacts[i].sample
    BY DEF OfStrokes
  <2> DEFINE k == contacts[i].sample
  <2>2. /\ k # 0 /\ k # airSample /\ k <= sample /\ k \in Nat
        /\ \A n \in 1..strokes : gaps[n] # k
    BY <1>1, <2>1 DEF OfStrokes, Contacts
  <2> HIDE DEF k
  <2>3. k # airSample'
    BY <1>1, <1>a, <2>2
  <2>4. \A n \in 1..strokes' : gaps'[n] # k
    <3> SUFFICES ASSUME NEW n \in 1..strokes' PROVE gaps'[n] # k
      OBVIOUS
    <3>1. \/ n \in 1..strokes
          \/ strokes' = strokes + 1 /\ n = strokes'
      BY <1>1, <1>a
    <3> QED
      BY <1>a, <2>2, <3>1
  <2> QED
    BY <2>2, <2>3, <2>4 DEF k
<1> QED
  BY <1>2, <1>3, <1>4 DEF Contacts

\* A contact is published, by the monitor or by the gateway.  If nothing got
\* lost, it is the last one of all.
LEMMA ContactPublished ==
  ASSUME TypeOK, Contacts, NEW m \in Contact,
         contacts' = Queued(contacts, m),
         UNCHANGED <<told, airSample, strokes, gaps>>,
         m.sample <= Published', Published <= Published', Published' \in Nat,
         timely' => /\ timely /\ Len(contacts) < QueueSize
                    /\ m.sample = 0 \/ m.sample = Published'
                    /\ m.sample = 0 => Published' = Published
                    /\ m.sample # 0 => Published' = Published + 1
                    /\ m.value => /\ m.sample \notin {0, airSample}
                                  /\ \A n \in 1..strokes : gaps[n] # m.sample
  PROVE  Contacts'
<1>1. /\ contacts \in Seq(Contact) /\ Len(contacts) <= QueueSize
      /\ told \in Nat /\ Published \in Int /\ Len(contacts) \in Nat
      /\ m.sample \in Nat
      /\ \A i \in 1..Len(contacts) : contacts[i].sample \in Nat
  BY Types DEF TypeOK, Contact
<1> DEFINE d == Dropped(contacts)
<1>2. /\ Len(contacts') = Len(contacts) + 1 - d
      /\ contacts'[Len(contacts) + 1 - d] = m
      /\ \A i \in 1..Len(contacts) - d : contacts'[i] = contacts[i + d]
  <2> DEFINE q == Queued(contacts, m)
  <2>1. /\ Len(q) = Len(contacts) + 1 - d
        /\ q[Len(contacts) + 1 - d] = m
        /\ \A i \in 1..Len(contacts) - d : q[i] = contacts[i + d]
    <3>1. contacts \in Seq(Contact) /\ Len(contacts) <= QueueSize
      BY <1>1
    <3>2. m \in Contact
      OBVIOUS
    <3> QED
      BY ONLY <3>1, <3>2, QueuedIs
  <2> HIDE DEF q, d
  <2>2. contacts' = q
    BY DEF q
  <2> QED
    BY <2>1, <2>2
<1>b. d \in {0, 1} /\ (Len(contacts) < QueueSize => d = 0)
  BY <1>1, QueueAssumption DEF Dropped
<1> HIDE DEF d
<1>3. /\ told <= Published
      /\ \A i \in 1..Len(contacts) : contacts[i].sample <= Published
  BY DEF Contacts
<1>4. told' <= Published'
  BY <1>1, <1>3
<1>5. \A i \in 1..Len(contacts') : contacts'[i].sample <= Published'
  <2> SUFFICES ASSUME NEW i \in 1..Len(contacts')
               PROVE  contacts'[i].sample <= Published'
    OBVIOUS
  <2>1. CASE i = Len(contacts) + 1 - d
    BY <1>2, <2>1
  <2>2. CASE i # Len(contacts) + 1 - d
    <3>1. i \in 1..Len(contacts) - d /\ i + d \in 1..Len(contacts)
      BY <1>1, <1>2, <1>b, <2>2
    <3>2. contacts'[i] = contacts[i + d] /\ contacts[i + d].sample <= Published
      BY <1>2, <1>3, <3>1
    <3> QED
      BY <1>1, <3>1, <3>2
  <2> QED
    BY <2>1, <2>2
<1>6. ASSUME timely' PROVE Complete' /\ Ordered' /\ OfStrokes'
  <2>1. /\ Complete /\ Ordered /\ OfStrokes /\ d = 0
        /\ m.sample = 0 \/ m.sample = Published'
        /\ m.sample = 0 => Published' = Published
        /\ m.sample # 0 => Published' = Published + 1
        /\ m.value => /\ m.sample \notin {0, airSample}
                      /\ \A n \in 1..strokes : gaps[n] # m.sample
    BY <1>b, <1>6 DEF Contacts
  <2>2. /\ Len(contacts') = Len(contacts) + 1
        /\ contacts'[Len(contacts) + 1] = m
        /\ \A i \in 1..Len(contacts) : contacts'[i] = contacts[i]
        /\ \A i \in 1..Len(contacts') :
             i \in 1..Len(contacts) \/ i = Len(contacts) + 1
    BY <1>1, <1>2, <2>1
  <2>3. Complete'
    <3> SUFFICES ASSUME NEW k \in told + 1..Published'
                 PROVE  \E i \in 1..Len(contacts') : contacts'[i].sample = k
      BY DEF Complete
    <3>1. CASE k <= Published
      <4>1. k \in told + 1..Published
        BY <1>1, <3>1
      <4>2. PICK i \in 1..Len(contacts) : contacts[i].sample = k
        BY <2>1, <4>1 DEF Complete
      <4> QED
        BY <1>1, <2>2, <4>2
    <3>2. CASE ~(k <= Published)
      <4>1. k = m.sample
        BY <1>1, <2>1, <3>2
      <4> QED
        BY <1>1, <2>2, <4>1
    <3> QED
      BY <3>1, <3>2
  <2>4. Ordered'
    <3> SUFFICES ASSUME NEW i \in 1..Len(contacts'), contacts'[i].sample # 0
                 PROVE  /\ told < contacts'[i].sample
                        /\ \A j \in 1..i - 1 :
                             contacts'[j].sample < contacts'[i].sample
      BY DEF Ordered
    <3>1. CASE i \in 1..Len(contacts)
      <4>1. \A j \in 1..i - 1 : j \in 1..Len(contacts)
        BY <1>1, <3>1
      <4> QED
        BY <2>1, <2>2, <3>1, <4>1 DEF Ordered
    <3>2. CASE i = Len(contacts) + 1
      <4>1. contacts'[i].sample = Published + 1
        BY <2>1, <2>2, <3>2
      <4>2. \A j \in 1..i - 1 : /\ j \in 1..Len(contacts)
                                /\ contacts'[j] = contacts[j]
        BY <1>1, <2>2, <3>2
      <4> QED
        BY <1>1, <1>3, <4>1, <4>2
    <3> QED
      BY <2>2, <3>1, <3>2
  <2>5. OfStrokes'
    BY <2>1, <2>2 DEF OfStrokes
  <2> QED
    BY <2>3, <2>4, <2>5
<1> QED
  BY <1>4, <1>5, <1>6 DEF Contacts

\* The contacts are timely: the one that is handled is the next one to be told.
LEMMA NextIsTold ==
  ASSUME TypeOK, Contacts, timely, contacts # <<>>, contacts[1].sample # 0
  PROVE  contacts[1].sample = told + 1
<1>1. /\ told \in Nat /\ Published \in Int /\ Len(contacts) \in Nat \ {0}
      /\ \A i \in 1..Len(contacts) : contacts[i].sample \in Nat
  BY Types, TailOf
<1>2. /\ Complete /\ Ordered
      /\ \A i \in 1..Len(contacts) : contacts[i].sample <= Published
  BY DEF Contacts
<1>3. told < contacts[1].sample /\ contacts[1].sample <= Published
  BY <1>1, <1>2 DEF Ordered
<1>4. told + 1 \in told + 1..Published
  BY <1>1, <1>3
<1>5. PICK i \in 1..Len(contacts) : contacts[i].sample = told + 1
  BY <1>2, <1>4 DEF Complete
<1>6. i # 1 => contacts[1].sample < contacts[i].sample
  BY <1>1, <1>2, <1>5 DEF Ordered
<1> QED
  BY <1>1, <1>3, <1>5, <1>6

\* What the contact callback does to the queue and to what was told.
LEMMA ContactHandled ==
  ASSUME TypeOK, ContactCallback
  PROVE  /\ contacts # <<>> /\ Len(contacts) \in Nat \ {0}
         /\ contacts' \in Seq(Contact) /\ Len(contacts') = Len(contacts) - 1
         /\ \A i \in 1..Len(contacts') :
              i + 1 \in 1..Len(contacts) /\ contacts'[i] = contacts[i + 1]
         /\ contact' = contacts[1].value
         /\ previous' = IF contacts[1].value THEN previous ELSE Nowhere
         /\ told' = IF timely /\ contacts[1].sample # 0
                      THEN contacts[1].sample ELSE told
         /\ UNCHANGED <<world, monitor, poses, sampled, others, timely,
                        drawing>>
<1>1. contacts # <<>> /\ contacts' = Tail(contacts)
  BY DEF ContactCallback
<1>2. contacts \in Seq(Contact)
  BY Types
<1>3. /\ Tail(contacts) \in Seq(Contact)
      /\ Len(Tail(contacts)) = Len(contacts) - 1
      /\ \A i \in 1..Len(contacts) - 1 : Tail(contacts)[i] = contacts[i + 1]
      /\ Head(contacts) = contacts[1] /\ Len(contacts) \in Nat \ {0}
  BY ONLY <1>1, <1>2, TailOf
<1> QED
  BY <1>1, <1>3 DEF ContactCallback

LEMMA ContactsCalled ==
  ASSUME TypeOK, Contacts, ContactCallback
  PROVE  Contacts'
<1> DEFINE head == contacts[1]
<1>1. /\ told \in Nat /\ Published \in Int /\ airSample \in Nat
      /\ \A i \in 1..Len(contacts) : contacts[i].sample \in Nat
  BY Types
<1>2. /\ contacts # <<>> /\ Len(contacts) \in Nat \ {0}
      /\ Len(contacts') = Len(contacts) - 1
      /\ \A i \in 1..Len(contacts') :
           i + 1 \in 1..Len(contacts) /\ contacts'[i] = contacts[i + 1]
      /\ told' = IF timely /\ head.sample # 0 THEN head.sample ELSE told
      /\ UNCHANGED <<strokes, sample, due, airSample, gaps, timely>>
  BY ContactHandled DEF world, monitor, sampled
<1>3. Published' = Published
  BY <1>2 DEF Published, IsDue
<1>4. /\ told <= Published
      /\ \A i \in 1..Len(contacts) : contacts[i].sample <= Published
  BY DEF Contacts
<1>5. told' <= Published'
  BY <1>1, <1>2, <1>3, <1>4
<1>6. \A i \in 1..Len(contacts') : contacts'[i].sample <= Published'
  BY <1>2, <1>3, <1>4
<1>7. ASSUME timely' PROVE Complete' /\ Ordered' /\ OfStrokes'
  <2>1. timely /\ Complete /\ Ordered /\ OfStrokes
    BY <1>2, <1>7 DEF Contacts
  <2>2. \/ head.sample = 0 /\ told' = told
        \/ head.sample = told + 1 /\ told' = told + 1
    BY <1>2, <2>1, NextIsTold
  <2> HIDE DEF head
  <2>3. Complete'
    <3> SUFFICES ASSUME NEW k \in told' + 1..Published
                 PROVE  \E i \in 1..Len(contacts') : contacts'[i].sample = k
      BY <1>3 DEF Complete
    <3>1. k \in told + 1..Published /\ k # head.sample
      BY <1>1, <2>2
    <3>2. PICK i \in 1..Len(contacts) : contacts[i].sample = k
      BY <2>1, <3>1 DEF Complete
    <3>3. i # 1
      BY <3>1, <3>2 DEF head
    <3>4. i - 1 \in 1..Len(contacts') /\ (i - 1) + 1 = i
      BY <1>2, <3>3
    <3> QED
      BY <1>2, <3>2, <3>4
  <2>4. Ordered'
    <3> SUFFICES ASSUME NEW i \in 1..Len(contacts'), contacts'[i].sample # 0
                 PROVE  /\ told' < contacts'[i].sample
                        /\ \A j \in 1..i - 1 :
                             contacts'[j].sample < contacts'[i].sample
      BY DEF Ordered
    <3>1. /\ i + 1 \in 1..Len(contacts) /\ contacts'[i] = contacts[i + 1]
          /\ 1 \in 1..(i + 1) - 1
      BY <1>2
    <3>2. /\ told < contacts[i + 1].sample
          /\ \A j \in 1..(i + 1) - 1 :
               contacts[j].sample < contacts[i + 1].sample
      BY <2>1, <3>1 DEF Ordered
    <3>3. told' < contacts'[i].sample
      BY <2>2, <3>1, <3>2 DEF head
    <3>4. ASSUME NEW j \in 1..i - 1
          PROVE  contacts'[j].sample < contacts'[i].sample
      <4>1. j \in 1..Len(contacts') /\ j + 1 \in 1..(i + 1) - 1
        BY <1>2
      <4> QED
        BY <1>2, <3>1, <3>2, <4>1
    <3> QED
      BY <3>3, <3>4
  <2>5. OfStrokes'
    BY <1>2, <2>1 DEF OfStrokes
  <2> QED
    BY <2>3, <2>4, <2>5
<1> QED
  BY <1>5, <1>6, <1>7 DEF Contacts

LEMMA ContactsStep ==
  ASSUME TypeOK, Pen, Contacts, [Next]_vars
  PROVE  Contacts'
<1>1. /\ sample \in Nat /\ told \in Nat /\ Published \in Int
      /\ strokes \in Nat
  BY Types
<1>2. CASE Lift \/ Fly \/ Land \/ PoseCallback \/ UNCHANGED vars
  <2>1. UNCHANGED <<contacts, told, sample, due>> /\ (timely' => timely)
    <3>1. CASE PoseCallback
      BY <3>1, Zenon DEF PoseCallback, monitor
    <3>2. CASE Lift \/ Fly \/ Land \/ UNCHANGED vars
      BY <3>2 DEF Lift, Fly, Land, vars, monitor, topics, lag
    <3> QED
      BY <1>2, <3>1, <3>2
  <2>2. Published' = Published
    BY <2>1 DEF Published, IsDue
  <2> QED
    BY <2>1, <2>2, ContactsKept
<1>3. CASE Look \/ LookFails
  <2>1. /\ UNCHANGED <<contacts, told, timely>> /\ sample' = sample + 1
        /\ ~IsDue
    BY <1>3 DEF Look, LookFails, topics, lag, IsDue
  <2>2. IsDue'
    BY <1>3, LookIsDue
  <2>3. Published' = Published
    BY <1>1, <2>1, <2>2 DEF Published
  <2> QED
    BY <2>1, <2>3, ContactsKept
<1>4. CASE Tell
  <2> DEFINE m == [sample |-> sample, value |-> due[1]]
  <2>1. /\ contacts' = Queued(contacts, m)
        /\ UNCHANGED <<told, sample, airSample, strokes, gaps>>
        /\ timely' => timely /\ Len(contacts) < QueueSize
    BY <1>4 DEF Tell, world, sampled
  <2>2. IsDue /\ ~IsDue' /\ (due[1] => IsInkDue)
    BY <1>4, TellsDue
  <2>3. due[1] \in BOOLEAN
    <3>1. due \in {<<>>, <<TRUE>>, <<FALSE>>} /\ due # <<>>
      BY <2>2, Zenon DEF TypeOK, IsDue
    <3>2. <<TRUE>>[1] = TRUE /\ <<FALSE>>[1] = FALSE
      OBVIOUS
    <3> QED
      BY <3>1, <3>2, Zenon
  <2>4. m \in Contact /\ m.sample = sample /\ (m.value => IsInkDue)
    BY <1>1, <2>2, <2>3 DEF Contact
  <2>5. Published' = sample /\ Published = sample - 1 /\ sample > 0
    BY <2>1, <2>2 DEF Published, Pen
  <2>6. IsInkDue => /\ sample # airSample
                    /\ \A n \in 1..strokes : gaps[n] # sample
    BY DEF Pen
  <2> HIDE DEF m
  <2>7. /\ m.sample <= Published' /\ Published <= Published'
        /\ Published' \in Nat /\ m.sample = Published'
        /\ m.sample # 0 /\ Published' = Published + 1
        /\ m.value => /\ m.sample \notin {0, airSample}
                      /\ \A n \in 1..strokes : gaps[n] # m.sample
    BY <1>1, <2>4, <2>5, <2>6
  <2> QED
    BY <2>1, <2>4, <2>7, ContactPublished
<1>5. ASSUME NEW b \in BOOLEAN, GatewayTells(b) PROVE Contacts'
  <2> DEFINE m == [sample |-> 0, value |-> b]
  <2>1. /\ contacts' = Queued(contacts, m)
        /\ UNCHANGED <<told, sample, due, airSample, strokes, gaps>>
        /\ timely' => timely /\ Len(contacts) < QueueSize /\ ~b
    BY <1>5 DEF GatewayTells, world, monitor, sampled
  <2>2. m \in Contact /\ m.sample = 0 /\ m.value = b
    BY DEF Contact
  <2>3. Published' = Published
    BY <2>1 DEF Published, IsDue
  <2>4. told <= Published
    BY DEF Contacts
  <2> HIDE DEF m
  <2>5. /\ m.sample <= Published' /\ Published <= Published'
        /\ Published' \in Nat
        /\ m.sample = 0 /\ Published' = Published /\ (timely' => ~m.value)
    BY <1>1, <2>1, <2>2, <2>3, <2>4
  <2> QED
    BY <2>1, <2>2, <2>5, ContactPublished
<1>6. CASE ContactCallback
  BY <1>6, ContactsCalled
<1> QED
  BY <1>2, <1>3, <1>4, <1>5, <1>6 DEF Next

\* A pose on its way stays where its stroke was.
LEMMA DrawnStep ==
  ASSUME TypeOK, Pen, [Next]_vars, NEW pose \in Pose, Drawn(pose)
  PROVE  Drawn(pose)'
<1> USE DEF Drawn
<1>1. /\ strokes \in Nat /\ sample \in Nat /\ airSample \in Nat
      /\ gaps \in Seq(Nat) /\ Len(gaps) = strokes
      /\ \A n \in 1..strokes : gaps[n] \in Nat
      /\ pose.sample \in Nat /\ pose.place \in Int
  BY Types DEF Pen, Pose, Places, Off
<1>2. CASE Land
  <2>1. /\ strokes' = strokes + 1 /\ airSample' = 0 /\ sample' = sample
        /\ gaps' = Append(gaps, airSample)
        /\ seen' => seen /\ (strokes = 0 \/ airSample > 0)
    BY <1>2 DEF Land, monitor
  <2>2. /\ gaps'[strokes + 1] = airSample
        /\ \A n \in 1..strokes : gaps'[n] = gaps[n]
    BY <1>1, <2>1
  <2>3. ASSUME pose.place > 0, seen', NEW n \in pose.place + 1..strokes'
        PROVE  pose.sample < gaps'[n]
    <3>1. CASE n \in 1..strokes
      BY <1>1, <2>1, <2>2, <2>3, <3>1
    <3>2. CASE n = strokes + 1
      BY <1>1, <2>1, <2>2, <2>3, <3>2
    <3> QED
      BY <1>1, <2>1, <2>3, <3>1, <3>2
  <2>4. pose.place > 0 => gaps'[pose.place] < pose.sample
    BY <1>1, <2>2
  <2> QED
    BY <1>1, <2>1, <2>3, <2>4
<1>3. CASE Look \/ LookFails
  <2>1. /\ UNCHANGED <<strokes, gaps, seen>> /\ sample' = sample + 1
        /\ airSample' = IF pen > 0 THEN airSample ELSE sample'
    BY <1>3 DEF Look, LookFails, world
  <2> QED
    BY <1>1, <2>1
<1>4. CASE \/ Lift \/ Fly \/ Tell \/ (\E b \in BOOLEAN : GatewayTells(b))
           \/ ContactCallback \/ PoseCallback \/ UNCHANGED vars
  <2>1. /\ UNCHANGED <<strokes, gaps, sample, seen>>
        /\ airSample' \in {0, airSample}
    BY <1>4 DEF Lift, Fly, Tell, GatewayTells, ContactCallback, PoseCallback,
                vars, world, sampled, monitor
  <2> QED
    BY <1>1, <2>1
<1> QED
  BY <1>2, <1>3, <1>4 DEF Next

\* What the pose callback does, with the first pose of the queue.
LEMMA PoseHandled ==
  ASSUME TypeOK, PoseCallback
  PROVE  /\ poses # <<>> /\ Len(poses) \in Nat \ {0} /\ poses[1] \in Pose
         /\ Len(poses') = Len(poses) - 1
         /\ \A i \in 1..Len(poses') :
              i + 1 \in 1..Len(poses) /\ poses'[i] = poses[i + 1]
         /\ previous' = PreviousAfter(poses[1].place)
         /\ joined' => joined \/ Joins(poses[1].place)
         /\ timely' => timely /\ told \in {poses[1].sample - 1,
                                           poses[1].sample}
         /\ run' = IF timely' THEN RunWith(poses[1]) ELSE run
         /\ UNCHANGED <<world, monitor, contacts, contact, sampled, others,
                        told>>
<1>1. poses # <<>> /\ poses' = Tail(poses)
  BY DEF PoseCallback
<1>2. poses \in Seq(Pose)
  BY Types
<1>3. /\ Len(Tail(poses)) = Len(poses) - 1
      /\ \A i \in 1..Len(poses) - 1 : Tail(poses)[i] = poses[i + 1]
      /\ Head(poses) = poses[1] /\ poses[1] \in Pose
      /\ Len(poses) \in Nat \ {0}
  BY ONLY <1>1, <1>2, TailOf
<1>4. \A i \in 1..Len(poses') : i \in 1..Len(poses) - 1 /\ i + 1 \in 1..Len(poses)
  BY <1>1, <1>3
<1>5. /\ previous' = PreviousAfter(Head(poses).place)
      /\ joined' => joined \/ Joins(Head(poses).place)
      /\ timely' => timely /\ told \in {Head(poses).sample - 1,
                                        Head(poses).sample}
      /\ run' = IF timely' THEN RunWith(Head(poses)) ELSE run
      /\ UNCHANGED <<world, monitor, contacts, contact, sampled, others,
                     told>>
  BY Zenon DEF PoseCallback
<1> QED
  BY <1>1, <1>3, <1>4, <1>5, Zenon

\* A pose on its way was so before, unless the monitor has just published it.
LEMMA PosesFrom ==
  ASSUME TypeOK, [Next]_vars, NEW i \in 1..Len(poses')
  PROVE  \/ /\ Look
            /\ poses'[i].place = pen /\ poses'[i].sample = sample + 1
         \/ \E j \in 1..Len(poses) : poses'[i] = poses[j]
<1>1. /\ poses \in Seq(Pose) /\ Len(poses) \in Nat
      /\ Len(poses) <= QueueSize /\ pen \in Places /\ sample \in Nat
  BY Types DEF TypeOK
<1>2. CASE Look
  <2> DEFINE m == [sample |-> sample + 1, place |-> pen]
             d == Dropped(poses)
  <2>1. poses' = Queued(poses, m)
    <3>1. sample' = sample + 1
      BY <1>2 DEF Look
    <3> QED
      BY <1>2, <3>1, Zenon DEF Look
  <2>2. m \in Pose
    BY <1>1 DEF Pose
  <2>3. m.place = pen /\ m.sample = sample + 1 /\ d \in {0, 1}
    BY DEF Dropped
  <2> HIDE DEF m
  <2>4. /\ Len(Queued(poses, m)) = Len(poses) + 1 - d
        /\ Queued(poses, m)[Len(poses) + 1 - d] = m
        /\ \A k \in 1..Len(poses) - d : Queued(poses, m)[k] = poses[k + d]
    <3>1. poses \in Seq(Pose) /\ Len(poses) <= QueueSize
      BY <1>1
    <3> QED
      BY ONLY <2>2, <3>1, QueuedIs
  <2> HIDE DEF d
  <2>5. CASE i = Len(poses) + 1 - d
    BY <1>2, <2>1, <2>3, <2>4, <2>5
  <2>6. CASE i # Len(poses) + 1 - d
    <3>1. i \in 1..Len(poses) - d /\ i + d \in 1..Len(poses)
      BY <1>1, <2>1, <2>3, <2>4, <2>6
    <3> QED
      BY <2>1, <2>4, <3>1
  <2> QED
    BY <2>5, <2>6
<1>3. CASE PoseCallback
  BY <1>3, PoseHandled
<1>4. CASE \/ Lift \/ Fly \/ Land \/ LookFails \/ Tell
           \/ (\E b \in BOOLEAN : GatewayTells(b))
           \/ ContactCallback \/ UNCHANGED vars
  <2>1. poses' = poses
    BY <1>4 DEF Lift, Fly, Land, LookFails, Tell, GatewayTells,
                ContactCallback, vars, topics
  <2> QED
    BY <2>1
<1> QED
  BY <1>2, <1>3, <1>4 DEF Next

LEMMA PosesStep ==
  ASSUME TypeOK, Pen, Poses, [Next]_vars
  PROVE  Poses'
<1> DEFINE Order(q) ==
      \A i \in 1..Len(q) : \A j \in 1..i - 1 :
        q[j].place > 0 /\ q[i].place > 0 => q[j].place <= q[i].place
<1>1. /\ poses \in Seq(Pose) /\ Len(poses) \in Nat
      /\ \A i \in 1..Len(poses) : poses[i] \in Pose
      /\ \A i \in 1..Len(poses) : poses[i].place \in Int
      /\ Len(poses) <= QueueSize
      /\ pen \in Int /\ strokes \in Nat /\ sample \in Nat
      /\ airSample \in Nat /\ \A n \in 1..Len(gaps) : gaps[n] \in Nat
  <2>1. poses \in Seq(Pose) /\ Len(poses) <= QueueSize
    BY DEF TypeOK
  <2>2. \A i \in 1..Len(poses) : poses[i] \in Pose
    BY <2>1
  <2> QED
    BY <2>1, <2>2, Types
<1>2. (\A i \in 1..Len(poses) : Drawn(poses[i])) /\ Order(poses)
  BY DEF Poses
<1>3. ASSUME NEW i \in 1..Len(poses), NEW p, p = poses[i]
      PROVE  Drawn(p)'
  BY <1>1, <1>2, <1>3, DrawnStep
<1> HIDE DEF Order
<1>4. CASE poses' = poses
  <2>1. ASSUME NEW i \in 1..Len(poses) PROVE Drawn(poses[i])'
    <3>1. PICK p : p = poses[i]
      OBVIOUS
    <3>2. Drawn(p)'
      BY <1>3, <3>1
    <3> QED
      BY <1>4, <3>1, <3>2
  <2> QED
    BY <1>2, <1>4, <2>1 DEF Poses, Order
<1>5. CASE PoseCallback
  <2>1. /\ Len(poses) \in Nat \ {0} /\ Len(poses') = Len(poses) - 1
        /\ \A i \in 1..Len(poses') :
             i + 1 \in 1..Len(poses) /\ poses'[i] = poses[i + 1]
    BY <1>5, PoseHandled
  <2>2. ASSUME NEW i \in 1..Len(poses') PROVE Drawn(poses[i])'
    <3>1. PICK p : p = poses[i + 1]
      OBVIOUS
    <3>2. Drawn(p)'
      BY <1>3, <2>1, <3>1
    <3> QED
      BY <2>1, <3>1, <3>2
  <2>3. Order(poses')
    <3> SUFFICES ASSUME NEW i \in 1..Len(poses'), NEW j \in 1..i - 1,
                        poses'[j].place > 0, poses'[i].place > 0
                 PROVE  poses'[j].place <= poses'[i].place
      BY DEF Order
    <3>1. /\ i + 1 \in 1..Len(poses) /\ poses'[i] = poses[i + 1]
          /\ poses'[j] = poses[j + 1] /\ j + 1 \in 1..(i + 1) - 1
      BY <2>1
    <3> QED
      BY <1>2, <3>1 DEF Order
  <2> QED
    BY <2>2, <2>3 DEF Poses, Order
<1>6. CASE Look
  <2>0. PICK m : m = [sample |-> sample + 1, place |-> pen]
    OBVIOUS
  <2> DEFINE d == Dropped(poses)
             new == Len(poses) + 1 - d
  <2>1. /\ UNCHANGED <<pen, strokes, gaps, seen>> /\ sample' = sample + 1
        /\ airSample' = IF pen > 0 THEN airSample ELSE sample'
        /\ poses' = Queued(poses, m)
    BY <1>6, <2>0 DEF Look, world
  <2>2. m \in Pose /\ m.place = pen /\ m.sample = sample + 1
    BY <1>1, <2>0 DEF Pose, TypeOK
  <2>3. /\ Len(Queued(poses, m)) = new
        /\ Queued(poses, m)[new] = m
        /\ \A i \in 1..Len(poses) - d : Queued(poses, m)[i] = poses[i + d]
    <3>1. poses \in Seq(Pose) /\ Len(poses) <= QueueSize
      BY <1>1
    <3> QED
      BY ONLY <2>2, <3>1, QueuedIs
  <2>4. d \in {0, 1}
    BY DEF Dropped
  <2> HIDE DEF d
  <2>5. ASSUME NEW i \in 1..Len(poses'), i # new
        PROVE  i \in 1..Len(poses) - d /\ i + d \in 1..Len(poses)
               /\ poses'[i] = poses[i + d]
    BY <1>1, <2>1, <2>3, <2>4, <2>5
  <2>6. \A n \in 1..strokes : gaps[n] <= sample
    BY DEF Pen
  <2>7. /\ pen > 0 => pen = strokes /\ airSample = 0
        /\ Len(gaps) = strokes
    BY DEF Pen
  <2>8. /\ pen <= strokes
        /\ pen > 0 => /\ gaps[pen] < sample + 1 /\ airSample = 0
                      /\ \A n \in pen + 1..strokes : n # n
    BY <1>1, <2>6, <2>7
  <2>9. Drawn(m)'
    <3>1. m.place <= strokes' /\ m.sample \in 1..sample'
      BY <1>1, <2>1, <2>2, <2>8
    <3>2. ASSUME pen > 0
          PROVE  /\ gaps'[pen] < sample + 1 /\ airSample' = 0
                 /\ \A n \in pen + 1..strokes' : n # n
      BY <2>1, <2>8, <3>2
    <3> QED
      BY <2>2, <3>1, <3>2 DEF Drawn
  <2> HIDE DEF new
  <2>10. /\ Len(poses') = new /\ poses'[new] = m
         /\ new \in Nat /\ \A i \in 1..Len(poses') : i <= new
    <3>1. new \in Nat
      BY <1>1, <2>4 DEF new
    <3> QED
      BY <2>1, <2>3, <3>1
  <2>11. ASSUME NEW i \in 1..Len(poses') PROVE Drawn(poses[i])'
    <3>1. CASE i = new
      <4>1. poses'[i] = m
        BY <2>10, <3>1
      <4> QED
        BY <2>9, <4>1
    <3>2. CASE i # new
      <4>1. PICK p : p = poses[i + d]
        OBVIOUS
      <4>2. i + d \in 1..Len(poses) /\ poses'[i] = p
        BY <2>5, <3>2, <4>1
      <4>3. Drawn(p)'
        BY <1>3, <4>1, <4>2
      <4> QED
        BY <4>2, <4>3
    <3> QED
      BY <3>1, <3>2
  <2>12. Order(poses')
    <3> SUFFICES ASSUME NEW i \in 1..Len(poses'), NEW j \in 1..i - 1,
                        poses'[j].place > 0, poses'[i].place > 0
                 PROVE  poses'[j].place <= poses'[i].place
      BY DEF Order
    <3>1. j \in 1..Len(poses') /\ j # new
      BY <2>10
    <3>2. j + d \in 1..Len(poses) /\ poses'[j] = poses[j + d]
      BY <2>5, <3>1
    <3>3. CASE i = new
      <4>1. poses'[i].place = pen
        BY <2>2, <2>10, <3>3
      <4>2. poses[j + d].place <= strokes
        BY <1>2, <3>2 DEF Drawn
      <4> QED
        BY <2>7, <3>2, <4>1, <4>2
    <3>4. CASE i # new
      <4>1. i + d \in 1..Len(poses) /\ poses'[i] = poses[i + d]
        BY <2>5, <3>4
      <4>2. j + d \in 1..(i + d) - 1
        BY <2>4
      <4> QED
        BY <1>2, <3>2, <4>1, <4>2 DEF Order
    <3> QED
      BY <3>3, <3>4
  <2> QED
    BY <2>11, <2>12 DEF Poses, Order
<1>7. CASE \/ Lift \/ Fly \/ Land \/ LookFails \/ Tell
           \/ (\E b \in BOOLEAN : GatewayTells(b))
           \/ ContactCallback \/ UNCHANGED vars
  <2>1. poses' = poses
    BY <1>7 DEF Lift, Fly, Land, LookFails, Tell, GatewayTells,
                ContactCallback, vars, topics
  <2> QED
    BY <1>4, <2>1
<1> QED
  BY <1>5, <1>6, <1>7 DEF Next

\* The line after a pose: it goes on from the stroke of that pose, or is the one
\* before it.
LEMMA LineDrawn ==
  ASSUME TypeOK, Pen, Poses, Line, PoseCallback
  PROVE  Line'
<1> DEFINE pose == poses[1]
<1>1. /\ poses # <<>> /\ Len(poses) \in Nat \ {0}
      /\ \A i \in 1..Len(poses') :
           i + 1 \in 1..Len(poses) /\ poses'[i] = poses[i + 1]
      /\ Len(poses') = Len(poses) - 1
      /\ previous' = PreviousAfter(pose.place)
      /\ timely' => timely /\ told \in {pose.sample - 1, pose.sample}
      /\ UNCHANGED <<strokes, airSample, gaps, seen, told>>
  BY PoseHandled DEF world, sampled
<1>2. /\ strokes \in Nat /\ told \in Nat /\ previous \in Int
      /\ airSample \in Nat /\ Len(poses') \in Nat
      /\ pose.place \in Int /\ pose.sample \in Nat
      /\ \A n \in 1..strokes : gaps[n] \in Nat
  <2>1. 1 \in 1..Len(poses)
    BY <1>1
  <2> QED
    BY <1>1, <2>1, Types DEF Pen
<1>3. Drawn(pose) /\ \A i \in 2..Len(poses) :
        poses[i].place > 0 /\ pose.place > 0 => pose.place <= poses[i].place
  BY <1>1 DEF Poses
<1> SUFFICES ASSUME previous' > 0
             PROVE  /\ previous' <= strokes
                    /\ \A i \in 1..Len(poses') :
                         poses'[i].place > 0 => previous' <= poses'[i].place
                    /\ timely' /\ seen =>
                         /\ airSample > 0 => told < airSample
                         /\ \A n \in previous' + 1..strokes : told < gaps[n]
  BY <1>1 DEF Line
<1>4. \/ previous' = pose.place /\ pose.place > 0
      \/ previous' = previous /\ previous > 0
  BY <1>1, <1>2 DEF PreviousAfter, Nowhere, Air, Off
<1>5. CASE previous' = pose.place /\ pose.place > 0
  <2>1. \A i \in 1..Len(poses') : i + 1 \in 2..Len(poses)
    BY <1>1, <1>2
  <2>2. \A i \in 1..Len(poses') :
          poses'[i].place > 0 => previous' <= poses'[i].place
    BY <1>1, <1>3, <1>5, <2>1
  <2>3. previous' <= strokes
    BY <1>3, <1>5 DEF Drawn
  <2>4. ASSUME timely', seen, airSample > 0 PROVE told < airSample
    BY <1>1, <1>2, <1>3, <1>5, <2>4 DEF Drawn
  <2>5. ASSUME timely', seen, NEW n \in previous' + 1..strokes
        PROVE  told < gaps[n]
    <3>1. pose.sample < gaps[n]
      BY <1>3, <1>5, <2>5 DEF Drawn
    <3>2. gaps[n] \in Nat
      BY <1>2, <1>5
    <3> QED
      BY <1>1, <1>2, <2>5, <3>1, <3>2
  <2> QED
    BY <2>2, <2>3, <2>4, <2>5
<1>6. CASE previous' = previous /\ previous > 0
  BY <1>1, <1>6 DEF Line
<1> QED
  BY <1>4, <1>5, <1>6

\* The line after a contact: if the pen still writes, the contact told is no gap.
LEMMA LineTold ==
  ASSUME TypeOK, Pen, Contacts, Line, ContactCallback
  PROVE  Line'
<1> DEFINE head == contacts[1]
<1>1. /\ contacts # <<>> /\ Len(contacts) \in Nat \ {0}
      /\ previous' = IF head.value THEN previous ELSE Nowhere
      /\ told' = IF timely /\ head.sample # 0 THEN head.sample ELSE told
      /\ UNCHANGED <<strokes, airSample, gaps, seen, timely, poses>>
  BY ContactHandled DEF world, sampled
<1>2. /\ strokes \in Nat /\ told \in Nat /\ previous \in Int
      /\ airSample \in Nat /\ Len(gaps) = strokes
      /\ \A n \in 1..strokes : gaps[n] \in Nat
  BY Types DEF Pen
<1>3. CASE ~head.value
  BY <1>1, <1>3 DEF Line, Nowhere
<1>4. CASE head.value
  <2>1. previous' = previous
    BY <1>1, <1>4
  <2>2. ASSUME previous > 0, timely, seen
        PROVE  /\ airSample > 0 => told' < airSample
               /\ \A n \in previous + 1..strokes : told' < gaps[n]
    <3>1. /\ head.sample # 0 /\ head.sample # airSample
          /\ \A n \in 1..strokes : gaps[n] # head.sample
      BY <1>1, <1>4, <2>2 DEF Contacts, OfStrokes
    <3>2. head.sample = told + 1 /\ told' = told + 1
      BY <1>1, <2>2, <3>1, NextIsTold
    <3>3. /\ airSample > 0 => told < airSample
          /\ \A n \in previous + 1..strokes : told < gaps[n]
      BY <2>2 DEF Line
    <3> HIDE DEF head
    <3>4. airSample > 0 => told' < airSample
      BY <1>2, <3>1, <3>2, <3>3
    <3>5. \A n \in previous + 1..strokes : n \in 1..strokes
      BY <1>2, <2>2
    <3> QED
      BY <1>2, <3>1, <3>2, <3>3, <3>4, <3>5
  <2>3. previous > 0 => /\ previous <= strokes
                        /\ \A i \in 1..Len(poses) :
                             poses[i].place > 0 => previous <= poses[i].place
    BY DEF Line
  <2> HIDE DEF head
  <2> QED
    BY <1>1, <2>1, <2>2, <2>3 DEF Line
<1> QED
  BY <1>3, <1>4

LEMMA LineStep ==
  ASSUME TypeOK, Pen, Contacts, Poses, Line, [Next]_vars
  PROVE  Line'
<1>1. /\ strokes \in Nat /\ sample \in Nat /\ told \in Nat
      /\ airSample \in Nat /\ previous \in Int /\ pen \in Int
      /\ gaps \in Seq(Nat) /\ Len(gaps) = strokes
      /\ \A n \in 1..strokes : gaps[n] \in Nat
      /\ poses \in Seq(Pose) /\ Len(poses) \in Nat
      /\ told <= sample
  <2>1. told <= Published /\ Published <= sample
    BY Types DEF Contacts, Published
  <2> QED
    BY <2>1, Types DEF Pen
<1>2. ASSUME UNCHANGED <<poses, previous, strokes, gaps, seen, told>>,
             timely' => timely,
             airSample' \in {0, airSample, sample + 1}
      PROVE  Line'
  BY <1>1, <1>2 DEF Line
<1>3. CASE Lift \/ Fly \/ LookFails
  <2>1. /\ UNCHANGED <<poses, previous, strokes, gaps, seen, told, timely>>
        /\ airSample' = 0 \/ airSample' = airSample \/ LookFails
    BY <1>3 DEF Lift, Fly, LookFails, world, topics, view, sampled, lag
  <2>2. LookFails => airSample' \in {airSample, sample + 1}
    BY DEF LookFails
  <2> QED
    BY <1>2, <2>1, <2>2
<1>4. CASE Tell \/ (\E b \in BOOLEAN : GatewayTells(b))
  BY <1>2, <1>4 DEF Tell, GatewayTells, world, view, sampled
<1>5. CASE UNCHANGED vars
  BY <1>2, <1>5 DEF vars, world, topics, view, sampled, lag
<1>6. CASE Land
  <2>1. /\ UNCHANGED <<poses, previous, told, timely>>
        /\ strokes' = strokes + 1 /\ airSample' = 0
        /\ gaps' = Append(gaps, airSample)
        /\ seen' => seen /\ (strokes = 0 \/ airSample > 0)
    BY <1>6 DEF Land, topics, view, lag
  <2>2. /\ gaps'[strokes + 1] = airSample
        /\ \A n \in 1..strokes : gaps'[n] = gaps[n]
    BY <1>1, <2>1
  <2>3. ASSUME previous > 0, timely, seen', NEW n \in previous + 1..strokes'
        PROVE  told < gaps'[n]
    <3>1. previous <= strokes /\ strokes > 0 /\ seen /\ airSample > 0
      BY <1>1, <2>1, <2>3 DEF Line
    <3>2. /\ told < airSample
          /\ \A k \in previous + 1..strokes : told < gaps[k]
      BY <2>3, <3>1 DEF Line
    <3>3. CASE n = strokes + 1
      BY <2>2, <3>2, <3>3
    <3>4. CASE n # strokes + 1
      <4>1. n \in previous + 1..strokes /\ n \in 1..strokes
        BY <1>1, <2>1, <2>3, <3>4
      <4> QED
        BY <2>2, <3>2, <4>1
    <3> QED
      BY <3>3, <3>4
  <2> QED
    BY <1>1, <2>1, <2>3 DEF Line
<1>7. CASE Look
  <2>1. /\ UNCHANGED <<previous, strokes, gaps, seen, told, timely, pen>>
        /\ sample' = sample + 1
        /\ airSample' = IF pen > 0 THEN airSample ELSE sample'
    BY <1>7 DEF Look, world, view, lag
  <2>2. ASSUME NEW i \in 1..Len(poses')
        PROVE  \/ poses'[i].place = pen
               \/ \E j \in 1..Len(poses) : poses'[i] = poses[j]
    BY PosesFrom
  <2>3. pen > 0 => pen = strokes
    BY DEF Pen
  <2>4. previous > 0 =>
          /\ previous <= strokes
          /\ \A i \in 1..Len(poses') :
               poses'[i].place > 0 => previous <= poses'[i].place
    BY <2>2, <2>3 DEF Line
  <2> QED
    BY <1>1, <2>1, <2>4 DEF Line
<1>8. CASE ContactCallback
  BY <1>8, LineTold
<1>9. CASE PoseCallback
  BY <1>9, LineDrawn
<1> QED
  BY <1>3, <1>4, <1>5, <1>6, <1>7, <1>8, <1>9 DEF Next

\* A timely pose of a stroke finds no line of an earlier one.
LEMMA NothingJoined ==
  ASSUME PaperInv, PoseCallback, timely', seen
  PROVE  ~Joins(poses[1].place)
<1> DEFINE place == poses[1].place
<1>1. TypeOK /\ Pen /\ Poses /\ Line
  BY DEF PaperInv
<1>2. 1 \in 1..Len(poses) /\ timely /\
      told \in {poses[1].sample - 1, poses[1].sample}
  BY <1>1, PoseHandled
<1>3. /\ previous \in Nat \cup {Nowhere} /\ place \in Int
      /\ poses[1].sample \in Nat /\ told \in Nat /\ strokes \in Nat
      /\ \A n \in 1..strokes : gaps[n] \in Nat
  BY <1>1, <1>2, Types DEF TypeOK, Pen
<1> SUFFICES ASSUME Joins(place) PROVE FALSE
  OBVIOUS
<1>4. previous > 0 /\ previous # place /\ place > 0
  BY <1>3 DEF Joins, Draws, Air, Nowhere
<1>5. previous <= place /\ \A n \in previous + 1..strokes : told < gaps[n]
  BY <1>1, <1>2, <1>4 DEF Line
<1>6. place <= strokes /\ gaps[place] < poses[1].sample
  BY <1>1, <1>2, <1>4 DEF Poses, Drawn
<1> HIDE DEF place
<1>7. place \in previous + 1..strokes /\ place \in 1..strokes
  BY <1>3, <1>4, <1>5, <1>6
<1>8. told < gaps[place] /\ gaps[place] \in Nat
  BY <1>3, <1>5, <1>7
<1> QED
  BY <1>2, <1>3, <1>6, <1>8

LEMMA PaperStep == PaperInv /\ [Next]_vars => PaperInv'
<1> SUFFICES ASSUME PaperInv, [Next]_vars PROVE PaperInv'
  OBVIOUS
<1>1. TypeOK /\ Pen /\ Contacts /\ Poses /\ Line /\ StrokesStayApart
  BY DEF PaperInv
<1>2. TypeOK' /\ Pen' /\ Contacts' /\ Poses' /\ Line'
  BY <1>1, TypeStep, PenStep, ContactsStep, PosesStep, LineStep
<1>3. StrokesStayApart'
  <2>1. CASE PoseCallback
    <3> SUFFICES ASSUME timely', seen', joined' PROVE FALSE
      BY DEF StrokesStayApart
    <3>1. /\ timely /\ seen' = seen
          /\ joined \/ Joins(poses[1].place)
      BY <1>1, <2>1, PoseHandled DEF sampled
    <3>2. ~Joins(poses[1].place)
      BY <2>1, <3>1, NothingJoined
    <3> QED
      BY <1>1, <3>1, <3>2 DEF StrokesStayApart
  <2>2. CASE ~PoseCallback
    <3>1. joined' = joined /\ (timely' => timely) /\ (seen' => seen)
      <4>1. CASE Lift \/ Fly \/ Look \/ LookFails \/ UNCHANGED vars
        <5>1. UNCHANGED <<seen, lag, drawing>>
          BY <4>1 DEF Lift, Fly, Look, LookFails, vars, sampled
        <5> QED
          BY <5>1 DEF lag, drawing
      <4>2. CASE Land
        <5>1. UNCHANGED <<lag, drawing>> /\ (seen' => seen)
          BY <4>2, Zenon DEF Land
        <5> QED
          BY <5>1 DEF lag, drawing
      <4>3. CASE Tell \/ (\E b \in BOOLEAN : GatewayTells(b))
        <5>1. UNCHANGED <<drawing, sampled>> /\ (timely' => timely)
          BY <4>3 DEF Tell, GatewayTells
        <5> QED
          BY <5>1 DEF sampled, drawing
      <4>4. CASE ContactCallback
        BY <4>4 DEF ContactCallback, sampled, drawing
      <4> QED
        BY <2>2, <4>1, <4>2, <4>3, <4>4 DEF Next
    <3> QED
      BY <1>1, <3>1 DEF StrokesStayApart
  <2> QED
    BY <2>1, <2>2
<1> QED
  BY <1>2, <1>3 DEF PaperInv

LEMMA PaperInit == Init => PaperInv
<1> SUFFICES ASSUME Init PROVE PaperInv
  OBVIOUS
<1>1. TypeOK
  BY TypeInit
<1>2. /\ pen = Off /\ strokes = 0 /\ sample = 0 /\ due = <<>>
      /\ poses = <<>> /\ contacts = <<>> /\ previous = Nowhere
      /\ airSample = 0 /\ gaps = <<>> /\ told = 0 /\ joined = FALSE
  BY DEF Init
<1>3. /\ Len(gaps) = 0 /\ Len(poses) = 0 /\ Len(contacts) = 0
      /\ ~IsDue /\ ~IsInkDue
  <2>1. <<>> # <<TRUE>> /\ Len(<<>>) = 0
    OBVIOUS
  <2> QED
    BY <1>2, <2>1, Zenon DEF IsDue, IsInkDue
<1>4. Pen
  BY <1>2, <1>3 DEF Pen, Off
<1>5. Contacts
  <2>1. Published = 0
    BY <1>2, <1>3 DEF Published
  <2> QED
    BY <1>2, <1>3, <2>1 DEF Contacts, Complete, Ordered, OfStrokes
<1>6. Poses /\ Line /\ StrokesStayApart
  BY <1>2, <1>3 DEF Poses, Line, StrokesStayApart, Nowhere
<1> QED
  BY <1>1, <1>4, <1>5, <1>6 DEF PaperInv

\* For queues of any size: no line of the paper view joins two strokes as long
\* as the samples are timely and every lift was sampled, whether or not the
\* gateway reports no contact beside the monitor.
THEOREM NeverJoined == Spec => []StrokesStayApart
<1>1. PaperInv => StrokesStayApart
  BY DEF PaperInv
<1> QED
  BY <1>1, PaperInit, PaperStep, PTL DEF Spec

(***************************************************************************)
(* The ink of a stroke, as long as the gateway is silent.                  *)
(***************************************************************************)

\* The pen wrote at sample k, which the contact of that sample says: where it is
\* due, on its way, or told.
InContact(k) ==
  /\ sample = k /\ IsDue => IsInkDue
  /\ \A i \in 1..Len(contacts) : contacts[i].sample = k => contacts[i].value
  /\ told = k => contact

Numbered == \A i \in 1..Len(contacts) : contacts[i].sample # 0

\* The poses of a stroke on their way were sampled in contact, ...
PosesTouch ==
  \A i \in 1..Len(poses) : poses[i].place > 0 => InContact(poses[i].sample)

\* ... and so were those of the row, ...
RowTouches ==
  run.pose.place > 0 =>
    \A k \in run.pose.sample - run.poses + 1 .. run.pose.sample : InContact(k)

\* ... and unless the contacts have overtaken the poses, a row of two has begun
\* its line, which the next pose extends.
Even ==
  \/ told <= run.pose.sample
  \/ /\ told = run.pose.sample + 1
     /\ \E i \in 1..Len(poses) : poses[i].sample = told /\ poses[i].place > 0

RowHasLine ==
  run.pose.place > 0 /\ run.poses >= 2 =>
    /\ run.pose.sample - 1 <= told
    /\ Even => previous # Nowhere

Counted == run.poses <= run.pose.sample /\ run.pose.sample <= sample

Row ==
  /\ Counted
  /\ timely /\ others = 0 =>
       Numbered /\ PosesTouch /\ RowTouches /\ RowHasLine

RowInv == PaperInv /\ Row /\ StrokesLeaveInk

\* Without the gateway, a step of the monitor or of the view.
LEMMA Silent ==
  ASSUME TypeOK, [Next]_vars, timely', others' = 0
  PROVE  /\ timely /\ others = 0
         /\ \/ Lift \/ Fly \/ Land \/ UNCHANGED vars
            \/ Look \/ LookFails \/ Tell
            \/ ContactCallback \/ PoseCallback
<1>1. others \in Nat
  BY DEF TypeOK
<1>2. ASSUME NEW b \in BOOLEAN, GatewayTells(b) PROVE FALSE
  <2>1. others' = others + 1
    BY <1>2 DEF GatewayTells
  <2> QED
    BY <1>1, <2>1
<1>3. CASE Lift \/ Fly \/ Land \/ Look \/ LookFails \/ UNCHANGED vars
  <2>1. UNCHANGED lag
    BY <1>3 DEF Lift, Fly, Land, Look, LookFails, vars
  <2> QED
    BY <1>3, <2>1 DEF lag
<1>4. CASE Tell
  BY <1>4, Zenon DEF Tell
<1>5. CASE ContactCallback
  BY <1>5 DEF ContactCallback
<1>6. CASE PoseCallback
  BY <1>6, PoseHandled
<1> QED
  BY <1>2, <1>3, <1>4, <1>5, <1>6 DEF Next

\* A contact that is timely joins all the others.
LEMMA TellTimely ==
  ASSUME TypeOK, Tell, timely'
  PROVE  /\ Len(contacts') = Len(contacts) + 1 /\ Len(contacts) \in Nat
         /\ contacts'[Len(contacts) + 1].sample = sample
         /\ IsInkDue => contacts'[Len(contacts) + 1].value = TRUE
         /\ \A i \in 1..Len(contacts) : contacts'[i] = contacts[i]
<1> DEFINE m == [sample |-> sample, value |-> due[1]]
<1>1. contacts' = Queued(contacts, m) /\ Len(contacts) < QueueSize
  BY Zenon DEF Tell
<1>2. contacts \in Seq(Contact) /\ Len(contacts) \in Nat
  BY Types
<1>3. IsInkDue => due[1] = TRUE
  <2>1. <<TRUE>>[1] = TRUE
    OBVIOUS
  <2> QED
    BY <2>1, Zenon DEF IsInkDue
<1>4. m.sample = sample /\ (IsInkDue => m.value = TRUE)
  BY <1>3
<1> HIDE DEF m
<1>5. Queued(contacts, m) = Append(contacts, m)
  BY <1>1, <1>2, QueueAssumption DEF Queued
<1>6. /\ Len(Append(contacts, m)) = Len(contacts) + 1
      /\ Append(contacts, m)[Len(contacts) + 1] = m
      /\ \A i \in 1..Len(contacts) : Append(contacts, m)[i] = contacts[i]
  BY <1>2
<1> QED
  BY <1>1, <1>2, <1>4, <1>5, <1>6

LEMMA TouchStep ==
  ASSUME TypeOK, Contacts, Numbered, [Next]_vars, timely', others' = 0,
         NEW k \in Nat, k <= sample, InContact(k)
  PROVE  InContact(k)'
<1> USE DEF InContact
<1>1. /\ timely /\ others = 0
      /\ \/ Lift \/ Fly \/ Land \/ UNCHANGED vars
         \/ Look \/ LookFails \/ Tell
         \/ ContactCallback \/ PoseCallback
  BY Silent
<1>2. sample \in Nat /\ told \in Nat /\ Len(contacts) \in Nat
  BY Types
<1>3. due' = due => (IsDue' <=> IsDue) /\ (IsInkDue' <=> IsInkDue)
  BY TellsDue
<1>4. CASE Lift \/ Fly \/ Land \/ PoseCallback \/ UNCHANGED vars
  <2>1. UNCHANGED <<sample, due, contacts, told, contact>>
    <3>1. CASE PoseCallback
      BY <3>1, PoseHandled DEF monitor
    <3>2. CASE Lift \/ Fly \/ Land \/ UNCHANGED vars
      <4>1. UNCHANGED <<monitor, topics, view, lag>>
        BY <3>2 DEF Lift, Fly, Land, vars
      <4> QED
        BY <4>1 DEF monitor, topics, view, lag
    <3> QED
      BY <1>4, <3>1, <3>2
  <2> QED
    BY <1>3, <2>1
<1>5. CASE Look \/ LookFails
  <2>1. UNCHANGED <<contacts, told, contact>> /\ sample' = sample + 1
    BY <1>5 DEF Look, LookFails, topics, view, lag
  <2> QED
    BY <1>2, <2>1
<1>6. CASE Tell
  <2>1. UNCHANGED <<sample, told, contact>>
    BY <1>6 DEF Tell, view
  <2>2. ~IsDue' /\ IsDue
    BY <1>6, TellsDue
  <2>3. /\ Len(contacts') = Len(contacts) + 1
        /\ contacts'[Len(contacts) + 1].sample = sample
        /\ IsInkDue => contacts'[Len(contacts) + 1].value = TRUE
        /\ \A i \in 1..Len(contacts) : contacts'[i] = contacts[i]
    BY <1>6, TellTimely
  <2>4. \A i \in 1..Len(contacts') :
          i \in 1..Len(contacts) \/ i = Len(contacts) + 1
    BY <1>2, <2>3
  <2>5. ASSUME NEW i \in 1..Len(contacts'), contacts'[i].sample = k
        PROVE  contacts'[i].value
    BY <2>2, <2>3, <2>4, <2>5
  <2> QED
    BY <2>1, <2>2, <2>5
<1>7. CASE ContactCallback
  <2>1. /\ contacts # <<>> /\ Len(contacts) \in Nat \ {0}
        /\ \A i \in 1..Len(contacts') :
             i + 1 \in 1..Len(contacts) /\ contacts'[i] = contacts[i + 1]
        /\ contact' = contacts[1].value
        /\ told' = IF timely /\ contacts[1].sample # 0
                     THEN contacts[1].sample ELSE told
        /\ UNCHANGED <<sample, due>>
    BY <1>7, ContactHandled DEF monitor
  <2>2. 1 \in 1..Len(contacts)
    BY <2>1
  <2>3. told' = contacts[1].sample
    BY <1>1, <2>1, <2>2 DEF Numbered
  <2> QED
    BY <1>3, <2>1, <2>2, <2>3
<1> QED
  BY <1>1, <1>4, <1>5, <1>6, <1>7

LEMMA RunType ==
  ASSUME TypeOK
  PROVE  /\ run.pose.sample \in Nat /\ run.pose.place \in Int
         /\ run.poses \in Nat
<1>1. run.pose \in Pose /\ run.poses \in Nat
  BY DEF TypeOK
<1> QED
  BY <1>1 DEF Pose, Places, Off

\* A row begins, or goes on with its stroke's next sample.
LEMMA RunIs ==
  ASSUME TypeOK, NEW pose \in Pose
  PROVE  /\ RunWith(pose).pose = pose
         /\ \/ RunWith(pose).poses = 1
            \/ /\ RunWith(pose).poses = run.poses + 1
               /\ pose.place = run.pose.place
               /\ pose.sample = run.pose.sample + 1
               /\ run.inked => RunWith(pose).inked
         /\ Draws(pose.place) => RunWith(pose).inked
<1> DEFINE inRow == /\ pose.place = run.pose.place
                    /\ pose.sample = run.pose.sample + 1
           n == IF inRow THEN run.poses + 1 ELSE 1
           drawn == Draws(pose.place)
           inked == (inRow /\ run.inked) \/ drawn
<1>1. RunWith(pose) = [pose |-> pose, poses |-> n, inked |-> inked]
  BY DEF RunWith
<1>2. n = 1 \/ (inRow /\ n = run.poses + 1 /\ (run.inked => inked))
  OBVIOUS
<1>3. drawn => inked
  OBVIOUS
<1> HIDE DEF n, inked
<1>4. /\ RunWith(pose).pose = pose /\ RunWith(pose).poses = n
      /\ RunWith(pose).inked = inked
  BY <1>1
<1> QED
  BY <1>2, <1>3, <1>4, Zenon

LEMMA CountedStep ==
  ASSUME PaperInv, Counted, [Next]_vars
  PROVE  Counted'
<1>1. /\ TypeOK /\ run.pose.sample \in Nat /\ run.poses \in Nat
      /\ sample \in Nat
  BY RunType, Types DEF PaperInv
<1>2. CASE PoseCallback
  <2>1. /\ poses[1] \in Pose /\ 1 \in 1..Len(poses) /\ sample' = sample
        /\ run' = RunWith(poses[1]) \/ run' = run
    BY <1>1, <1>2, PoseHandled DEF monitor
  <2>2. poses[1].sample \in 1..sample
    BY <2>1 DEF PaperInv, Poses, Drawn
  <2>3. CASE run' = RunWith(poses[1])
    <3>1. /\ run'.pose = poses[1]
          /\ \/ run'.poses = 1
             \/ /\ run'.poses = run.poses + 1
                /\ poses[1].sample = run.pose.sample + 1
      BY <1>1, <2>1, <2>3, RunIs
    <3> QED
      BY <1>1, <2>1, <2>2, <3>1 DEF Counted
  <2> QED
    BY <2>1, <2>3 DEF Counted
<1>3. CASE ~PoseCallback
  <2>1. run' = run /\ sample' \in {sample, sample + 1}
    <3>1. CASE Lift \/ Fly \/ Land \/ UNCHANGED vars
      <4>1. UNCHANGED <<monitor, drawing>>
        BY <3>1 DEF Lift, Fly, Land, vars
      <4> QED
        BY <4>1 DEF monitor, drawing
    <3>2. CASE Look \/ LookFails
      BY <3>2 DEF Look, LookFails, drawing
    <3>3. CASE Tell \/ (\E b \in BOOLEAN : GatewayTells(b))
      BY <3>3 DEF Tell, GatewayTells, drawing, monitor
    <3>4. CASE ContactCallback
      BY <3>4 DEF ContactCallback, drawing, monitor
    <3> QED
      BY <1>3, <3>1, <3>2, <3>3, <3>4 DEF Next
  <2> QED
    BY <1>1, <2>1 DEF Counted
<1> QED
  BY <1>2, <1>3

LEMMA NumberedStep ==
  ASSUME PaperInv, Numbered, [Next]_vars, timely', others' = 0
  PROVE  Numbered'
<1>1. /\ TypeOK /\ timely
      /\ \/ Lift \/ Fly \/ Land \/ UNCHANGED vars
         \/ Look \/ LookFails \/ Tell
         \/ ContactCallback \/ PoseCallback
  BY Silent DEF PaperInv
<1>2. CASE \/ Lift \/ Fly \/ Land \/ UNCHANGED vars
           \/ Look \/ LookFails \/ PoseCallback
  <2>1. contacts' = contacts
    <3>1. CASE PoseCallback
      BY <3>1 DEF PoseCallback
    <3> QED
      BY <1>2, <3>1 DEF Lift, Fly, Land, vars, topics, Look, LookFails
  <2> QED
    BY <2>1 DEF Numbered
<1>3. CASE Tell
  <2>1. sample # 0
    BY <1>1, <1>3, TellsDue DEF PaperInv, Pen
  <2>2. /\ Len(contacts') = Len(contacts) + 1 /\ Len(contacts) \in Nat
        /\ contacts'[Len(contacts) + 1].sample = sample
        /\ \A i \in 1..Len(contacts) : contacts'[i] = contacts[i]
    BY <1>1, <1>3, TellTimely
  <2>3. \A i \in 1..Len(contacts') :
          i \in 1..Len(contacts) \/ i = Len(contacts) + 1
    BY <2>2
  <2> QED
    BY <2>1, <2>2, <2>3 DEF Numbered
<1>4. CASE ContactCallback
  BY <1>1, <1>4, ContactHandled DEF Numbered
<1> QED
  BY <1>1, <1>2, <1>3, <1>4

\* A pose is published before the contact of its sample: it is the one due.
LEMMA LookTouches ==
  ASSUME PaperInv, Look, pen > 0, NEW k, k = sample + 1
  PROVE  InContact(k)'
<1> DEFINE down == pen > 0
<1>1. due' = <<down>> /\ down
  BY DEF Look
<1> HIDE DEF down
<1>2. IsInkDue'
  <2>1. down = TRUE
    BY <1>1
  <2> QED
    BY <1>1, <2>1, Zenon DEF IsInkDue
<1>3. /\ TypeOK /\ sample \in Nat /\ told \in Nat
      /\ \A i \in 1..Len(contacts) : contacts[i].sample \in Nat
      /\ told <= sample
      /\ \A i \in 1..Len(contacts) : contacts[i].sample <= sample
  <2>1. TypeOK /\ Contacts
    BY DEF PaperInv
  <2>2. Published <= sample /\ Published \in Int
    BY <2>1, Types DEF Published
  <2> QED
    BY <2>1, <2>2, Types DEF Contacts
<1>4. sample' = sample + 1 /\ UNCHANGED <<contacts, told>>
  BY DEF Look, lag
<1>5. told' # k
  BY <1>3, <1>4
<1>6. \A i \in 1..Len(contacts') : contacts'[i].sample # k
  BY <1>3, <1>4
<1> QED
  BY <1>2, <1>5, <1>6 DEF InContact

LEMMA PosesTouchStep ==
  ASSUME PaperInv, Numbered, PosesTouch, [Next]_vars, timely', others' = 0
  PROVE  PosesTouch'
<1>1. TypeOK /\ Contacts /\ Pen /\ Poses
  BY DEF PaperInv
<1> SUFFICES ASSUME NEW i \in 1..Len(poses'), poses'[i].place > 0,
                    NEW k, k = poses'[i].sample
             PROVE  InContact(k)'
  <2>1. ASSUME NEW i \in 1..Len(poses'), poses'[i].place > 0
        PROVE  InContact(poses[i].sample)'
    <3>1. PICK k : k = poses'[i].sample
      OBVIOUS
    <3>2. InContact(k)'
      BY <2>1, <3>1
    <3> QED
      BY <3>1, <3>2
  <2> QED
    BY <2>1 DEF PosesTouch
<1>2. CASE Look /\ poses'[i].place = pen /\ poses'[i].sample = sample + 1
  BY <1>2, LookTouches
<1>3. ASSUME NEW j \in 1..Len(poses), poses'[i] = poses[j]
      PROVE  InContact(k)'
  <2>1. k \in 1..sample
    BY <1>1, <1>3 DEF Poses, Drawn
  <2>2. InContact(k)
    BY <1>3 DEF PosesTouch
  <2>3. k \in Nat /\ k <= sample
    BY <2>1
  <2> QED
    BY <1>1, <2>2, <2>3, TouchStep
<1> QED
  BY <1>1, <1>2, <1>3, PosesFrom

\* Any step but a pose leaves the row alone.
LEMMA RowKept ==
  ASSUME [Next]_vars, ~PoseCallback
  PROVE  run' = run
<1>1. CASE Lift \/ Fly \/ Land \/ Look \/ LookFails \/ UNCHANGED vars
  <2>1. UNCHANGED drawing
    BY <1>1 DEF Lift, Fly, Land, Look, LookFails, vars
  <2> QED
    BY <2>1 DEF drawing
<1>2. CASE \/ Tell \/ ContactCallback
           \/ \E b \in BOOLEAN : GatewayTells(b)
  <2>1. UNCHANGED drawing
    BY <1>2 DEF Tell, GatewayTells, ContactCallback
  <2> QED
    BY <2>1 DEF drawing
<1> QED
  BY <1>1, <1>2 DEF Next

\* The pose that is handled begins a row, or goes on with it.
LEMMA RowAfterPose ==
  ASSUME TypeOK, PoseCallback, timely'
  PROVE  /\ poses[1] \in Pose /\ 1 \in 1..Len(poses)
         /\ told' = told /\ contact' = contact
         /\ told \in {poses[1].sample - 1, poses[1].sample}
         /\ previous' = PreviousAfter(poses[1].place)
         /\ run'.pose = poses[1]
         /\ \/ run'.poses = 1
            \/ /\ run'.poses = run.poses + 1
               /\ poses[1].place = run.pose.place
               /\ poses[1].sample = run.pose.sample + 1
               /\ run.inked => run'.inked
         /\ Draws(poses[1].place) => run'.inked
<1>1. /\ poses[1] \in Pose /\ Len(poses) \in Nat \ {0}
      /\ told \in {poses[1].sample - 1, poses[1].sample}
      /\ previous' = PreviousAfter(poses[1].place)
      /\ run' = RunWith(poses[1])
      /\ told' = told /\ contact' = contact
  BY PoseHandled
<1> QED
  BY <1>1, RunIs

LEMMA RowTouchesStep ==
  ASSUME PaperInv, Counted, Numbered, PosesTouch, RowTouches,
         [Next]_vars, timely', others' = 0
  PROVE  RowTouches'
<1>1. /\ TypeOK /\ Contacts /\ run.pose.sample \in Nat /\ run.poses \in Nat
      /\ sample \in Nat
  BY RunType, Types DEF PaperInv
<1>2. ASSUME NEW k \in Nat, k <= sample, InContact(k) PROVE InContact(k)'
  BY <1>1, <1>2, TouchStep
<1> SUFFICES ASSUME run'.pose.place > 0,
                    NEW k \in run'.pose.sample - run'.poses + 1
                              .. run'.pose.sample
             PROVE  InContact(k)'
  BY DEF RowTouches
<1>3. ASSUME run.pose.place > 0,
             k \in run.pose.sample - run.poses + 1 .. run.pose.sample
      PROVE  InContact(k)'
  <2>1. k \in Nat /\ k <= sample
    BY <1>1, <1>3 DEF Counted
  <2>2. InContact(k)
    BY <1>3 DEF RowTouches
  <2> QED
    BY <1>2, <2>1, <2>2
<1>4. CASE ~PoseCallback
  BY <1>3, <1>4, RowKept
<1>5. CASE PoseCallback
  <2>1. /\ poses[1] \in Pose /\ 1 \in 1..Len(poses)
        /\ run'.pose = poses[1]
        /\ \/ run'.poses = 1
           \/ /\ run'.poses = run.poses + 1
              /\ poses[1].place = run.pose.place
              /\ poses[1].sample = run.pose.sample + 1
    BY <1>1, <1>5, RowAfterPose
  <2>2. poses[1].sample \in 1..sample
    BY <2>1 DEF PaperInv, Poses, Drawn
  <2>3. CASE k = poses[1].sample
    <3>1. InContact(k) /\ k \in Nat /\ k <= sample
      BY <2>1, <2>2, <2>3 DEF PosesTouch
    <3> QED
      BY <1>2, <3>1
  <2>4. CASE k # poses[1].sample
    <3>1. /\ run.pose.place > 0
          /\ k \in run.pose.sample - run.poses + 1 .. run.pose.sample
      <4>1. k \in poses[1].sample - run'.poses + 1 .. poses[1].sample
        BY <2>1
      <4>2. run'.poses # 1
        BY <2>2, <2>4, <4>1
      <4>3. /\ run'.poses = run.poses + 1
            /\ poses[1].sample = run.pose.sample + 1
            /\ poses[1].place = run.pose.place
        BY <2>1, <4>2
      <4>4. k \in run.pose.sample - run.poses + 1 .. run.pose.sample
        BY <1>1, <2>4, <4>1, <4>3
      <4> QED
        BY <2>1, <4>3, <4>4
    <3> QED
      BY <1>3, <3>1
  <2> QED
    BY <2>3, <2>4
<1> QED
  BY <1>4, <1>5

\* In a row, the contact that the view knows is one of the row.
LEMMA RowIsInContact ==
  ASSUME PaperInv, PosesTouch, RowTouches, PoseCallback, timely',
         run'.pose.place > 0, run'.poses >= 2, Counted
  PROVE  contact /\ told <= run.pose.sample + 1 /\ run.pose.sample <= told
<1>1. /\ TypeOK /\ run.pose.sample \in Nat /\ run.poses \in Nat
  BY RunType DEF PaperInv
<1>2. /\ 1 \in 1..Len(poses) /\ run'.pose = poses[1]
      /\ told \in {poses[1].sample - 1, poses[1].sample}
      /\ run'.poses = run.poses + 1 /\ poses[1].place = run.pose.place
      /\ poses[1].sample = run.pose.sample + 1
  BY <1>1, RowAfterPose
<1>3. InContact(poses[1].sample)
  BY <1>2 DEF PosesTouch
<1>4. InContact(run.pose.sample)
  <2>1. run.pose.sample \in run.pose.sample - run.poses + 1 .. run.pose.sample
    BY <1>1, <1>2
  <2> QED
    BY <1>2, <2>1 DEF RowTouches
<1>5. told = poses[1].sample \/ told = run.pose.sample
  BY <1>1, <1>2
<1>6. contact
  BY <1>3, <1>4, <1>5 DEF InContact
<1> QED
  BY <1>1, <1>2, <1>5, <1>6

LEMMA RowHasLineStep ==
  ASSUME PaperInv, Counted, Numbered, PosesTouch, RowTouches, RowHasLine,
         [Next]_vars, timely', others' = 0
  PROVE  RowHasLine'
<1>1. /\ TypeOK /\ Contacts /\ run.pose.sample \in Nat /\ run.poses \in Nat
      /\ sample \in Nat /\ told \in Nat /\ run.pose.place \in Int
  BY RunType, Types DEF PaperInv
<1>2. /\ timely /\ others = 0
      /\ \/ Lift \/ Fly \/ Land \/ UNCHANGED vars
         \/ Look \/ LookFails \/ Tell
         \/ ContactCallback \/ PoseCallback
  BY <1>1, Silent
<1> SUFFICES ASSUME run'.pose.place > 0, run'.poses >= 2
             PROVE  /\ run'.pose.sample - 1 <= told'
                    /\ Even' => previous' # Nowhere
  BY DEF RowHasLine
<1>3. told <= sample
  <2>1. told <= Published /\ Published <= sample /\ Published \in Int
    BY <1>1, Types DEF Contacts, Published
  <2> QED
    BY <1>1, <2>1
<1>4. CASE \/ Lift \/ Fly \/ Land \/ UNCHANGED vars
           \/ Look \/ LookFails \/ Tell
  <2>1. UNCHANGED <<told, previous, run>>
    <3>1. UNCHANGED <<view, told, drawing>>
      BY <1>4 DEF Lift, Fly, Land, vars, Look, LookFails, Tell, lag
    <3> QED
      BY <3>1 DEF view, drawing
  <2>2. Even' => Even
    <3>1. ASSUME NEW i \in 1..Len(poses'), poses'[i].sample = told,
                 poses'[i].place > 0
          PROVE  \E j \in 1..Len(poses) :
                   poses[j].sample = told /\ poses[j].place > 0
      <4>1. \/ poses'[i].sample = sample + 1
            \/ \E j \in 1..Len(poses) : poses'[i] = poses[j]
        BY <1>1, PosesFrom
      <4>2. told # sample + 1
        BY <1>1, <1>3
      <4> QED
        BY <3>1, <4>1, <4>2
    <3> QED
      BY <2>1, <3>1 DEF Even
  <2> QED
    BY <2>1, <2>2 DEF RowHasLine
<1>5. CASE ContactCallback
  <2>1. /\ contacts # <<>> /\ 1 \in 1..Len(contacts)
        /\ contact' = contacts[1].value
        /\ previous' = IF contacts[1].value THEN previous ELSE Nowhere
        /\ told' = IF timely /\ contacts[1].sample # 0
                     THEN contacts[1].sample ELSE told
        /\ UNCHANGED <<poses, run>>
    BY <1>1, <1>5, ContactHandled DEF drawing
  <2>2. contacts[1].sample # 0
    BY <2>1 DEF Numbered
  <2>3. contacts[1].sample = told + 1 /\ told' = told + 1
    BY <1>1, <1>2, <2>1, <2>2, NextIsTold
  <2>4. run.pose.sample - 1 <= told /\ (Even => previous # Nowhere)
    BY <2>1 DEF RowHasLine
  <2>5. ASSUME Even' PROVE previous' # Nowhere
    <3>1. told <= run.pose.sample
      BY <1>1, <2>1, <2>3, <2>5 DEF Even
    <3>2. InContact(told + 1)
      <4>1. CASE told + 1 = run.pose.sample
        <5>1. run.pose.sample \in
                run.pose.sample - run.poses + 1 .. run.pose.sample
          BY <1>1, <2>1
        <5> QED
          BY <2>1, <4>1, <5>1 DEF RowTouches
      <4>2. CASE told = run.pose.sample
        <5>1. PICK i \in 1..Len(poses) :
                     poses[i].sample = told + 1 /\ poses[i].place > 0
          BY <1>1, <2>1, <2>3, <2>5, <4>2 DEF Even
        <5> QED
          BY <5>1 DEF PosesTouch
      <4> QED
        BY <1>1, <2>4, <3>1, <4>1, <4>2
    <3>3. contacts[1].value
      BY <2>1, <2>3, <3>2 DEF InContact
    <3>4. previous # Nowhere
      BY <2>4, <3>1 DEF Even
    <3> QED
      BY <2>1, <3>3, <3>4
  <2> QED
    BY <1>1, <2>1, <2>3, <2>4, <2>5
<1>6. CASE PoseCallback
  <2>1. /\ run'.pose = poses[1] /\ told' = told
        /\ told \in {poses[1].sample - 1, poses[1].sample}
        /\ previous' = PreviousAfter(poses[1].place) /\ poses[1] \in Pose
    BY <1>1, <1>2, <1>6, RowAfterPose
  <2>2. contact
    BY <1>6, RowIsInContact
  <2>3. previous' # Nowhere
    BY <1>1, <2>1, <2>2 DEF PreviousAfter, Air, Off, Nowhere, Pose, Places
  <2>4. poses[1].sample \in Nat
    BY <2>1 DEF Pose
  <2> QED
    BY <1>1, <2>1, <2>3, <2>4
<1> QED
  BY <1>2, <1>4, <1>5, <1>6

LEMMA RowStep == RowInv /\ [Next]_vars => RowInv'
<1> SUFFICES ASSUME RowInv, [Next]_vars PROVE RowInv'
  OBVIOUS
<1>1. PaperInv /\ Row /\ Counted /\ StrokesLeaveInk
  BY DEF RowInv, Row
<1>2. PaperInv' /\ Counted'
  BY <1>1, PaperStep, CountedStep
<1>3. ASSUME timely', others' = 0
      PROVE  Numbered /\ PosesTouch /\ RowTouches /\ RowHasLine
  <2>1. timely /\ others = 0
    BY <1>1, <1>3, Silent DEF PaperInv
  <2> QED
    BY <1>1, <2>1 DEF Row
<1>4. ASSUME timely', others' = 0
      PROVE  Numbered' /\ PosesTouch' /\ RowTouches' /\ RowHasLine'
  BY <1>1, <1>3, <1>4, NumberedStep, PosesTouchStep, RowTouchesStep,
     RowHasLineStep
<1>5. StrokesLeaveInk'
  <2> SUFFICES ASSUME timely', others' = 0, run'.pose.place > 0,
                      run'.poses >= 3
               PROVE  run'.inked
    BY DEF StrokesLeaveInk
  <2>1. /\ TypeOK /\ run.pose.sample \in Nat /\ run.poses \in Nat
        /\ timely /\ others = 0
    BY <1>1, RunType, Silent DEF PaperInv
  <2>2. CASE ~PoseCallback
    BY <1>1, <2>1, <2>2, RowKept DEF StrokesLeaveInk
  <2>3. CASE PoseCallback
    <3>1. /\ 1 \in 1..Len(poses) /\ run'.pose = poses[1]
          /\ told \in {poses[1].sample - 1, poses[1].sample}
          /\ run'.poses = run.poses + 1
          /\ poses[1].place = run.pose.place
          /\ poses[1].sample = run.pose.sample + 1
          /\ Draws(poses[1].place) => run'.inked
      BY <2>1, <2>3, RowAfterPose
    <3>2. contact
      <4>1. run'.poses >= 2
        BY <2>1, <3>1
      <4> QED
        BY <1>1, <1>3, <2>3, <4>1, RowIsInContact
    <3>3. Even
      BY <2>1, <3>1 DEF Even
    <3>4. previous # Nowhere
      BY <1>3, <2>1, <3>1, <3>3 DEF RowHasLine
    <3> QED
      BY <3>1, <3>2, <3>4 DEF Draws, Off
  <2> QED
    BY <2>2, <2>3
<1> QED
  BY <1>2, <1>4, <1>5 DEF RowInv, Row

\* For queues of any size: a stroke that was sampled three times in a row, with
\* its samples in time and the gateway silent, has left ink on the paper.
THEOREM InkIsLeft == Spec => []StrokesLeaveInk
<1>1. Init => RowInv
  <2> SUFFICES ASSUME Init PROVE RowInv
    OBVIOUS
  <2>1. PaperInv
    BY PaperInit
  <2>2. /\ run.pose.place = Off /\ run.poses = 0 /\ run.pose.sample = 0
        /\ sample = 0 /\ poses = <<>> /\ contacts = <<>>
    BY DEF Init
  <2>3. Len(poses) = 0 /\ Len(contacts) = 0
    BY <2>2
  <2>4. Counted /\ RowTouches /\ RowHasLine /\ StrokesLeaveInk
    BY <2>2 DEF Counted, RowTouches, RowHasLine, StrokesLeaveInk, Off
  <2>5. Numbered /\ PosesTouch
    BY <2>3 DEF Numbered, PosesTouch
  <2> QED
    BY <2>1, <2>4, <2>5 DEF RowInv, Row
<1>2. RowInv => StrokesLeaveInk
  BY DEF RowInv
<1> QED
  BY <1>1, <1>2, RowStep, PTL DEF Spec

(***************************************************************************)
(* The ink plugin: type correctness.                                       *)
(***************************************************************************)

\* A line is open in contact only, and the plugin has seen the pen off the
\* paper since the last stroke began only while it is off the paper.
Frames ==
  /\ open => previousContact
  /\ framed => tip = Away /\ ~previousContact

LEMMA InkPoint ==
  ASSUME InkTypeOK, IsPenOnPaper
  PROVE  Ink \in Point /\ Ink.stroke = stroke /\ Ink.at = tip
BY DEF InkTypeOK, IsPenOnPaper, Ink, Point

LEMMA LinesAre ==
  ASSUME InkTypeOK
  PROVE  /\ lines \in Seq(Seq(Point)) /\ Len(lines) \in Nat
         /\ DOMAIN lines = 1..Len(lines) /\ stroke \in Nat
         /\ \A i \in 1..Len(lines) :
              /\ lines[i] \in Seq(Point) \ {<<>>}
              /\ Len(lines[i]) \in Nat \ {0}
              /\ DOMAIN lines[i] = 1..Len(lines[i])
              /\ \A p \in 1..Len(lines[i]) : lines[i][p].stroke \in Nat
<1>1. lines \in Seq(Seq(Point) \ {<<>>}) /\ stroke \in Nat
  BY DEF InkTypeOK
<1>2. lines \in Seq(Seq(Point)) /\ Len(lines) \in Nat
      /\ DOMAIN lines = 1..Len(lines)
  BY <1>1
<1>3. ASSUME NEW i \in 1..Len(lines)
      PROVE  /\ lines[i] \in Seq(Point) \ {<<>>}
             /\ Len(lines[i]) \in Nat \ {0}
             /\ DOMAIN lines[i] = 1..Len(lines[i])
             /\ \A p \in 1..Len(lines[i]) : lines[i][p].stroke \in Nat
  <2>1. lines[i] \in Seq(Point) \ {<<>>}
    BY <1>1
  <2>2. Len(lines[i]) \in Nat \ {0} /\ DOMAIN lines[i] = 1..Len(lines[i])
    BY <2>1
  <2>3. \A p \in 1..Len(lines[i]) : lines[i][p] \in Point
    BY <2>1
  <2> QED
    BY <2>1, <2>2, <2>3 DEF Point
<1> QED
  BY <1>1, <1>2, <1>3

\* A new line has one point.
LEMMA LineBegun ==
  ASSUME InkTypeOK, IsPenOnPaper, lines' = Append(lines, <<Ink>>)
  PROVE  /\ lines' \in Seq(Seq(Point) \ {<<>>})
         /\ Len(lines') = Len(lines) + 1 /\ Len(lines) \in Nat
         /\ \A i \in 1..Len(lines) : lines'[i] = lines[i]
         /\ lines'[Len(lines) + 1] = <<Ink>>
         /\ Len(<<Ink>>) = 1 /\ <<Ink>>[1] = Ink
<1>1. lines \in Seq(Seq(Point) \ {<<>>})
  BY DEF InkTypeOK
<1> DEFINE one == <<Ink>>
<1>2. Ink \in Point
  BY InkPoint
<1>3. one \in Seq(Point) \ {<<>>} /\ Len(one) = 1 /\ one[1] = Ink
  BY <1>2
<1> HIDE DEF one
<1>4. /\ Append(lines, one) \in Seq(Seq(Point) \ {<<>>})
      /\ Len(Append(lines, one)) = Len(lines) + 1 /\ Len(lines) \in Nat
      /\ \A i \in 1..Len(lines) : Append(lines, one)[i] = lines[i]
      /\ Append(lines, one)[Len(lines) + 1] = one
  BY <1>1, <1>3
<1> QED
  BY <1>3, <1>4 DEF one

LEMMA SeqExcept ==
  ASSUME NEW S, NEW s \in Seq(S), NEW n \in 1..Len(s), NEW x \in S
  PROVE  [s EXCEPT ![n] = x] \in Seq(S) /\ Len([s EXCEPT ![n] = x]) = Len(s)
OBVIOUS

\* The last line gets one point.
LEMMA LineExtended ==
  ASSUME InkTypeOK, IsPenOnPaper, lines # <<>>,
         lines' = [lines EXCEPT ![Len(lines)] = Append(@, Ink)]
  PROVE  /\ lines' \in Seq(Seq(Point) \ {<<>>})
         /\ Len(lines') = Len(lines) /\ Len(lines) \in Nat \ {0}
         /\ \A i \in 1..Len(lines) : i # Len(lines) => lines'[i] = lines[i]
         /\ Len(lines'[Len(lines)]) = Len(lines[Len(lines)]) + 1
         /\ \A p \in 1..Len(lines[Len(lines)]) :
              lines'[Len(lines)][p] = lines[Len(lines)][p]
         /\ lines'[Len(lines)][Len(lines[Len(lines)]) + 1] = Ink
<1> DEFINE n == Len(lines)
           longer == Append(lines[n], Ink)
<1>1. lines \in Seq(Seq(Point) \ {<<>>}) /\ n \in Nat \ {0}
  BY LinesAre DEF InkTypeOK
<1>2. n \in 1..Len(lines) /\ lines[n] \in Seq(Point)
  BY <1>1
<1>3. Ink \in Point
  BY InkPoint
<1>4. /\ longer \in Seq(Point) /\ Len(longer) = Len(lines[n]) + 1
      /\ \A p \in 1..Len(lines[n]) : longer[p] = lines[n][p]
      /\ longer[Len(lines[n]) + 1] = Ink /\ longer # <<>>
  BY <1>2, <1>3
<1>5. lines' = [lines EXCEPT ![n] = longer]
  OBVIOUS
<1> HIDE DEF longer
<1>6. /\ lines' \in Seq(Seq(Point) \ {<<>>}) /\ Len(lines') = n
      /\ lines'[n] = longer
      /\ \A i \in 1..n : i # n => lines'[i] = lines[i]
  <2>1. longer \in Seq(Point) \ {<<>>}
    BY <1>4
  <2> DEFINE L == Seq(Point) \ {<<>>}
  <2>2. longer \in L /\ lines \in Seq(L)
    BY <1>1, <2>1
  <2> HIDE DEF L
  <2>3. lines' \in Seq(L) /\ Len(lines') = n
    <3> HIDE DEF n
    <3>1. n \in 1..Len(lines) /\ Len(lines) = n
      BY <1>2 DEF n
    <3> QED
      BY ONLY <1>5, <2>2, <3>1, SeqExcept
  <2>4. /\ lines'[n] = longer
        /\ \A i \in 1..n : i # n => lines'[i] = lines[i]
    BY <1>1, <1>2, <1>5, <2>2
  <2> QED
    BY <2>3, <2>4 DEF L
<1> QED
  BY <1>1, <1>4, <1>6

\* The frames that draw: a line is begun, or the open one gets a point.
Begins ==
  /\ IsPenOnPaper /\ ~previousContact /\ open' = TRUE /\ last' = <<tip>>
  /\ lines' = Append(lines, <<Ink>>)

Extends ==
  /\ IsPenOnPaper /\ previousContact /\ open /\ open' = open
  /\ last' = <<tip>>
  /\ lines' = [lines EXCEPT ![Len(lines)] = Append(@, Ink)]

LEMMA FrameIs ==
  ASSUME Frame
  PROVE  /\ previousContact' <=> IsPenOnPaper
         /\ previousContact' = IsPenOnPaper
         /\ framed' = (framed \/ ~IsPenOnPaper)
         /\ UNCHANGED <<tip, stroke, rendered>>
         /\ \/ Begins
            \/ Extends
            \/ /\ UNCHANGED lines
               /\ \/ /\ IsPenOnPaper /\ ~previousContact
                     /\ open' = FALSE /\ UNCHANGED last
                  \/ IsPenOnPaper /\ previousContact /\ UNCHANGED <<open, last>>
                  \/ ~IsPenOnPaper /\ open' = FALSE /\ last' = <<>>
                  \/ /\ ~IsPenOnPaper /\ ~previousContact
                     /\ UNCHANGED <<open, last>>
<1>1. /\ previousContact' = IsPenOnPaper
      /\ framed' = (framed \/ ~IsPenOnPaper)
      /\ UNCHANGED <<tipAndStroke, rendered>>
  BY Zenon DEF Frame
<1>2. UNCHANGED <<tip, stroke>>
  BY <1>1 DEF tipAndStroke
<1>3. StartStroke /\ IsPenOnPaper /\ ~previousContact =>
        \/ Begins
        \/ /\ UNCHANGED lines /\ IsPenOnPaper /\ ~previousContact
           /\ open' = FALSE /\ UNCHANGED last
  BY DEF StartStroke, Begins
<1>4. AddPoint /\ IsPenOnPaper /\ previousContact =>
        Extends \/ UNCHANGED <<lines, open, last>>
  BY DEF AddPoint, Extends
<1>5. \/ IsPenOnPaper /\ ~previousContact /\ StartStroke
      \/ IsPenOnPaper /\ previousContact /\ AddPoint
      \/ ~IsPenOnPaper /\ previousContact /\ EndStroke
      \/ ~IsPenOnPaper /\ ~previousContact /\ UNCHANGED <<lines, open, last>>
  BY Zenon DEF Frame
<1>6. EndStroke => open' = FALSE /\ last' = <<>> /\ UNCHANGED lines
  BY DEF EndStroke
<1> QED
  BY <1>1, <1>2, <1>3, <1>4, <1>5, <1>6, Zenon

InkTypeInv == InkTypeOK /\ Frames

\* A step of the pen.
LEMMA TipStep ==
  ASSUME InkTypeInv, TipLands \/ TipMoves \/ TipLifts \/ UNCHANGED inkVars
  PROVE  InkTypeInv'
<1>1. UNCHANGED ink
  BY DEF TipLands, TipMoves, TipLifts, inkVars
<1>2. UNCHANGED <<previousContact, lines, open, last>>
  BY <1>1 DEF ink
<1>3. tip' \in Sheet \cup {Away} /\ stroke' \in Nat
  BY DEF TipLands, TipMoves, TipLifts, inkVars, tipAndStroke, InkTypeInv,
         InkTypeOK
<1>4. rendered' \in BOOLEAN /\ framed' \in BOOLEAN
  <2>1. rendered \in BOOLEAN /\ framed \in BOOLEAN
    BY DEF InkTypeInv, InkTypeOK
  <2> QED
    BY <2>1 DEF TipLands, TipMoves, TipLifts, inkVars
<1>5. InkTypeOK'
  BY <1>2, <1>3, <1>4 DEF InkTypeInv, InkTypeOK
<1>6. Frames'
  BY <1>2, SheetAssumption
  DEF Frames, InkTypeInv, TipLands, TipMoves, TipLifts, inkVars, tipAndStroke
<1> QED
  BY <1>5, <1>6 DEF InkTypeInv

LEMMA FrameStep ==
  ASSUME InkTypeInv, Frame
  PROVE  InkTypeInv'
<1>1. /\ InkTypeOK /\ Frames
      /\ previousContact \in BOOLEAN /\ open \in BOOLEAN
      /\ framed \in BOOLEAN /\ tip \in Sheet \cup {Away}
  BY DEF InkTypeInv, InkTypeOK
<1>2. /\ previousContact' = IsPenOnPaper
      /\ framed' = (framed \/ ~IsPenOnPaper)
      /\ UNCHANGED <<tip, stroke, rendered>>
      /\ \/ Begins
         \/ Extends
         \/ /\ UNCHANGED lines
            /\ \/ /\ IsPenOnPaper /\ ~previousContact
                  /\ open' = FALSE /\ UNCHANGED last
               \/ IsPenOnPaper /\ previousContact /\ UNCHANGED <<open, last>>
               \/ ~IsPenOnPaper /\ open' = FALSE /\ last' = <<>>
               \/ /\ ~IsPenOnPaper /\ ~previousContact
                  /\ UNCHANGED <<open, last>>
  BY FrameIs, Zenon
<1>3. previousContact' \in BOOLEAN /\ framed' \in BOOLEAN
  BY <1>1, <1>2 DEF IsPenOnPaper
<1>4. framed' => tip' = Away /\ ~previousContact'
  BY <1>1, <1>2, SheetAssumption DEF IsPenOnPaper, Frames
<1>5. SUFFICES /\ open' \in BOOLEAN /\ lines' \in Seq(Seq(Point) \ {<<>>})
               /\ last' \in {<<>>} \cup {<<p>> : p \in Sheet}
               /\ open' => lines' # <<>> /\ last' = <<Last(Last(lines')).at>>
               /\ ~open' => last' = <<>>
               /\ open' => previousContact'
  BY <1>1, <1>2, <1>3, <1>4 DEF InkTypeInv, InkTypeOK, Frames
<1>6. CASE Begins
  <2>1. /\ lines' \in Seq(Seq(Point) \ {<<>>})
        /\ Len(lines') = Len(lines) + 1 /\ Len(lines) \in Nat
        /\ lines'[Len(lines) + 1] = <<Ink>>
        /\ Len(<<Ink>>) = 1 /\ <<Ink>>[1] = Ink
    BY <1>1, <1>6, LineBegun DEF Begins
  <2>2. Last(Last(lines')) = Ink
    BY <2>1 DEF Last
  <2>3. Ink.at = tip /\ tip \in Sheet
    BY <1>1, <1>6, InkPoint DEF Begins, IsPenOnPaper
  <2>4. lines' # <<>>
    BY <2>1
  <2> QED
    BY <1>2, <1>6, <2>1, <2>2, <2>3, <2>4 DEF Begins
<1>7. CASE Extends
  <2>1. lines # <<>>
    BY <1>1, <1>7 DEF Extends, InkTypeOK
  <2>2. /\ lines' \in Seq(Seq(Point) \ {<<>>})
        /\ Len(lines') = Len(lines) /\ Len(lines) \in Nat \ {0}
        /\ Len(lines'[Len(lines)]) = Len(lines[Len(lines)]) + 1
        /\ lines'[Len(lines)][Len(lines[Len(lines)]) + 1] = Ink
    BY <1>1, <1>7, <2>1, LineExtended DEF Extends
  <2>3. Last(Last(lines')) = Ink
    BY <2>2 DEF Last
  <2>4. Ink.at = tip /\ tip \in Sheet
    BY <1>1, <1>7, InkPoint DEF Extends, IsPenOnPaper
  <2>5. lines' # <<>>
    BY <2>2
  <2> QED
    BY <1>1, <1>2, <1>7, <2>2, <2>3, <2>4, <2>5 DEF Extends
<1>8. CASE UNCHANGED lines /\ ~Begins /\ ~Extends
  <2>1. /\ lines \in Seq(Seq(Point) \ {<<>>})
        /\ last \in {<<>>} \cup {<<p>> : p \in Sheet}
        /\ open => lines # <<>> /\ last = <<Last(Last(lines)).at>>
        /\ ~open => last = <<>>
        /\ open => previousContact
    BY <1>1 DEF InkTypeOK, Frames
  <2>2. previousContact' <=> IsPenOnPaper
    BY <1>2
  <2>3. \/ open' = FALSE /\ last' = <<>>
        \/ /\ UNCHANGED <<open, last>>
           /\ \/ IsPenOnPaper
              \/ ~previousContact
    BY <1>2, <1>8, <2>1, Zenon
  <2>4. CASE open' = FALSE /\ last' = <<>>
    BY <1>8, <2>1, <2>4
  <2>5. CASE /\ UNCHANGED <<open, last>>
             /\ IsPenOnPaper \/ ~previousContact
    BY <1>1, <1>8, <2>1, <2>2, <2>5
  <2> QED
    BY <2>3, <2>4, <2>5
<1> QED
  BY <1>2, <1>6, <1>7, <1>8

LEMMA InkTypeStep == InkTypeInv /\ [InkNext]_inkVars => InkTypeInv'
BY TipStep, FrameStep DEF InkNext

LEMMA InkTypeInit == InkInit => InkTypeInv
<1>1. <<>> \in Seq(Seq(Point) \ {<<>>})
  OBVIOUS
<1> SUFFICES ASSUME InkInit PROVE InkTypeInv
  OBVIOUS
<1>2. /\ tip = Away /\ stroke = 0 /\ lines = <<>> /\ last = <<>>
      /\ previousContact = FALSE /\ open = FALSE
      /\ rendered = TRUE /\ framed = TRUE
  BY DEF InkInit
<1>3. {previousContact, open, rendered, framed} \subseteq BOOLEAN
  BY <1>2, Zenon
<1> QED
  BY <1>1, <1>2, <1>3 DEF InkTypeInv, InkTypeOK, Frames

\* The plugin keeps its state well formed: an open line has points, the last of
\* which is the last point drawn, and without a line no point is remembered.
THEOREM InkTypeCorrect == InkSpec => []InkTypeOK
<1>1. InkTypeInv => InkTypeOK
  BY DEF InkTypeInv
<1> QED
  BY <1>1, InkTypeInit, InkTypeStep, PTL DEF InkSpec

(***************************************************************************)
(* The ink plugin: a line for each stroke.                                 *)
(***************************************************************************)

\* The points of the lines are of strokes begun.  As long as every lift was
\* rendered, a stroke that no frame has seen has none of them, and the open line
\* is the present stroke's.
PointsOfStrokes ==
  \A i \in 1..Len(lines) : \A p \in 1..Len(lines[i]) :
    /\ lines[i][p].stroke <= stroke
    /\ rendered /\ ~previousContact /\ tip # Away =>
         lines[i][p].stroke < stroke
    /\ rendered /\ open /\ i = Len(lines) => lines[i][p].stroke = stroke

InkLinesInv == InkTypeInv /\ PointsOfStrokes /\ LinesOfOneStroke

\* LinesOfOneStroke, with the lines and their points counted.
OfOneStroke(ls) ==
  \A i \in 1..Len(ls), j \in 1..Len(ls) :
    \A p \in 1..Len(ls[i]), q \in 1..Len(ls[j]) :
      i = j <=> ls[i][p].stroke = ls[j][q].stroke

LEMMA OneStrokeIs ==
  ASSUME NEW ls \in Seq(Seq(Point) \ {<<>>})
  PROVE  /\ DOMAIN ls = 1..Len(ls)
         /\ \A i \in DOMAIN ls : DOMAIN ls[i] = 1..Len(ls[i])
         /\ (\A i \in DOMAIN ls, j \in DOMAIN ls :
                \A p \in DOMAIN ls[i], q \in DOMAIN ls[j] :
                  (i = j) = (ls[i][p].stroke = ls[j][q].stroke))
              <=> OfOneStroke(ls)
<1>1. DOMAIN ls = 1..Len(ls)
  OBVIOUS
<1>2. ASSUME NEW i \in DOMAIN ls PROVE DOMAIN ls[i] = 1..Len(ls[i])
  <2>1. ls[i] \in Seq(Point)
    BY <1>1
  <2> QED
    BY <2>1
<1> DEFINE Same(i, j, p, q) == ls[i][p].stroke = ls[j][q].stroke
           Apart == \A i \in DOMAIN ls, j \in DOMAIN ls :
                      \A p \in DOMAIN ls[i], q \in DOMAIN ls[j] :
                        (i = j) = Same(i, j, p, q)
<1>3. ASSUME Apart PROVE OfOneStroke(ls)
  <2> SUFFICES ASSUME NEW i \in 1..Len(ls), NEW j \in 1..Len(ls),
                      NEW p \in 1..Len(ls[i]), NEW q \in 1..Len(ls[j])
               PROVE  i = j <=> Same(i, j, p, q)
    BY DEF OfOneStroke
  <2>1. /\ i \in DOMAIN ls /\ j \in DOMAIN ls
        /\ p \in DOMAIN ls[i] /\ q \in DOMAIN ls[j]
    BY <1>1, <1>2
  <2> HIDE DEF Same
  <2> QED
    BY <1>3, <2>1, Zenon
<1>4. ASSUME OfOneStroke(ls) PROVE Apart
  <2> SUFFICES ASSUME NEW i \in DOMAIN ls, NEW j \in DOMAIN ls,
                      NEW p \in DOMAIN ls[i], NEW q \in DOMAIN ls[j]
               PROVE  (i = j) = Same(i, j, p, q)
    OBVIOUS
  <2>1. /\ i \in 1..Len(ls) /\ j \in 1..Len(ls)
        /\ p \in 1..Len(ls[i]) /\ q \in 1..Len(ls[j])
    BY <1>1, <1>2
  <2>2. i = j <=> Same(i, j, p, q)
    BY <1>4, <2>1 DEF OfOneStroke
  <2>3. Same(i, j, p, q) \in BOOLEAN /\ (i = j) \in BOOLEAN
    OBVIOUS
  <2> QED
    BY <2>2, <2>3
<1> QED
  BY <1>1, <1>2, <1>3, <1>4

LEMMA OneStrokeNow ==
  ASSUME InkTypeOK
  PROVE  LinesOfOneStroke <=> (rendered => OfOneStroke(lines))
<1>1. lines \in Seq(Seq(Point) \ {<<>>})
  BY DEF InkTypeOK
<1> QED
  BY <1>1, OneStrokeIs, Zenon DEF LinesOfOneStroke

LEMMA OneStrokeNext ==
  ASSUME InkTypeOK', rendered' => OfOneStroke(lines')
  PROVE  LinesOfOneStroke'
<1>1. lines' \in Seq(Seq(Point) \ {<<>>})
  BY DEF InkTypeOK
<1> QED
  BY <1>1, OneStrokeIs, Zenon DEF LinesOfOneStroke

LEMMA TipKeepsLines ==
  ASSUME InkLinesInv, TipLands \/ TipMoves \/ TipLifts \/ UNCHANGED inkVars
  PROVE  PointsOfStrokes' /\ LinesOfOneStroke'
<1>1. UNCHANGED <<lines, open, previousContact>>
  BY DEF TipLands, TipMoves, TipLifts, inkVars, ink
<1>2. /\ InkTypeOK /\ Frames /\ PointsOfStrokes /\ LinesOfOneStroke
      /\ stroke \in Nat
      /\ \A i \in 1..Len(lines) : \A p \in 1..Len(lines[i]) :
           lines[i][p].stroke \in Nat
  BY LinesAre DEF InkLinesInv, InkTypeInv
<1>3. CASE TipLands
  <2>1. stroke' = stroke + 1 /\ (rendered' => rendered /\ framed)
    BY <1>3, Zenon DEF TipLands
  <2>2. rendered' => rendered /\ ~open
    BY <1>2, <2>1 DEF Frames
  <2> QED
    BY <1>1, <1>2, <2>1, <2>2 DEF PointsOfStrokes, LinesOfOneStroke
<1>4. CASE TipMoves \/ TipLifts
  <2>1. UNCHANGED <<stroke, rendered>> /\ tip # Away
    BY <1>4, SheetAssumption DEF TipMoves, TipLifts
  <2> QED
    BY <1>1, <1>2, <2>1 DEF PointsOfStrokes, LinesOfOneStroke
<1>5. CASE UNCHANGED inkVars
  <2>1. UNCHANGED <<stroke, rendered, tip>>
    BY <1>5 DEF inkVars, tipAndStroke
  <2> QED
    BY <1>1, <1>2, <2>1 DEF PointsOfStrokes, LinesOfOneStroke
<1> QED
  BY <1>3, <1>4, <1>5

LEMMA BeginsApart ==
  ASSUME InkLinesInv, InkTypeOK', Frame, Begins
  PROVE  PointsOfStrokes' /\ LinesOfOneStroke'
<1> DEFINE n == Len(lines)
<1>1. /\ InkTypeOK /\ PointsOfStrokes /\ LinesOfOneStroke
      /\ stroke \in Nat /\ n \in Nat
      /\ \A i \in 1..n : \A p \in 1..Len(lines[i]) :
           lines[i][p].stroke \in Nat
      /\ \A i \in 1..n : Len(lines[i]) \in Nat
  BY LinesAre DEF InkLinesInv, InkTypeInv
<1>2. /\ previousContact' /\ UNCHANGED <<stroke, rendered>> /\ tip # Away
      /\ ~previousContact
  BY FrameIs, SheetAssumption DEF Begins, IsPenOnPaper
<1>3. /\ Len(lines') = n + 1
      /\ \A i \in 1..n : lines'[i] = lines[i]
      /\ lines'[n + 1] = <<Ink>> /\ Len(<<Ink>>) = 1 /\ <<Ink>>[1] = Ink
      /\ Ink.stroke = stroke
  BY <1>1, LineBegun, InkPoint DEF Begins
<1>4. Len(lines'[n + 1]) = 1 /\ lines'[n + 1][1].stroke = stroke
  BY <1>3
<1> HIDE DEF n
<1>5. \A i \in 1..Len(lines') : i \in 1..n \/ i = n + 1
  BY <1>1, <1>3
<1>6. ASSUME NEW i \in 1..n, NEW p \in 1..Len(lines'[i])
      PROVE  /\ p \in 1..Len(lines[i]) /\ i # n + 1
             /\ lines'[i][p] = lines[i][p]
             /\ lines[i][p].stroke <= stroke
             /\ lines[i][p].stroke \in Nat
             /\ rendered => lines[i][p].stroke < stroke
  BY <1>1, <1>2, <1>3 DEF PointsOfStrokes, n
<1>7. ASSUME NEW p \in 1..Len(lines'[n + 1])
      PROVE  lines'[n + 1][p].stroke = stroke
  BY <1>4
<1>8. PointsOfStrokes'
  <2> SUFFICES ASSUME NEW i \in 1..Len(lines'), NEW p \in 1..Len(lines'[i])
               PROVE  /\ lines'[i][p].stroke <= stroke
                      /\ i = n + 1 => lines'[i][p].stroke = stroke
    BY <1>2, <1>3 DEF PointsOfStrokes
  <2>1. CASE i \in 1..n
    <3>1. /\ lines'[i][p] = lines[i][p] /\ i # n + 1
          /\ lines[i][p].stroke <= stroke
      BY <1>6, <2>1
    <3> QED
      BY <3>1
  <2>2. CASE i = n + 1
    BY <1>1, <1>7, <2>2
  <2> QED
    BY <1>5, <2>1, <2>2
<1>9. LinesOfOneStroke'
  <2> SUFFICES ASSUME rendered,
                      NEW i \in 1..Len(lines'), NEW j \in 1..Len(lines'),
                      NEW p \in 1..Len(lines'[i]), NEW q \in 1..Len(lines'[j])
               PROVE  i = j <=> lines'[i][p].stroke = lines'[j][q].stroke
    <3>1. rendered => OfOneStroke(lines')
      BY Zenon DEF OfOneStroke
    <3> QED
      BY <1>2, <3>1, OneStrokeNext
  <2>1. i \in 1..n => /\ p \in 1..Len(lines[i]) /\ i # n + 1
                      /\ lines'[i][p] = lines[i][p]
                      /\ lines'[i][p].stroke # stroke
    <3> SUFFICES ASSUME i \in 1..n
                 PROVE  /\ p \in 1..Len(lines[i]) /\ i # n + 1
                        /\ lines'[i][p] = lines[i][p]
                        /\ lines'[i][p].stroke # stroke
      OBVIOUS
    <3>1. /\ p \in 1..Len(lines[i]) /\ i # n + 1
          /\ lines'[i][p] = lines[i][p]
          /\ lines[i][p].stroke \in Nat /\ lines[i][p].stroke < stroke
      BY <1>6
    <3> QED
      BY <1>1, <3>1
  <2>2. j \in 1..n => /\ q \in 1..Len(lines[j]) /\ j # n + 1
                      /\ lines'[j][q] = lines[j][q]
                      /\ lines'[j][q].stroke # stroke
    <3> SUFFICES ASSUME j \in 1..n
                 PROVE  /\ q \in 1..Len(lines[j]) /\ j # n + 1
                        /\ lines'[j][q] = lines[j][q]
                        /\ lines'[j][q].stroke # stroke
      OBVIOUS
    <3>1. /\ q \in 1..Len(lines[j]) /\ j # n + 1
          /\ lines'[j][q] = lines[j][q]
          /\ lines[j][q].stroke \in Nat /\ lines[j][q].stroke < stroke
      BY <1>6
    <3> QED
      BY <1>1, <3>1
  <2>3. i = n + 1 => lines'[i][p].stroke = stroke
    BY <1>7
  <2>4. j = n + 1 => lines'[j][q].stroke = stroke
    BY <1>7
  <2>5. CASE i \in 1..n /\ j \in 1..n
    <3>1. OfOneStroke(lines)
      BY <1>1, OneStrokeNow
    <3>2. i = j <=> lines[i][p].stroke = lines[j][q].stroke
      BY <2>1, <2>2, <2>5, <3>1 DEF n, OfOneStroke
    <3> QED
      BY <2>1, <2>2, <2>5, <3>2
  <2> QED
    BY <1>5, <2>1, <2>2, <2>3, <2>4, <2>5
<1> QED
  BY <1>8, <1>9

LEMMA ExtendsApart ==
  ASSUME InkLinesInv, InkTypeOK', Frame, Extends
  PROVE  PointsOfStrokes' /\ LinesOfOneStroke'
<1> DEFINE n == Len(lines)
           m == Len(lines[n])
<1>1. /\ InkTypeOK /\ PointsOfStrokes /\ LinesOfOneStroke
      /\ stroke \in Nat /\ n \in Nat
      /\ \A i \in 1..n : \A p \in 1..Len(lines[i]) :
           lines[i][p].stroke \in Nat
      /\ \A i \in 1..n : Len(lines[i]) \in Nat \ {0}
  BY LinesAre DEF InkLinesInv, InkTypeInv
<1>2. previousContact' /\ UNCHANGED <<stroke, rendered>> /\ open
  BY FrameIs DEF Extends
<1>3. /\ Len(lines') = n /\ n \in Nat \ {0}
      /\ \A i \in 1..n : i # n => lines'[i] = lines[i]
      /\ Len(lines'[n]) = m + 1
      /\ \A p \in 1..m : lines'[n][p] = lines[n][p]
      /\ lines'[n][m + 1] = Ink /\ Ink.stroke = stroke
  <2>1. lines # <<>>
    BY <1>1 DEF Extends, InkTypeOK
  <2> QED
    BY <1>1, <2>1, LineExtended, InkPoint DEF Extends
<1>4. n \in 1..n /\ m \in Nat \ {0}
  BY <1>1, <1>3
<1>5. ASSUME NEW i \in 1..n, NEW p \in 1..Len(lines[i])
      PROVE  /\ lines[i][p].stroke \in Nat
             /\ lines[i][p].stroke <= stroke
             /\ rendered /\ i = n => lines[i][p].stroke = stroke
  BY <1>1, <1>2 DEF PointsOfStrokes
<1> HIDE DEF n, m
\* The new point is of the stroke that its line has already.
<1>6. ASSUME NEW i \in 1..n, NEW p \in 1..Len(lines'[i])
      PROVE  \/ p \in 1..Len(lines[i]) /\ lines'[i][p] = lines[i][p]
             \/ i = n /\ lines'[i][p].stroke = stroke
  <2>1. CASE i # n
    BY <1>3, <2>1
  <2>2. CASE i = n /\ p # m + 1
    <3>1. p \in 1..m
      BY <1>3, <1>4, <2>2
    <3> QED
      BY <1>3, <2>2, <3>1 DEF m
  <2>3. CASE i = n /\ p = m + 1
    BY <1>3, <2>3
  <2> QED
    BY <2>1, <2>2, <2>3
<1>7. ASSUME NEW i \in 1..n, NEW p \in 1..Len(lines'[i])
      PROVE  /\ lines'[i][p].stroke <= stroke
             /\ rendered /\ i = n => lines'[i][p].stroke = stroke
             /\ rendered => \E r \in 1..Len(lines[i]) :
                              lines'[i][p].stroke = lines[i][r].stroke
  <2>1. CASE p \in 1..Len(lines[i]) /\ lines'[i][p] = lines[i][p]
    BY <1>5, <2>1
  <2>2. CASE i = n /\ lines'[i][p].stroke = stroke
    <3>1. 1 \in 1..Len(lines[i])
      BY <1>4, <2>2 DEF m
    <3>2. rendered => lines[i][1].stroke = stroke
      BY <1>5, <2>2, <3>1
    <3>3. stroke <= stroke
      BY <1>1
    <3> QED
      BY <2>2, <3>1, <3>2, <3>3
  <2> QED
    BY <1>6, <2>1, <2>2
<1>8. PointsOfStrokes'
  BY <1>2, <1>3, <1>7 DEF PointsOfStrokes
<1>9. LinesOfOneStroke'
  <2> SUFFICES ASSUME rendered,
                      NEW i \in 1..n, NEW j \in 1..n,
                      NEW p \in 1..Len(lines'[i]), NEW q \in 1..Len(lines'[j])
               PROVE  i = j <=> lines'[i][p].stroke = lines'[j][q].stroke
    <3>1. rendered => OfOneStroke(lines')
      BY <1>3 DEF OfOneStroke
    <3> QED
      BY <1>2, <3>1, OneStrokeNext
  <2>1. PICK r \in 1..Len(lines[i]) :
               lines'[i][p].stroke = lines[i][r].stroke
    BY <1>7
  <2>2. PICK s \in 1..Len(lines[j]) :
               lines'[j][q].stroke = lines[j][s].stroke
    BY <1>7
  <2>3. OfOneStroke(lines)
    BY <1>1, OneStrokeNow
  <2>4. i = j <=> lines[i][r].stroke = lines[j][s].stroke
    BY <2>3 DEF n, OfOneStroke
  <2> QED
    BY <2>1, <2>2, <2>4
<1> QED
  BY <1>8, <1>9

LEMMA InkLinesStep == InkLinesInv /\ [InkNext]_inkVars => InkLinesInv'
<1> SUFFICES ASSUME InkLinesInv, [InkNext]_inkVars PROVE InkLinesInv'
  OBVIOUS
<1>1. InkTypeInv'
  BY InkTypeStep DEF InkLinesInv
<1>2. PointsOfStrokes' /\ LinesOfOneStroke'
  <2>1. CASE TipLands \/ TipMoves \/ TipLifts \/ UNCHANGED inkVars
    BY <2>1, TipKeepsLines
  <2>2. CASE Frame
    <3>1. InkTypeOK'
      BY <1>1 DEF InkTypeInv
    <3>2. CASE Begins
      BY <2>2, <3>1, <3>2, BeginsApart
    <3>3. CASE Extends
      BY <2>2, <3>1, <3>3, ExtendsApart
    <3>4. CASE ~Begins /\ ~Extends
      <4>1. /\ InkTypeInv /\ PointsOfStrokes /\ LinesOfOneStroke
            /\ open \in BOOLEAN
        BY DEF InkLinesInv, InkTypeInv, InkTypeOK
      <4>2. /\ UNCHANGED <<lines, stroke, rendered, tip>>
            /\ open' => open
            /\ previousContact' <=> IsPenOnPaper
        <5>1. open' => open
          BY <2>2, <3>4, FrameIs, Zenon
        <5> QED
          BY <2>2, <3>4, <5>1, FrameIs
      <4>3. ~previousContact' => tip = Away
        BY <4>1, <4>2 DEF IsPenOnPaper, InkTypeInv, InkTypeOK
      <4> QED
        BY <4>1, <4>2, <4>3 DEF PointsOfStrokes, LinesOfOneStroke
    <3> QED
      BY <3>2, <3>3, <3>4
  <2> QED
    BY <2>1, <2>2 DEF InkNext
<1> QED
  BY <1>1, <1>2 DEF InkLinesInv

\* For any sheet and any movement of the pen: if every lift is rendered, a line
\* has the ink of one stroke and no stroke is in two lines.
THEOREM LinesApart == InkSpec => []LinesOfOneStroke
<1>1. InkInit => InkLinesInv
  <2> SUFFICES ASSUME InkInit PROVE InkLinesInv
    OBVIOUS
  <2>1. lines = <<>> /\ Len(lines) = 0 /\ DOMAIN lines = {}
    BY DEF InkInit
  <2> QED
    BY <2>1, InkTypeInit DEF InkLinesInv, PointsOfStrokes, LinesOfOneStroke
<1>2. InkLinesInv => LinesOfOneStroke
  BY DEF InkLinesInv
<1> QED
  BY <1>1, <1>2, InkLinesStep, PTL DEF InkSpec
=============================================================================
