------------------------------ MODULE PaperView ------------------------------
(***************************************************************************)
(* The picture of what the pen does.  pen_monitor.py samples the pen and   *)
(* publishes each sample on two topics, pose and contact; paper_view.py    *)
(* draws from them, with one subscriber thread for each.                   *)
(*                                                                         *)
(* What the picture has to keep apart is strokes.  A place of the pen is   *)
(* the number of the stroke it is drawing, Air while it is lifted over the *)
(* sheet, or Off beside the sheet.  Pixels, colours, the window and the    *)
(* saved file are left out.                                                *)
(***************************************************************************)
EXTENDS Integers, Sequences

CONSTANTS
  QueueSize,    (* Messages a topic keeps for the paper view.               *)
  MaxSamples,   (* Bound: samples of the monitor.                           *)
  MaxStrokes,   (* Bound: strokes of the pen.                               *)
  MaxOthers     (* Bound: contacts that the force gateway publishes.        *)

ASSUME QueueAssumption == QueueSize \in Nat \ {0}

Air == 0
Off == -1
Nowhere == -2

VARIABLES
  pen,          (* The place of the pen.                                    *)
  strokes,      (* How many strokes it has begun.                           *)
  sample,       (* The monitor's loop: number of the sample, and            *)
  due,          (* the contact that is still to be published, if any.       *)
  poses,        (* Messages of /vla/pen_pose: sample number and place.      *)
  contacts,     (* Messages of /vla/pen_contact: sample number and value;   *)
                (* the gateway's have no sample, 0.                         *)
  contact,      (* PaperView.contact.                                       *)
  previous,     (* PaperView.previous_pixel: the last stroke in the line    *)
                (* that ends there (Air if none), or Nowhere.               *)
  airSample,    (* History: the last sample since the pen was lifted, or 0, *)
  gaps,         (* and for each stroke the one before it.                   *)
  others,       (* History: how many contacts came from the gateway.        *)
  told,         (* History: number of the last contact the view handled,    *)
                (* while timely.                                            *)
  timely,       (* History: the monitor's samples reached the view in their *)
                (* order, no contact of them got lost, and the gateway      *)
                (* never reported contact.                                  *)
  joined,       (* History: the view joined two strokes by a line.          *)
  run,          (* History: the last pose the view handled, how many of its *)
                (* stroke came in a row, and whether they drew a line.      *)
  seen          (* History: the monitor sampled every lift.                 *)

world   == <<pen, strokes>>
monitor == <<sample, due>>
topics  == <<poses, contacts>>
view    == <<contact, previous>>
drawing == <<joined, run>>
sampled == <<airSample, gaps, seen>>
lag     == <<others, told, timely>>
vars    == <<world, monitor, topics, view, sampled, lag, drawing>>

Places == Nat \cup {Off}
Pose    == [sample : Nat, place : Places]
Contact == [sample : Nat, value : BOOLEAN]

TypeOK ==
  /\ pen \in Places
  /\ strokes \in Nat /\ sample \in Nat /\ told \in Nat /\ others \in Nat
  /\ due \in {<<>>, <<TRUE>>, <<FALSE>>}
  /\ poses \in Seq(Pose) /\ Len(poses) <= QueueSize
  /\ contacts \in Seq(Contact) /\ Len(contacts) <= QueueSize
  /\ contact \in BOOLEAN
  /\ previous \in Nat \cup {Nowhere}
  /\ {timely, joined, seen} \subseteq BOOLEAN
  /\ run \in [pose : Pose, poses : Nat, inked : BOOLEAN]
  /\ airSample \in Nat /\ gaps \in Seq(Nat)

Init ==
  /\ pen = Off
  /\ strokes = 0
  /\ sample = 0
  /\ due = <<>>
  /\ poses = <<>>
  /\ contacts = <<>>
  /\ contact = FALSE
  /\ previous = Nowhere
  /\ airSample = 0
  /\ gaps = <<>>
  /\ others = 0
  /\ told = 0
  /\ timely = TRUE
  /\ joined = FALSE
  /\ run = [pose  |-> [sample |-> 0, place |-> Off],
            poses |-> 0,
            inked |-> FALSE]
  /\ seen = TRUE

(***************************************************************************)
(* The pen.                                                                *)
(***************************************************************************)

Lift ==
  /\ pen > 0
  /\ pen' \in {Air, Off}
  /\ airSample' = 0
  /\ UNCHANGED <<strokes, monitor, topics, view, gaps, seen, lag, drawing>>

Fly ==
  /\ pen \in {Air, Off}
  /\ pen' \in {Air, Off}
  /\ UNCHANGED <<strokes, monitor, topics, view, sampled, lag, drawing>>

Land ==
  /\ pen \in {Air, Off}
  /\ strokes < MaxStrokes
  /\ strokes' = strokes + 1
  /\ pen' = strokes'
  /\ gaps' = Append(gaps, airSample)
  /\ seen' = (seen /\ (strokes = 0 \/ airSample > 0))
  /\ airSample' = 0
  /\ UNCHANGED <<monitor, topics, view, lag, drawing>>

(***************************************************************************)
(* The monitor's loop.  A topic that is full forgets its oldest message.   *)
(***************************************************************************)

\* Mistake to be caught: a topic without queue_size.
QueuedForEver(queue, message) == Append(queue, message)

Queued(queue, message) ==
  Append(IF Len(queue) = QueueSize THEN Tail(queue) ELSE queue, message)

\* The transform is found: the pose goes out before its contact is known.
Look ==
  /\ due = <<>>
  /\ sample < MaxSamples
  /\ sample' = sample + 1
  /\ poses' = Queued(poses, [sample |-> sample', place |-> pen])
  /\ due' = <<pen > 0>>
  /\ airSample' = IF pen > 0 THEN airSample ELSE sample'
  /\ UNCHANGED <<world, contacts, view, gaps, seen, lag, drawing>>

\* No transform: no pose, and no contact.
LookFails ==
  /\ due = <<>>
  /\ sample < MaxSamples
  /\ sample' = sample + 1
  /\ due' = <<FALSE>>
  /\ airSample' = IF pen > 0 THEN airSample ELSE sample'
  /\ UNCHANGED <<world, topics, view, gaps, seen, lag, drawing>>

Tell ==
  /\ due # <<>>
  /\ contacts' = Queued(contacts, [sample |-> sample, value |-> due[1]])
  /\ due' = <<>>
  /\ timely' = (timely /\ Len(contacts) < QueueSize)
  /\ UNCHANGED <<world, sample, poses, view, sampled, others, told,
                 drawing>>

\* The force gateway publishes its own estimate on the same topic.
GatewayTells(value) ==
  /\ others < MaxOthers
  /\ others' = others + 1
  /\ contacts' = Queued(contacts, [sample |-> 0, value |-> value])
  /\ timely' = (timely /\ ~value /\ Len(contacts) < QueueSize)
  /\ UNCHANGED <<world, monitor, poses, view, sampled, told, drawing>>

(***************************************************************************)
(* The paper view: each callback holds the lock.                           *)
(***************************************************************************)

\* Mistake to be caught: the line goes on after a lift.
ContactCallbackKeeping ==
  /\ contacts # <<>>
  /\ contacts' = Tail(contacts)
  /\ contact' = Head(contacts).value
  /\ told' = IF timely /\ Head(contacts).sample # 0 THEN Head(contacts).sample
                                                   ELSE told
  /\ UNCHANGED <<world, monitor, poses, previous, sampled, others,
                 timely, drawing>>

\* _contact_cb.
ContactCallback ==
  /\ contacts # <<>>
  /\ contacts' = Tail(contacts)
  /\ contact' = Head(contacts).value
  /\ previous' = IF contact' THEN previous ELSE Nowhere
  /\ told' = IF timely /\ Head(contacts).sample # 0 THEN Head(contacts).sample
                                                   ELSE told
  /\ UNCHANGED <<world, monitor, poses, sampled, others,
                 timely, drawing>>

\* cv2.line is called for a pose, and the strokes it joins differ.
Draws(place) == place # Off /\ contact /\ previous # Nowhere

Joins(place) == Draws(place) /\ place > 0 /\ previous \notin {Air, place}

\* Mistake to be caught: the first pixel of a line is only remembered if the
\* one before it was.
PreviousAfterLate(place) ==
  IF place # Off /\ contact /\ previous # Nowhere THEN place ELSE Nowhere

\* previous_pixel after a pose: the line goes on, begins, or is cut.
PreviousAfter(place) ==
  IF place = Off \/ ~contact THEN Nowhere
  ELSE IF place = Air /\ previous # Nowhere THEN previous
  ELSE place

\* History: the pose goes on a row, or begins one.
RunWith(pose) ==
  LET inRow == /\ pose.place = run.pose.place
               /\ pose.sample = run.pose.sample + 1
  IN  [pose  |-> pose,
       poses |-> IF inRow THEN run.poses + 1 ELSE 1,
       inked |-> (inRow /\ run.inked) \/ Draws(pose.place)]

\* _pose_cb.
PoseCallback ==
  /\ poses # <<>>
  /\ poses' = Tail(poses)
  /\ LET pose == Head(poses) IN
     /\ previous' = PreviousAfter(pose.place)
     /\ joined' = (joined \/ Joins(pose.place))
     /\ timely' = (timely /\ told \in {pose.sample - 1, pose.sample})
     /\ run' = IF timely' THEN RunWith(pose) ELSE run
  /\ UNCHANGED <<world, monitor, contacts, contact, sampled, others,
                 told>>

Next ==
  \/ Lift \/ Fly \/ Land
  \/ Look \/ LookFails \/ Tell
  \/ \E b \in BOOLEAN : GatewayTells(b)
  \/ ContactCallback \/ PoseCallback

Spec == Init /\ [][Next]_vars

(***************************************************************************)
(* Properties.                                                             *)
(***************************************************************************)

\* As long as poses and contacts reach the paper view in the order of their
\* samples - a contact no later than the next pose - with no contact lost, and
\* every lift is sampled, no line joins two strokes.  A gateway that reports no
\* contact beside the monitor does not change that.
StrokesStayApart == timely /\ seen => ~joined

\* And the third pose in a row of a stroke has left ink: the view lags behind
\* by one contact at the start of a stroke, and loses nothing after that, as
\* long as the gateway is silent.
StrokesLeaveInk ==
  timely /\ others = 0 /\ run.pose.place > 0 /\ run.poses >= 3 => run.inked
=============================================================================
