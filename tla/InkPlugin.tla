------------------------------- MODULE InkPlugin -------------------------------
(***************************************************************************)
(* The Gazebo plugin that draws the ink (ink_visual_plugin.cpp): it looks  *)
(* at the pen before each rendered frame and keeps a line strip per        *)
(* contact.  The pen moves between frames, so the plugin may miss a lift.  *)
(*                                                                         *)
(* The sheet is one-dimensional: a pen in contact is at a place of Sheet;  *)
(* above or beside the sheet it is Away.  Heights, colours and the         *)
(* destructor are left out.                                                *)
(***************************************************************************)
EXTENDS Integers, Sequences, SequencesExt

CONSTANTS
  Sheet,        (* The places of the sheet, integers.                       *)
  Away,
  MinDistance,  (* min_point_distance_.                                     *)
  MaxInkStrokes, (* Bound: strokes of the pen.                              *)
  MaxLines,     (* Bound: lines of the plugin,                              *)
  MaxPoints     (* and points of one of them.                               *)

ASSUME SheetAssumption == Sheet \subseteq Int /\ Away \notin Sheet

VARIABLES
  tip,              (* Where the pen is.                                    *)
  stroke,           (* The number of its last stroke.                       *)
  previousContact,  (* previous_contact_.                                   *)
  lines,            (* lines_, each a sequence of points, and               *)
  open,             (* whether current_line_ is the last one or null.       *)
  last,             (* last_point_ in a sequence, empty without             *)
                    (* have_last_point_.                                    *)
  rendered,         (* History: a frame fell between any two strokes, and   *)
  framed            (* the plugin had a frame since the last stroke.        *)

tipAndStroke == <<tip, stroke>>
ink          == <<previousContact, lines, open, last>>
inkVars      == <<tipAndStroke, ink, rendered, framed>>

Point == [stroke : Nat, at : Sheet]

InkTypeOK ==
  /\ tip \in Sheet \cup {Away}
  /\ stroke \in Nat
  /\ {previousContact, open, rendered, framed} \subseteq BOOLEAN
  /\ lines \in Seq(Seq(Point) \ {<<>>})
  /\ last \in {<<>>} \cup {<<p>> : p \in Sheet}
  /\ open => lines # <<>> /\ last = <<Last(Last(lines)).at>>
  /\ ~open => last = <<>>

InkInit ==
  /\ tip = Away
  /\ stroke = 0
  /\ previousContact = FALSE
  /\ lines = <<>>
  /\ open = FALSE
  /\ last = <<>>
  /\ rendered = TRUE
  /\ framed = TRUE

TipLands ==
  /\ tip = Away
  /\ stroke < MaxInkStrokes
  /\ tip' \in Sheet
  /\ stroke' = stroke + 1
  /\ rendered' = (rendered /\ framed)
  /\ framed' = FALSE
  /\ UNCHANGED ink

TipMoves ==
  /\ tip \in Sheet
  /\ tip' \in Sheet \ {tip}
  /\ UNCHANGED <<stroke, ink, rendered, framed>>

TipLifts ==
  /\ tip \in Sheet
  /\ tip' = Away
  /\ UNCHANGED <<stroke, ink, rendered, framed>>

IsPenOnPaper == tip \in Sheet

Ink == [stroke |-> stroke, at |-> tip]

\* The first point of a line is always far enough: StartStroke has cleared
\* have_last_point_.
StartStroke ==
  \/ /\ Len(lines) < MaxLines
     /\ lines' = Append(lines, <<Ink>>)
     /\ open' = TRUE
     /\ last' = <<tip>>
  \* CreateDynamicLine returns null: current_line_ is null, the rest as it was
  \/ /\ open' = FALSE
     /\ UNCHANGED <<lines, last>>

Distance(a, b) == IF a < b THEN b - a ELSE a - b

\* Mistake to be caught: a jitter is measured from the pen's last place.
AddPointDrifting ==
  IF open
    THEN /\ Len(Last(lines)) < MaxPoints
         /\ last' = <<tip>>
         /\ lines' = IF Distance(tip, last[1]) < MinDistance THEN lines
                     ELSE [lines EXCEPT ![Len(lines)] = Append(@, Ink)]
         /\ UNCHANGED open
    ELSE UNCHANGED <<lines, open, last>>

AddPoint ==
  IF open /\ Distance(tip, last[1]) >= MinDistance
    THEN /\ Len(Last(lines)) < MaxPoints
         /\ lines' = [lines EXCEPT ![Len(lines)] = Append(@, Ink)]
         /\ last' = <<tip>>
         /\ UNCHANGED open
    ELSE UNCHANGED <<lines, open, last>>

EndStroke ==
  /\ open' = FALSE
  /\ last' = <<>>
  /\ UNCHANGED lines

\* Mistake to be caught: a contact after a frame without contact goes on with
\* the line.
FrameForgetful ==
  /\ previousContact' = (previousContact \/ IsPenOnPaper)
  /\ \/ IsPenOnPaper /\ ~previousContact /\ StartStroke
     \/ IsPenOnPaper /\ previousContact /\ AddPoint
     \/ ~IsPenOnPaper /\ UNCHANGED <<lines, open, last>>
  /\ framed' = (framed \/ ~IsPenOnPaper)
  /\ UNCHANGED <<tipAndStroke, rendered>>

\* OnPreRender.  Until FindVisual finds the pen, which may be spawned after the
\* paper, a frame changes nothing.
Frame ==
  /\ previousContact' = IsPenOnPaper
  /\ \/ IsPenOnPaper /\ ~previousContact /\ StartStroke
     \/ IsPenOnPaper /\ previousContact /\ AddPoint
     \/ ~IsPenOnPaper /\ previousContact /\ EndStroke
     \/ ~IsPenOnPaper /\ ~previousContact /\ UNCHANGED <<lines, open, last>>
  /\ framed' = (framed \/ ~IsPenOnPaper)
  /\ UNCHANGED <<tipAndStroke, rendered>>

InkNext ==
  \/ TipLands \/ TipMoves \/ TipLifts
  \/ Frame

InkSpec == InkInit /\ [][InkNext]_inkVars

\* If every lift is rendered, a line has the ink of one stroke, and no stroke is
\* in two lines.
LinesOfOneStroke ==
  rendered =>
    \A i \in DOMAIN lines, j \in DOMAIN lines :
      \A p \in DOMAIN lines[i], q \in DOMAIN lines[j] :
        (i = j) = (lines[i][p].stroke = lines[j][q].stroke)
=============================================================================
