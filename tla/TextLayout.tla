------------------------------ MODULE TextLayout ------------------------------
(***************************************************************************)
(* LayoutEngine.layout_text (layout_engine.py): it places the glyphs of a  *)
(* text in lines on the sheet, left to right and top to bottom, and breaks *)
(* off at the lower margin.  u grows to the right and v downwards.         *)
(*                                                                         *)
(* Lengths are integers, so that the tolerance of 1e-9 is none.  Only the  *)
(* box of a glyph is kept: a Hanzi that the parser does not know has a box *)
(* too, and no strokes in it.  The loops over tokens, over the letters of  *)
(* a word to measure it and over them to place it go one step at a time.   *)
(***************************************************************************)
EXTENDS Integers, Sequences

CONSTANTS
  Left, Right, Top, Bottom,   (* The margins' coordinates.                  *)
  CharWidth, CharHeight,      (* The size of a glyph of width and height 1, *)
                              (* by kind.                                   *)
  LineStep,                   (* From a line to the next.                   *)
  LetterSpace, HanziSpace,    (* Spaces between two letters, two Hanzi,     *)
  WordSpace,                  (* and two words.                             *)
  Texts                       (* The texts: sequences of glyphs.            *)

\* What glyph_kind tells apart; a word is a row of "ascii".
Drawn == {"ascii", "hanzi", "image"}
Kinds == Drawn \cup {"newline", "space"}

Glyph == [kind : Kinds, width : Nat \ {0}, height : Nat \ {0}]

ASSUME SheetAssumption ==
  /\ Left \in Nat /\ Right \in Int /\ Top \in Nat /\ Bottom \in Int
  /\ {LetterSpace, HanziSpace, WordSpace} \subseteq Nat
  /\ CharWidth \in [Drawn -> Nat \ {0}]
  /\ CharHeight \in [Drawn -> Nat \ {0}]
  /\ LineStep \in Nat
  /\ LineStep >= CharHeight["ascii"] /\ LineStep >= CharHeight["hanzi"]

ASSUME TextsAssumption == Texts \subseteq Seq(Glyph)

VARIABLES
  text, wrapWords,  (* The call: its glyphs, and the engine's setting.      *)
  phase,            (* The loop over the tokens is at a "token", in         *)
                    (* _place_word, "word", in the loop of a long word,     *)
                    (* "letters", or left, "done".                          *)
  next,             (* The index of the token's first glyph.                *)
  word,             (* A word: the total of _word_width after each letter,  *)
  letter,           (* and how many of its letters are placed.              *)
  cursorU, cursorV, line, hasContent, previousKind, pendingSpace, overflow,
                    (* The variables of layout_text.                        *)
  output            (* The boxes placed: index of the glyph, line, corner.  *)

call   == <<text, wrapWords>>
loop   == <<phase, next, word, letter>>
cursor == <<cursorU, cursorV, line, hasContent, previousKind, pendingSpace>>
vars   == <<call, loop, cursor, overflow, output>>

Available == IF Right > Left THEN Right - Left ELSE 0

\* _dimensions.
Width(glyph)  == CharWidth[glyph.kind] * glyph.width
Height(glyph) == CharHeight[glyph.kind] * glyph.height

Box == [glyph : Nat \ {0}, line : Nat, u : Nat, v : Nat]

IsLetter(n) == n \in DOMAIN text /\ text[n].kind = "ascii"

LoopOK ==
  /\ phase \in {"token", "word", "letters", "done"}
  /\ next \in 1..(Len(text) + 1)
  /\ word \in Seq(Nat) /\ letter \in Nat
  /\ \A i \in DOMAIN word : IsLetter(next + i - 1)
  /\ phase \in {"word", "letters"} => letter < Len(word)
  /\ phase = "token" => letter = 0

CursorOK ==
  /\ cursorU \in Nat /\ cursorV \in Nat /\ line \in Nat
  /\ hasContent \in BOOLEAN /\ pendingSpace \in BOOLEAN
  /\ previousKind \in IF hasContent THEN Drawn ELSE {"None"}
  /\ pendingSpace => hasContent

TypeOK ==
  /\ text \in Seq(Glyph)
  /\ wrapWords \in BOOLEAN /\ overflow \in BOOLEAN
  /\ LoopOK
  /\ CursorOK
  /\ output \in Seq(Box)

Init ==
  /\ text \in Texts
  /\ wrapWords \in BOOLEAN
  /\ phase = "token"
  /\ next = 1
  /\ word = <<>>
  /\ letter = 0
  /\ cursorU = Left
  /\ cursorV = Top
  /\ line = 0
  /\ hasContent = FALSE
  /\ previousKind = "None"
  /\ pendingSpace = FALSE
  /\ overflow = FALSE
  /\ output = <<>>

\* _spacing, and no space at the start of a line.
Leading(kind, explicitWord) ==
  IF ~hasContent THEN 0
  ELSE IF explicitWord THEN WordSpace
  ELSE IF {previousKind, kind} = {"hanzi"} THEN HanziSpace
  ELSE LetterSpace

\* Mistake to be caught: the space before the glyph is not counted.
FitsTight(leading, width) == hasContent => cursorU + width <= Right

\* What begins a line is not asked whether it fits.
Fits(leading, width) == hasContent => cursorU + leading + width <= Right

\* Mistake to be caught: the lines are not moved apart.
BreakLineFlat ==
  /\ cursorU' = Left
  /\ line' = line + 1
  /\ hasContent' = FALSE
  /\ previousKind' = "None"
  /\ pendingSpace' = FALSE
  /\ UNCHANGED <<call, loop, cursorV, overflow, output>>

\* Mistake to be caught: the space before the break begins the new line.
BreakLineSpaced ==
  /\ cursorU' = Left
  /\ cursorV' = cursorV + LineStep
  /\ line' = line + 1
  /\ hasContent' = FALSE
  /\ previousKind' = "None"
  /\ UNCHANGED <<call, loop, pendingSpace, overflow, output>>

\* newline(), before a token or a letter that is then placed without leading.
BreakLine ==
  /\ cursorU' = Left
  /\ cursorV' = cursorV + LineStep
  /\ line' = line + 1
  /\ hasContent' = FALSE
  /\ previousKind' = "None"
  /\ pendingSpace' = FALSE
  /\ UNCHANGED <<call, loop, overflow, output>>

\* Mistake to be caught: only the token that is too low is left out.
SkipToken ==
  /\ overflow' = TRUE
  /\ next' = next + 1
  /\ word' = <<>> /\ letter' = 0 /\ phase' = "token"
  /\ UNCHANGED <<call, cursor, output>>

\* "Text exceeds paper height; remaining glyphs skipped": the loops are left.
SkipRemaining ==
  /\ overflow' = TRUE
  /\ phase' = "done"
  /\ UNCHANGED <<call, next, word, letter, cursor, output>>

(***************************************************************************)
(* The end of the text, and white space.                                   *)
(***************************************************************************)

AtToken(kinds) ==
  phase = "token" /\ next <= Len(text) /\ text[next].kind \in kinds

Finish ==
  /\ phase = "token"
  /\ next > Len(text)
  /\ phase' = "done"
  /\ UNCHANGED <<call, next, word, letter, cursor, overflow, output>>

Newline ==
  /\ AtToken({"newline"})
  /\ next' = next + 1
  /\ cursorU' = Left
  /\ cursorV' = cursorV + LineStep
  /\ line' = line + 1
  /\ hasContent' = FALSE
  /\ previousKind' = "None"
  /\ pendingSpace' = FALSE
  /\ UNCHANGED <<call, phase, word, letter, overflow, output>>

Space ==
  /\ AtToken({"space"})
  /\ next' = next + 1
  /\ pendingSpace' = (pendingSpace \/ hasContent)
  /\ UNCHANGED <<call, phase, word, letter, cursorU, cursorV, line,
                 hasContent, previousKind, overflow, output>>

(***************************************************************************)
(* A Hanzi, an image, or a letter of a long word: each by itself.          *)
(***************************************************************************)

Alone == AtToken({"hanzi", "image"}) \/ phase = "letters"

\* The glyph, and the space before it: a long word forgets the pending one.
Current      == text[next + letter]
LeadingAlone == Leading(Current.kind, pendingSpace /\ phase = "token")

FitsAlone == Fits(LeadingAlone, Width(Current))
LowAlone  == cursorV + Height(Current) > Bottom

BreakBeforeGlyph == Alone /\ ~FitsAlone /\ BreakLine

OverflowGlyph == Alone /\ FitsAlone /\ LowAlone /\ SkipRemaining

Place(u) ==
  output' = Append(output, [glyph |-> next + letter, line |-> line,
                            u |-> u, v |-> cursorV])

\* After a glyph the loop goes on, with the next letter or the next token.
Advance ==
  IF letter + 1 < Len(word)
    THEN letter' = letter + 1 /\ UNCHANGED <<phase, next, word>>
    ELSE /\ next' = next + letter + 1
         /\ phase' = "token" /\ word' = <<>> /\ letter' = 0

PlaceAlone ==
  /\ Alone /\ FitsAlone /\ ~LowAlone
  /\ Place(cursorU + LeadingAlone)
  /\ cursorU' = cursorU + LeadingAlone + Width(Current)
  /\ hasContent' = TRUE
  /\ previousKind' = Current.kind
  /\ pendingSpace' = FALSE
  /\ Advance
  /\ UNCHANGED <<call, cursorV, line, overflow>>

(***************************************************************************)
(* A word: it is measured, wrapped and placed as a whole, or is too long.  *)
(***************************************************************************)

\* _word_width: one more letter.
Measure ==
  /\ phase = "token"
  /\ IsLetter(next + Len(word))
  /\ LET width == Width(text[next + Len(word)]) IN
     word' = Append(word, IF word = <<>> THEN width
                          ELSE word[Len(word)] + LetterSpace + width)
  /\ UNCHANGED <<call, phase, next, letter, cursor, overflow, output>>

AtWord == phase = "token" /\ word # <<>> /\ ~IsLetter(next + Len(word))

TokenWidth == word[Len(word)]

LongWord == wrapWords /\ TokenWidth > Available /\ Len(word) > 1

SplitWord ==
  /\ AtWord /\ LongWord
  /\ phase' = "letters"
  /\ UNCHANGED <<call, next, word, letter, cursor, overflow, output>>

LeadingWord == Leading("ascii", pendingSpace)

FitsWord == wrapWords => Fits(LeadingWord, TokenWidth)
LowWord  == cursorV + CharHeight["ascii"] > Bottom

BreakBeforeWord == AtWord /\ ~LongWord /\ ~FitsWord /\ BreakLine

OverflowWord == AtWord /\ ~LongWord /\ FitsWord /\ LowWord /\ SkipRemaining

StartWord ==
  /\ AtWord /\ ~LongWord /\ FitsWord /\ ~LowWord
  /\ cursorU' = cursorU + LeadingWord
  /\ phase' = "word"
  /\ UNCHANGED <<call, next, word, letter, cursorV, line, hasContent,
                 previousKind, pendingSpace, overflow, output>>

\* A step of _place_word; what layout_text sets after its end is set by the
\* letters, since nothing reads it in between.
PlaceLetter ==
  /\ phase = "word"
  /\ LET u == IF letter = 0 THEN cursorU ELSE cursorU + LetterSpace IN
     /\ Place(u)
     /\ cursorU' = u + Width(Current)
  /\ hasContent' = TRUE
  /\ previousKind' = "ascii"
  /\ pendingSpace' = FALSE
  /\ Advance
  /\ UNCHANGED <<call, cursorV, line, overflow>>

Next ==
  \/ Finish \/ Newline \/ Space
  \/ BreakBeforeGlyph \/ OverflowGlyph \/ PlaceAlone
  \/ Measure \/ SplitWord \/ BreakBeforeWord \/ OverflowWord \/ StartWord
  \/ PlaceLetter

Spec == Init /\ [][Next]_vars

(***************************************************************************)
(* Properties.                                                             *)
(***************************************************************************)

\* No glyph crosses a margin: not the right one if words are wrapped, unless it
\* is wider than the sheet and begins a line; nor the lower one, unless it is a
\* letter higher than the height that is checked for words.
InsidePaper ==
  \A i \in DOMAIN output :
    LET box   == output[i]
        glyph == text[box.glyph]
    IN  /\ box.u >= Left /\ box.v >= Top
        /\ \/ box.u + Width(glyph) <= Right
           \/ box.u = Left
           \/ ~wrapWords /\ glyph.kind = "ascii"
        /\ \/ box.v + Height(glyph) <= Bottom
           \/ glyph.kind = "ascii" /\ glyph.height > 1

\* Later glyphs stand to the right on the same line, or on a line that is lower
\* by a line step at least: what is no higher than that is not overlapped by
\* what follows.  An image or a letter that is higher may be.
ReadsInOrder ==
  \A i, j \in DOMAIN output :
    i < j =>
      LET a == output[i]  b == output[j] IN
      \/ a.line = b.line /\ a.v = b.v /\ a.u + Width(text[a.glyph]) <= b.u
      \/ a.line < b.line /\ a.v + LineStep <= b.v

\* The glyphs on the sheet are those of the text so far, each once and in its
\* order; when the text did not overflow, they are all of them.
NothingLost ==
  /\ \A i, j \in DOMAIN output : i < j => output[i].glyph < output[j].glyph
  /\ {output[i].glyph : i \in DOMAIN output} =
       {n \in 1..(next + letter - 1) : text[n].kind \in Drawn}
  /\ phase = "done" /\ ~overflow => next > Len(text)
=============================================================================
