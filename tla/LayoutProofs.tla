----------------------------- MODULE LayoutProofs -----------------------------
(***************************************************************************)
(* Proofs about TextLayout, for texts of any length, glyphs of any size,   *)
(* and every sheet and spacing.                                            *)
(***************************************************************************)
EXTENDS TextLayout, TLAPS

LEMMA ProductPositive ==
  ASSUME NEW a \in Nat \ {0}, NEW b \in Nat \ {0}
  PROVE  a * b \in Nat \ {0}
OBVIOUS

LEMMA SizePositive ==
  ASSUME NEW glyph \in Glyph, glyph.kind \in Drawn
  PROVE  Width(glyph) \in Nat \ {0} /\ Height(glyph) \in Nat \ {0}
<1>1. CharWidth[glyph.kind] \in Nat \ {0} /\ CharHeight[glyph.kind] \in Nat \ {0}
  BY SheetAssumption
<1>2. glyph.width \in Nat \ {0} /\ glyph.height \in Nat \ {0}
  BY DEF Glyph
<1>3. QED
  BY <1>1, <1>2, ProductPositive DEF Width, Height

LEMMA LeadingIsNat ==
  ASSUME NEW kind, NEW explicitWord \in BOOLEAN
  PROVE  /\ Leading(kind, explicitWord) \in Nat
         /\ ~hasContent => Leading(kind, explicitWord) = 0
BY SheetAssumption DEF Leading

\* The glyph to be placed is one that is drawn.
LEMMA CurrentGlyph ==
  ASSUME TypeOK, Alone \/ phase = "word"
  PROVE  /\ next + letter \in 1..Len(text)
         /\ Current \in Glyph /\ Current.kind \in Drawn
         /\ phase = "token" => letter = 0 /\ word = <<>>
         /\ phase # "token" =>
              /\ Current.kind = "ascii"
              /\ word # <<>> /\ letter + 1 \in DOMAIN word
<1>1. CASE phase = "token"
  <2>1. letter = 0 /\ next \in 1..Len(text)
    BY <1>1 DEF TypeOK, LoopOK, Alone, AtToken
  <2>2. Current.kind \in {"hanzi", "image"}
    BY <1>1, <2>1 DEF Alone, AtToken, Current, TypeOK, LoopOK
  <2>3. word = <<>>
    <3>1. SUFFICES ASSUME word # <<>> PROVE FALSE
      OBVIOUS
    <3>2. 1 \in DOMAIN word
      BY <3>1 DEF TypeOK, LoopOK
    <3>3. IsLetter(next + 1 - 1)
      BY <3>2 DEF TypeOK, LoopOK
    <3>4. QED
      BY <3>3, <2>1, <2>2 DEF IsLetter, Current, TypeOK, LoopOK
  <2>4. Current \in Glyph
    BY <2>1 DEF Current, TypeOK, LoopOK
  <2>5. QED
    BY <1>1, <2>1, <2>2, <2>3, <2>4 DEF Drawn, TypeOK, LoopOK
<1>2. CASE phase # "token"
  <2>1. phase \in {"word", "letters"}
    BY <1>2 DEF Alone, AtToken
  <2>2. letter + 1 \in DOMAIN word
    BY <2>1 DEF TypeOK, LoopOK
  <2>3. IsLetter(next + (letter + 1) - 1)
    BY <2>2 DEF TypeOK, LoopOK
  <2>4. next + (letter + 1) - 1 = next + letter
    BY DEF TypeOK, LoopOK
  <2>5. next + letter \in 1..Len(text) /\ Current.kind = "ascii"
    BY <2>3, <2>4 DEF IsLetter, Current, TypeOK, LoopOK
  <2>6. Current \in Glyph
    BY <2>5 DEF Current, TypeOK, LoopOK
  <2>7. QED
    BY <1>2, <2>2, <2>5, <2>6 DEF Drawn
<1>3. QED
  BY <1>1, <1>2

LEMMA CurrentSize ==
  ASSUME TypeOK, Alone \/ phase = "word"
  PROVE  Width(Current) \in Nat \ {0} /\ Height(Current) \in Nat \ {0}
BY CurrentGlyph, SizePositive

\* After a glyph the loop is at the next one.
LEMMA AdvanceOK ==
  ASSUME TypeOK, Alone \/ phase = "word", Advance, UNCHANGED text
  PROVE  LoopOK' /\ next' + letter' = next + letter + 1
<1>1. CASE letter + 1 < Len(word)
  <2>1. /\ letter' = letter + 1 /\ phase' = phase
        /\ next' = next /\ word' = word
    BY <1>1 DEF Advance
  <2>2. phase # "token"
    BY <1>1, CurrentGlyph DEF TypeOK, LoopOK
  <2>3. \A i \in DOMAIN word : IsLetter(next + i - 1)'
    BY <2>1 DEF TypeOK, LoopOK, IsLetter
  <2>4. QED
    BY <1>1, <2>1, <2>2, <2>3 DEF TypeOK, LoopOK
<1>2. CASE ~(letter + 1 < Len(word))
  <2>1. /\ next' = next + letter + 1 /\ letter' = 0
        /\ phase' = "token" /\ word' = <<>>
    BY <1>2 DEF Advance
  <2>2. next + letter \in 1..Len(text)
    BY CurrentGlyph
  <2>3. QED
    BY <2>1, <2>2 DEF TypeOK, LoopOK
<1>3. QED
  BY <1>1, <1>2

LEMMA MeasuredOK ==
  ASSUME TypeOK, NEW width \in Nat
  PROVE  (IF word = <<>> THEN width ELSE word[Len(word)] + LetterSpace + width)
           \in Nat
<1>1. CASE word = <<>>
  BY <1>1
<1>2. CASE word # <<>>
  <2>1. word[Len(word)] \in Nat
    BY <1>2 DEF TypeOK, LoopOK
  <2>2. QED
    BY <1>2, <2>1, SheetAssumption
<1>3. QED
  BY <1>1, <1>2

LEMMA EmptyText == \A S : <<>> \in Seq(S)
OBVIOUS

LEMMA NewLineOK ==
  ASSUME TypeOK,
         cursorU' = Left, cursorV' = cursorV + LineStep, line' = line + 1,
         hasContent' = FALSE, previousKind' = "None", pendingSpace' = FALSE
  PROVE  CursorOK'
<1>1. cursorU' \in Nat /\ cursorV' \in Nat /\ line' \in Nat
  BY SheetAssumption DEF TypeOK, CursorOK
<1>2. QED
  BY <1>1, Zenon DEF CursorOK

LEMMA SameCursor ==
  ASSUME TypeOK, UNCHANGED cursor
  PROVE  CursorOK'
BY DEF TypeOK, CursorOK, cursor

LEMMA SameLoop ==
  ASSUME TypeOK, UNCHANGED <<text, loop>>
  PROVE  LoopOK'
BY DEF TypeOK, LoopOK, loop, IsLetter

\* What a step that places a glyph keeps.
LEMMA PlacingOK ==
  ASSUME TypeOK, Alone \/ phase = "word", NEW u \in Nat,
         Place(u), cursorU' = u + Width(Current), Advance,
         hasContent' = TRUE, previousKind' = Current.kind,
         pendingSpace' = FALSE, UNCHANGED <<call, cursorV, line, overflow>>
  PROVE  TypeOK'
<1>1. next + letter \in Nat \ {0} /\ Current.kind \in Drawn
  BY CurrentGlyph DEF TypeOK
<1>2. output' \in Seq(Box)
  <2>1. [glyph |-> next + letter, line |-> line, u |-> u, v |-> cursorV] \in Box
    BY <1>1 DEF TypeOK, CursorOK, Box
  <2>2. QED
    BY <2>1 DEF TypeOK, Place
<1>3. CursorOK'
  <2>1. Width(Current) \in Nat
    BY CurrentSize
  <2>2. cursorU' \in Nat /\ cursorV' \in Nat /\ line' \in Nat
    BY <2>1 DEF TypeOK, CursorOK
  <2>3. QED
    BY <1>1, <2>2 DEF CursorOK
<1>4. LoopOK'
  <2>1. UNCHANGED text
    BY DEF call
  <2>2. QED
    BY <2>1, AdvanceOK
<1>5. QED
  BY <1>2, <1>3, <1>4 DEF TypeOK, call

\* The loops, cursor and boxes keep to their types; the cursor stays on the
\* sheet's side of its origin and nothing is pending at the start of a line.
THEOREM TypeCorrect == Spec => []TypeOK
<1>1. Init => TypeOK
  <2> SUFFICES ASSUME Init
               PROVE  TypeOK
    OBVIOUS
  <2>1. text \in Seq(Glyph)
    BY TextsAssumption DEF Init
  <2>2. LoopOK
    BY <2>1 DEF Init, LoopOK
  <2>3. CursorOK
    BY SheetAssumption DEF Init, CursorOK
  <2>4. QED
    BY <2>1, <2>2, <2>3, Zenon, EmptyText DEF Init, TypeOK
<1>2. TypeOK /\ [Next]_vars => TypeOK'
  <2> SUFFICES ASSUME TypeOK, [Next]_vars
               PROVE  TypeOK'
    OBVIOUS
  <2>1. CASE Finish
    <3>1. LoopOK'
      BY <2>1 DEF Finish, TypeOK, LoopOK, IsLetter, call
    <3>2. CursorOK'
      BY <2>1, SameCursor DEF Finish
    <3>3. QED
      BY <2>1, <3>1, <3>2 DEF Finish, TypeOK, call
  <2>2. CASE Newline \/ Space
    <3>1. /\ phase = "token" /\ next <= Len(text)
          /\ text[next].kind \in {"newline", "space"}
          /\ next' = next + 1 /\ word' = word /\ letter' = letter
          /\ phase' = phase /\ text' = text
      BY <2>2 DEF Newline, Space, AtToken, call
    <3>2. word = <<>>
      <4>1. SUFFICES ASSUME word # <<>> PROVE FALSE
        OBVIOUS
      <4>2. 1 \in DOMAIN word
        BY <4>1 DEF TypeOK, LoopOK
      <4>3. IsLetter(next + 1 - 1)
        BY <4>2 DEF TypeOK, LoopOK
      <4>4. QED
        BY <3>1, <4>3 DEF IsLetter, TypeOK, LoopOK
    <3>3. LoopOK'
      BY <3>1, <3>2 DEF TypeOK, LoopOK
    <3>4. CASE Newline
      <4>1. CursorOK'
        BY <3>4, NewLineOK DEF Newline
      <4>2. QED
        BY <3>3, <3>4, <4>1 DEF Newline, call, TypeOK
    <3>5. CASE Space
      <4>1. CursorOK'
        BY <3>5 DEF Space, TypeOK, CursorOK
      <4>2. QED
        BY <3>3, <3>5, <4>1 DEF Space, call, TypeOK
    <3>6. QED
      BY <2>2, <3>4, <3>5
  <2>3. CASE BreakBeforeGlyph \/ BreakBeforeWord
    <3>1. BreakLine
      BY <2>3 DEF BreakBeforeGlyph, BreakBeforeWord
    <3>2. CursorOK'
      BY <3>1, NewLineOK DEF BreakLine
    <3>3. LoopOK'
      BY <3>1, SameLoop DEF BreakLine, call
    <3>4. QED
      BY <3>1, <3>2, <3>3 DEF BreakLine, call, TypeOK
  <2>4. CASE OverflowGlyph \/ OverflowWord
    <3>1. SkipRemaining
      BY <2>4 DEF OverflowGlyph, OverflowWord
    <3>2. LoopOK'
      BY <3>1 DEF SkipRemaining, TypeOK, LoopOK, IsLetter, call
    <3>3. CursorOK'
      BY <3>1, SameCursor DEF SkipRemaining
    <3>4. QED
      BY <3>1, <3>2, <3>3 DEF SkipRemaining, TypeOK, call
  <2>5. CASE PlaceAlone
    <3>1. cursorU + LeadingAlone \in Nat
      <4>1. (pendingSpace /\ phase = "token") \in BOOLEAN
        OBVIOUS
      <4>2. LeadingAlone \in Nat
        BY <4>1, LeadingIsNat, Zenon DEF LeadingAlone
      <4>3. QED
        BY <4>2 DEF TypeOK, CursorOK
    <3>2. Alone /\ Place(cursorU + LeadingAlone) /\ Advance
      BY <2>5 DEF PlaceAlone
    <3>3. QED
      BY <2>5, <3>1, <3>2, PlacingOK DEF PlaceAlone
  <2>6. CASE Measure
    <3> DEFINE n == next + Len(word)
    <3>1. phase = "token" /\ IsLetter(n)
      BY <2>6 DEF Measure
    <3>2. n \in 1..Len(text) /\ text[n] \in Glyph /\ text[n].kind \in Drawn
      BY <3>1 DEF IsLetter, TypeOK, Drawn
    <3>3. Width(text[n]) \in Nat
      BY <3>2, SizePositive
    <3>4. PICK total \in Nat : word' = Append(word, total)
      BY <2>6, <3>3, MeasuredOK DEF Measure, TypeOK, LoopOK
    <3>5. \A i \in DOMAIN word' : IsLetter(next + i - 1)'
      <4>1. text' = text /\ next' = next
        BY <2>6 DEF Measure, call
      <4>2. DOMAIN word' = 1..(Len(word) + 1)
        BY <3>4 DEF TypeOK, LoopOK
      <4>3. ASSUME NEW i \in 1..(Len(word) + 1)
            PROVE  IsLetter(next + i - 1)
        <5>1. CASE i \in DOMAIN word
          BY <5>1 DEF TypeOK, LoopOK
        <5>2. CASE i = Len(word) + 1
          <6>1. next + i - 1 = n
            BY <5>2 DEF TypeOK, LoopOK
          <6>2. QED
            BY <6>1, <3>1
        <5>3. QED
          BY <5>1, <5>2 DEF TypeOK, LoopOK
      <4>4. QED
        BY <4>1, <4>2, <4>3, Zenon DEF IsLetter
    <3>6. LoopOK'
      <4>1. /\ word' \in Seq(Nat) /\ phase' = "token" /\ next' = next
            /\ letter' = letter /\ text' = text
        BY <2>6, <3>4 DEF Measure, TypeOK, LoopOK, call
      <4>2. next' \in 1..(Len(text') + 1) /\ letter' \in Nat /\ letter' = 0
        BY <4>1, <3>1 DEF TypeOK, LoopOK
      <4>3. QED
        BY <3>5, <4>1, <4>2, Zenon DEF LoopOK
    <3>7. CursorOK'
      BY <2>6, SameCursor DEF Measure
    <3>8. QED
      BY <2>6, <3>6, <3>7 DEF Measure, TypeOK, call
  <2>7. CASE SplitWord
    <3>1. LoopOK'
      BY <2>7 DEF SplitWord, AtWord, TypeOK, LoopOK, IsLetter, call
    <3>2. CursorOK'
      BY <2>7, SameCursor DEF SplitWord
    <3>3. QED
      BY <2>7, <3>1, <3>2 DEF SplitWord, TypeOK, call
  <2>8. CASE StartWord
    <3>1. cursorU + LeadingWord \in Nat
      BY LeadingIsNat DEF LeadingWord, TypeOK, CursorOK
    <3>2. CursorOK'
      BY <2>8, <3>1 DEF StartWord, TypeOK, CursorOK
    <3>3. LoopOK'
      BY <2>8 DEF StartWord, AtWord, TypeOK, LoopOK, IsLetter, call
    <3>4. QED
      BY <2>8, <3>2, <3>3 DEF StartWord, TypeOK, call
  <2>9. CASE PlaceLetter
    <3> DEFINE u == IF letter = 0 THEN cursorU ELSE cursorU + LetterSpace
    <3>1. u \in Nat
      BY SheetAssumption DEF TypeOK, CursorOK
    <3>2. phase = "word" /\ Place(u) /\ cursorU' = u + Width(Current)
      BY <2>9 DEF PlaceLetter
    <3>3. Current.kind = "ascii"
      BY <3>2, CurrentGlyph
    <3>4. QED
      BY <2>9, <3>1, <3>2, <3>3, PlacingOK DEF PlaceLetter
  <2>10. CASE UNCHANGED vars
    <3>1. LoopOK' /\ CursorOK'
      BY <2>10, SameLoop, SameCursor DEF vars, call
    <3>2. QED
      BY <2>10, <3>1 DEF vars, TypeOK, call
  <2>11. QED
    BY <2>1, <2>2, <2>3, <2>4, <2>5, <2>6, <2>7, <2>8, <2>9, <2>10 DEF Next
<1>3. QED
  BY <1>1, <1>2, PTL DEF Spec

(***************************************************************************)
(* A step leaves the sheet as it is, on the line or breaking it, or places *)
(* the current glyph at the cursor or further right.                       *)
(***************************************************************************)

Stays ==
  /\ line' = line /\ cursorV' = cursorV
  /\ cursorU' \in Int /\ cursorU' >= cursorU
  /\ UNCHANGED output

Breaks ==
  /\ line' = line + 1 /\ cursorV' = cursorV + LineStep
  /\ UNCHANGED output

Places(u) ==
  /\ Alone \/ phase = "word"
  /\ u >= cursorU
  /\ Place(u)
  /\ cursorU' = u + Width(Current)
  /\ Advance
  /\ UNCHANGED <<line, cursorV, overflow>>

\* Where the next glyph comes from: the loop does not go back, and passes over
\* white space only.
Passes ==
  \/ next' + letter' = next + letter
  \/ /\ next' + letter' = next + letter + 1
     /\ next + letter \in 1..Len(text)
     /\ text[next + letter].kind \notin Drawn

Ends ==
  /\ phase # "done"
  /\ phase' = "done"
  /\ overflow' = TRUE \/ next' > Len(text)

LEMMA StepKinds ==
  ASSUME TypeOK, [Next]_vars
  PROVE  /\ UNCHANGED call
         /\ \/ Stays /\ Passes
            \/ Breaks /\ Passes
            \/ \E u \in Nat : Places(u)
         /\ phase' = "done" => Ends \/ UNCHANGED <<phase, overflow, next>>
<1>0. cursorU \in Nat /\ next \in Nat /\ letter \in Nat
  BY DEF TypeOK, CursorOK, LoopOK
<1>1. CASE Finish
  BY <1>0, <1>1 DEF Finish, Stays, Passes, Ends, cursor
<1>2. CASE Newline \/ Space
  <2>1. /\ phase = "token" /\ next <= Len(text)
        /\ text[next].kind \in {"newline", "space"}
        /\ next' = next + 1 /\ letter' = letter
        /\ phase' = phase /\ call' = call /\ output' = output
    BY <1>2 DEF Newline, Space, AtToken
  <2>2. letter = 0 /\ next \in 1..Len(text)
    BY <2>1 DEF TypeOK, LoopOK
  <2>3. Passes
    BY <1>0, <2>1, <2>2 DEF Passes, Drawn
  <2>4. Stays \/ Breaks
    BY <1>0, <1>2 DEF Newline, Space, Stays, Breaks
  <2>5. QED
    BY <2>1, <2>3, <2>4
<1>3. CASE BreakBeforeGlyph \/ BreakBeforeWord
  <2>1. BreakLine /\ phase # "done"
    BY <1>3 DEF BreakBeforeGlyph, BreakBeforeWord, AtWord, Alone, AtToken
  <2>2. QED
    BY <2>1 DEF BreakLine, Breaks, Passes, loop
<1>4. CASE OverflowGlyph \/ OverflowWord
  <2>1. SkipRemaining /\ phase # "done"
    BY <1>4 DEF OverflowGlyph, OverflowWord, AtWord, Alone, AtToken
  <2>2. Stays /\ UNCHANGED <<call, letter, next>>
    BY <1>0, <2>1 DEF SkipRemaining, Stays, cursor
  <2>3. Ends
    BY <2>1 DEF SkipRemaining, Ends
  <2>4. QED
    BY <2>2, <2>3 DEF Passes
<1>5. CASE PlaceAlone
  <2>1. LeadingAlone \in Nat
    <3>1. (pendingSpace /\ phase = "token") \in BOOLEAN
      OBVIOUS
    <3>2. QED
      BY <3>1, LeadingIsNat, Zenon DEF LeadingAlone
  <2>2. /\ cursorU + LeadingAlone \in Nat
        /\ cursorU + LeadingAlone >= cursorU
    BY <1>0, <2>1
  <2>3. Places(cursorU + LeadingAlone)
    BY <1>5, <2>2 DEF PlaceAlone, Places
  <2>4. UNCHANGED call /\ phase' # "done"
    BY <1>5 DEF PlaceAlone, Advance, Alone, AtToken
  <2>5. QED
    BY <2>2, <2>3, <2>4
<1>6. CASE Measure \/ SplitWord
  BY <1>0, <1>6 DEF Measure, SplitWord, Stays, Passes, cursor
<1>7. CASE StartWord
  <2>1. LeadingWord \in Nat
    BY LeadingIsNat DEF LeadingWord, TypeOK, CursorOK
  <2>2. Stays /\ UNCHANGED <<call, letter, next>> /\ phase' # "done"
    BY <1>0, <1>7, <2>1 DEF StartWord, Stays
  <2>3. QED
    BY <2>2 DEF Passes
<1>8. CASE PlaceLetter
  <2> DEFINE u == IF letter = 0 THEN cursorU ELSE cursorU + LetterSpace
  <2>1. u \in Nat /\ u >= cursorU
    BY <1>0, SheetAssumption
  <2>2. Places(u)
    BY <1>8, <2>1 DEF PlaceLetter, Places
  <2>3. UNCHANGED call /\ phase' # "done"
    BY <1>8 DEF PlaceLetter, Advance
  <2>4. QED
    BY <2>1, <2>2, <2>3
<1>9. CASE UNCHANGED vars
  BY <1>0, <1>9 DEF vars, loop, cursor, Stays, Passes
<1>10. QED
  BY <1>1, <1>2, <1>3, <1>4, <1>5, <1>6, <1>7, <1>8, <1>9 DEF Next

(***************************************************************************)
(* The boxes.                                                              *)
(***************************************************************************)

IsGlyph(n) == n \in 1..Len(text) /\ text[n].kind \in Drawn

\* Every box holds a glyph of the text.
Genuine == \A i \in DOMAIN output : IsGlyph(output[i].glyph)

\* The box that a placing step adds.
NewBox(u) == [glyph |-> next + letter, line |-> line, u |-> u, v |-> cursorV]

LEMMA Placed ==
  ASSUME TypeOK, NEW u \in Nat, Places(u)
  PROVE  /\ DOMAIN output' = 1..(Len(output) + 1)
         /\ \A i \in 1..Len(output) : output'[i] = output[i]
         /\ output'[Len(output) + 1] = NewBox(u)
         /\ NewBox(u) \in Box
         /\ IsGlyph(next + letter)
         /\ Width(Current) \in Nat /\ cursorU' \in Nat
<1>1. next + letter \in 1..Len(text) /\ Current.kind \in Drawn
  BY CurrentGlyph DEF Places
<1>2. Width(Current) \in Nat /\ cursorU' \in Nat
  BY CurrentSize DEF Places
<1>3. NewBox(u) \in Box
  BY <1>1 DEF NewBox, Box, TypeOK, CursorOK
<1>4. output' = Append(output, NewBox(u)) /\ output \in Seq(Box)
  BY DEF Places, Place, NewBox, TypeOK
<1>5. /\ DOMAIN output' = 1..(Len(output) + 1)
      /\ \A i \in 1..Len(output) : output'[i] = output[i]
      /\ output'[Len(output) + 1] = NewBox(u)
  BY <1>3, <1>4
<1>6. QED
  BY <1>1, <1>2, <1>3, <1>5 DEF IsGlyph, Current

LEMMA BoxWidth ==
  ASSUME TypeOK, NEW n, IsGlyph(n)
  PROVE  Width(text[n]) \in Nat \ {0} /\ Height(text[n]) \in Nat \ {0}
BY SizePositive DEF IsGlyph, TypeOK

LEMMA GenuineStep == TypeOK /\ Genuine /\ [Next]_vars => Genuine'
<1> SUFFICES ASSUME TypeOK, Genuine, [Next]_vars
             PROVE  Genuine'
  OBVIOUS
<1>1. UNCHANGED text
  BY StepKinds DEF call
<1>2. CASE UNCHANGED output
  BY <1>1, <1>2 DEF Genuine, IsGlyph
<1>3. CASE \E u \in Nat : Places(u)
  <2>1. PICK u \in Nat : Places(u)
    BY <1>3
  <2>2. \A i \in 1..(Len(output) + 1) : IsGlyph(output'[i].glyph)
    <3> TAKE i \in 1..(Len(output) + 1)
    <3>1. CASE i = Len(output) + 1
      <4>1. output'[i] = NewBox(u) /\ IsGlyph(next + letter)
        BY <2>1, <3>1, Placed
      <4>2. NewBox(u).glyph = next + letter
        BY DEF NewBox
      <4>3. QED
        BY <4>1, <4>2
    <3>2. CASE i \in 1..Len(output)
      BY <2>1, <3>2, Placed DEF Genuine, TypeOK
    <3>3. QED
      BY <3>1, <3>2 DEF TypeOK
  <2>3. DOMAIN output' = 1..(Len(output) + 1)
    BY <2>1, Placed
  <2>4. QED
    BY <1>1, <2>2, <2>3, Zenon DEF Genuine, IsGlyph
<1>4. QED
  BY <1>2, <1>3, StepKinds DEF Stays, Breaks

(***************************************************************************)
(* The order of the boxes.  What is placed lies behind the cursor.         *)
(***************************************************************************)

Behind(box) ==
  \/ /\ box.line = line /\ box.v = cursorV
     /\ box.u + Width(text[box.glyph]) <= cursorU
  \/ box.line < line /\ box.v + LineStep <= cursorV

Follows(a, b) ==
  \/ a.line = b.line /\ a.v = b.v /\ a.u + Width(text[a.glyph]) <= b.u
  \/ a.line < b.line /\ a.v + LineStep <= b.v

AllBehind == \A i \in DOMAIN output : Behind(output[i])

\* The same, in the next state.
BehindNext(box) ==
  \/ /\ box.line = line' /\ box.v = cursorV'
     /\ box.u + Width(text[box.glyph]) <= cursorU'
  \/ box.line < line' /\ box.v + LineStep <= cursorV'

LEMMA BehindStep ==
  ASSUME TypeOK, [Next]_vars, NEW box \in Box, IsGlyph(box.glyph), Behind(box)
  PROVE  BehindNext(box)
<1>1. UNCHANGED text
  BY StepKinds DEF call
<1>2. Width(text[box.glyph]) \in Nat
  BY BoxWidth
<1>3. /\ box.u \in Nat /\ box.v \in Nat /\ box.line \in Nat
      /\ cursorU \in Nat /\ cursorV \in Nat /\ line \in Nat /\ LineStep \in Nat
  BY SheetAssumption DEF Box, TypeOK, CursorOK
<1>4. CASE Stays
  BY <1>1, <1>2, <1>3, <1>4 DEF Stays, Behind, BehindNext
<1>5. CASE Breaks
  BY <1>1, <1>2, <1>3, <1>5 DEF Breaks, Behind, BehindNext
<1>6. CASE \E u \in Nat : Places(u)
  <2>1. PICK u \in Nat : Places(u)
    BY <1>6
  <2>2. /\ line' = line /\ cursorV' = cursorV
        /\ cursorU' \in Nat /\ cursorU' >= cursorU
    BY <1>3, <2>1, Placed DEF Places
  <2>3. QED
    BY <1>1, <1>2, <1>3, <2>2 DEF Behind, BehindNext
<1>7. QED
  BY <1>4, <1>5, <1>6, StepKinds

LEMMA OrderInvariant == Spec => [](Genuine /\ ReadsInOrder)
<1> DEFINE Inv == Genuine /\ AllBehind /\ ReadsInOrder
<1>1. Init => Inv
  BY DEF Init, Genuine, AllBehind, ReadsInOrder
<1>2. TypeOK /\ Inv /\ [Next]_vars => Inv'
  <2> SUFFICES ASSUME TypeOK, Inv, [Next]_vars
               PROVE  Inv'
    OBVIOUS
  <2>1. Genuine'
    BY GenuineStep
  <2>2. UNCHANGED text
    BY StepKinds DEF call
  <2>3. \A i \in DOMAIN output : output[i] \in Box /\ IsGlyph(output[i].glyph)
    BY DEF TypeOK, Genuine
  <2>4. \A i \in DOMAIN output : BehindNext(output[i])
    <3>1. \A b \in Box : IsGlyph(b.glyph) /\ Behind(b) => BehindNext(b)
      BY BehindStep
    <3>2. QED
      BY <2>3, <3>1 DEF AllBehind
  <2>5. CASE UNCHANGED output
    <3>1. AllBehind'
      BY <2>2, <2>4, <2>5, Zenon DEF AllBehind, BehindNext, Behind
    <3>2. ReadsInOrder'
      BY <2>2, <2>5 DEF ReadsInOrder
    <3>3. QED
      BY <2>1, <3>1, <3>2
  <2>6. CASE \E u \in Nat : Places(u)
    <3>1. PICK u \in Nat : Places(u)
      BY <2>6
    <3> DEFINE n == Len(output) + 1
    <3>2. output'[n] = NewBox(u) /\ n \in Nat /\ DOMAIN output = 1..(n - 1)
      BY <3>1, Placed DEF TypeOK
    <3>3. \A i \in 1..(n - 1) : Follows(output[i], NewBox(u))
      <4> SUFFICES ASSUME NEW i \in 1..(n - 1)
                   PROVE  Follows(output[i], NewBox(u))
        OBVIOUS
      <4>1. Behind(output[i]) /\ output[i] \in Box
        BY <2>3, <3>2 DEF AllBehind
      <4>2. Width(text[output[i].glyph]) \in Nat
        BY <2>3, <3>2, BoxWidth
      <4>3. u >= cursorU /\ cursorU \in Nat
        BY <3>1 DEF Places, TypeOK, CursorOK
      <4>4. QED
        BY <4>1, <4>2, <4>3 DEF Behind, Follows, NewBox, Box
    <3>4. BehindNext(NewBox(u))
      <4>1. /\ line' = line /\ cursorV' = cursorV
            /\ cursorU' = u + Width(text[next + letter])
            /\ Width(Current) \in Nat
        BY <3>1, Placed DEF Places, Current
      <4>2. QED
        BY <4>1 DEF BehindNext, NewBox, Current
    <3>5. AllBehind'
      <4>1. \A i \in 1..n : BehindNext(output'[i])
        BY <2>4, <3>1, <3>2, <3>4, Placed
      <4>2. QED
        BY <2>2, <3>1, <4>1, Placed DEF AllBehind, Behind, BehindNext
    <3>6. ReadsInOrder'
      <4>1. \A i, j \in 1..n : i < j => Follows(output'[i], output'[j])
        <5> SUFFICES ASSUME NEW i \in 1..n, NEW j \in 1..n, i < j
                     PROVE  Follows(output'[i], output'[j])
          OBVIOUS
        <5>1. i \in 1..(n - 1) /\ output'[i] = output[i]
          BY <3>1, <3>2, Placed
        <5>2. CASE j = n
          BY <3>2, <3>3, <5>1, <5>2
        <5>3. CASE j # n
          <6>1. j \in 1..(n - 1) /\ output'[j] = output[j]
            BY <3>1, <3>2, <5>3, Placed
          <6>2. QED
            BY <3>2, <5>1, <6>1 DEF ReadsInOrder, Follows
        <5>4. QED
          BY <5>2, <5>3
      <4>2. QED
        BY <2>2, <3>1, <4>1, Placed DEF ReadsInOrder, Follows
    <3>7. QED
      BY <2>1, <3>5, <3>6
  <2>7. QED
    BY <2>1, <2>5, <2>6, StepKinds DEF Stays, Breaks
<1>3. QED
  BY <1>1, <1>2, TypeCorrect, PTL DEF Spec

\* The box of a glyph overlaps a later one only if it is higher than the step
\* from a line to the next: neither letters and Hanzi of the usual height nor an
\* image that is no higher ever do.
OverlapsOnlyIfHigh ==
  \A i, j \in DOMAIN output :
    i < j =>
      LET a == output[i]  b == output[j]  glyph == text[a.glyph] IN
      \/ a.u + Width(glyph) <= b.u
      \/ a.v + Height(glyph) <= b.v
      \/ Height(glyph) > LineStep

\* Later glyphs stand behind earlier ones on their line, or on a line that is
\* lower by a line step at least, however wide the glyphs are and wherever lines
\* are broken; so only a glyph that is higher than the step is overlapped.
THEOREM ReadingOrder == Spec => [](ReadsInOrder /\ OverlapsOnlyIfHigh)
<1>1. TypeOK /\ Genuine /\ ReadsInOrder => OverlapsOnlyIfHigh
  <2> SUFFICES ASSUME TypeOK, Genuine, ReadsInOrder,
                      NEW i \in DOMAIN output, NEW j \in DOMAIN output, i < j
               PROVE  LET a == output[i]  b == output[j]
                          glyph == text[a.glyph]
                      IN  \/ a.u + Width(glyph) <= b.u
                          \/ a.v + Height(glyph) <= b.v
                          \/ Height(glyph) > LineStep
    BY DEF OverlapsOnlyIfHigh
  <2> DEFINE a == output[i]
             b == output[j]
             height == Height(text[a.glyph])
  <2>1. height \in Nat /\ LineStep \in Nat
    BY BoxWidth, SheetAssumption DEF Genuine
  <2>2. a \in Box /\ b \in Box
    BY DEF TypeOK
  <2>3. a.v \in Nat /\ b.v \in Nat
    BY <2>2 DEF Box
  <2>4. \/ a.u + Width(text[a.glyph]) <= b.u
        \/ a.v + LineStep <= b.v
    BY DEF ReadsInOrder
  <2> HIDE DEF a, b, height
  <2>5. a.v + LineStep <= b.v => a.v + height <= b.v \/ height > LineStep
    BY <2>1, <2>3
  <2>6. QED
    BY <2>4, <2>5 DEF a, b, height
<1>2. QED
  BY <1>1, OrderInvariant, TypeCorrect, PTL

(***************************************************************************)
(* The glyphs on the sheet.                                                *)
(***************************************************************************)

Increasing ==
  \A i, j \in DOMAIN output : i < j => output[i].glyph < output[j].glyph

GlyphsBefore(n) == {i \in 1..(n - 1) : text[i].kind \in Drawn}

PassedGlyphs == GlyphsBefore(next + letter)

PlacedGlyphs == {output[i].glyph : i \in DOMAIN output}

AtTheEnd == phase = "done" => overflow = TRUE \/ next > Len(text)

LEMMA PassedNext ==
  ASSUME UNCHANGED text, NEW n, next' + letter' = n
  PROVE  PassedGlyphs' = GlyphsBefore(n)
BY DEF PassedGlyphs, GlyphsBefore

LEMMA OneMore ==
  ASSUME NEW n \in Nat \ {0}
  PROVE  /\ text[n].kind \in Drawn
              => GlyphsBefore(n + 1) = GlyphsBefore(n) \cup {n}
         /\ text[n].kind \notin Drawn => GlyphsBefore(n + 1) = GlyphsBefore(n)
<1>1. 1..((n + 1) - 1) = 1..(n - 1) \cup {n}
  OBVIOUS
<1>2. QED
  BY <1>1, Zenon DEF GlyphsBefore

\* No glyph of a text is left out, doubled or moved before another, and only an
\* overflow ends the loop early.
THEOREM NothingIsLost == Spec => []NothingLost
<1> DEFINE Inv == Increasing /\ PlacedGlyphs = PassedGlyphs /\ AtTheEnd
<1>1. Init => Inv
  BY DEF Init, Increasing, PlacedGlyphs, PassedGlyphs, GlyphsBefore, AtTheEnd
<1>2. TypeOK /\ Inv /\ [Next]_vars => Inv'
  <2> SUFFICES ASSUME TypeOK, Inv, [Next]_vars
               PROVE  Inv'
    OBVIOUS
  <2> DEFINE now == next + letter
  <2>1. text' = text /\ now \in Nat \ {0}
    BY StepKinds DEF call, TypeOK, LoopOK
  <2>2. AtTheEnd'
    BY <2>1, StepKinds DEF Ends, AtTheEnd
  <2>3. CASE output' = output /\ Passes
    <3>1. Increasing'
      BY <2>3 DEF Increasing
    <3>2. PlacedGlyphs' = PlacedGlyphs
      BY <2>3 DEF PlacedGlyphs
    <3>3. PassedGlyphs' = PassedGlyphs
      <4>1. CASE next' + letter' = now
        BY <2>1, <4>1, PassedNext DEF PassedGlyphs
      <4>2. CASE next' + letter' = now + 1 /\ text[now].kind \notin Drawn
        <5>1. PassedGlyphs' = GlyphsBefore(now + 1)
          BY <2>1, <4>2, PassedNext
        <5>2. GlyphsBefore(now + 1) = GlyphsBefore(now)
          BY <2>1, <4>2, OneMore
        <5>3. QED
          BY <5>1, <5>2 DEF PassedGlyphs
      <4>3. QED
        BY <2>3, <4>1, <4>2 DEF Passes
    <3>4. QED
      BY <2>2, <3>1, <3>2, <3>3
  <2>4. CASE \E u \in Nat : Places(u)
    <3>1. PICK u \in Nat : Places(u)
      BY <2>4
    <3> DEFINE m == Len(output) + 1
    <3>2. /\ DOMAIN output = 1..(m - 1) /\ m \in Nat
          /\ DOMAIN output' = 1..m
          /\ \A i \in 1..(m - 1) : output'[i] = output[i]
      BY <3>1, Placed DEF TypeOK
    <3>3. output'[m].glyph = now
      <4>1. output'[m] = NewBox(u)
        BY <3>1, Placed
      <4>2. QED
        BY <4>1 DEF NewBox
    <3>4. now \in 1..Len(text) /\ text[now].kind \in Drawn
      BY <3>1, Placed DEF IsGlyph
    <3>5. next' + letter' = now + 1
      <4>1. Advance /\ (Alone \/ phase = "word")
        BY <3>1 DEF Places
      <4>2. QED
        BY <2>1, <4>1, AdvanceOK
    <3>6. PassedGlyphs' = PassedGlyphs \cup {now}
      <4>1. PassedGlyphs' = GlyphsBefore(now + 1)
        BY <2>1, <3>5, PassedNext
      <4>2. GlyphsBefore(now + 1) = GlyphsBefore(now) \cup {now}
        BY <2>1, <3>4, OneMore
      <4>3. QED
        BY <4>1, <4>2 DEF PassedGlyphs
    <3>7. PlacedGlyphs' = PlacedGlyphs \cup {now}
      BY <3>2, <3>3 DEF PlacedGlyphs
    <3>8. \A i \in DOMAIN output : output[i].glyph < now
      <4>1. \A i \in DOMAIN output : output[i].glyph \in PassedGlyphs
        BY DEF PlacedGlyphs
      <4>2. QED
        BY <2>1, <4>1 DEF PassedGlyphs, GlyphsBefore
    <3>9. Increasing'
      BY <3>2, <3>3, <3>8 DEF Increasing
    <3>10. QED
      BY <2>2, <3>6, <3>7, <3>9
  <2>5. QED
    BY <2>3, <2>4, StepKinds DEF Stays, Breaks
<1>3. TypeOK /\ Inv => NothingLost
  <2>1. TypeOK => next + letter - 1 = (next + letter) - 1
    BY DEF TypeOK, LoopOK
  <2>2. QED
    BY <2>1, Zenon
       DEF Increasing, PlacedGlyphs, PassedGlyphs, GlyphsBefore, AtTheEnd,
           NothingLost
<1>4. QED
  BY <1>1, <1>2, <1>3, TypeCorrect, PTL DEF Spec

(***************************************************************************)
(* The margins.  A word has been measured letter by letter, and the one    *)
(* that is being placed fits between its first column and the right        *)
(* margin, as far as words are wrapped, and on the sheet.                  *)
(***************************************************************************)

LetterOK(i) ==
  /\ word[i] > 0 /\ word[i] <= word[Len(word)]
  /\ word[i] = IF i = 1 THEN Width(text[next])
               ELSE word[i - 1] + LetterSpace + Width(text[next + (i - 1)])

WordOK == \A i \in DOMAIN word : LetterOK(i)

\* The column of the word's first letter.
WordStart == IF letter = 0 THEN cursorU ELSE cursorU - word[letter]

WordRoom ==
  phase = "word" =>
    /\ cursorV + CharHeight["ascii"] <= Bottom
    /\ wrapWords =>
         \/ WordStart + TokenWidth <= Right
         \/ WordStart = Left /\ Len(word) = 1

CursorInside ==
  /\ cursorU >= Left /\ cursorV >= Top
  /\ ~hasContent => cursorU = Left

BoxInside(box) ==
  /\ box.u >= Left /\ box.v >= Top
  /\ \/ box.u + Width(text[box.glyph]) <= Right
     \/ box.u = Left
     \/ ~wrapWords /\ text[box.glyph].kind = "ascii"
  /\ \/ box.v + Height(text[box.glyph]) <= Bottom
     \/ text[box.glyph].kind = "ascii" /\ text[box.glyph].height > 1

\* A token that is not a word has not been measured.
LEMMA NoWord ==
  ASSUME TypeOK, AtToken({"newline", "space"})
  PROVE  word = <<>>
<1>1. SUFFICES ASSUME word # <<>> PROVE FALSE
  OBVIOUS
<1>2. 1 \in DOMAIN word
  BY <1>1 DEF TypeOK, LoopOK
<1>3. IsLetter(next + 1 - 1)
  BY <1>2 DEF TypeOK, LoopOK
<1>4. QED
  BY <1>3 DEF AtToken, IsLetter, TypeOK, LoopOK

LEMMA WordSteps ==
  ASSUME TypeOK, [Next]_vars
  PROVE  \/ word' = word /\ (word = <<>> \/ next' = next)
         \/ word' = <<>>
         \/ Measure
<1>1. CASE Newline \/ Space
  <2>1. AtToken({"newline", "space"}) /\ word' = word
    BY <1>1 DEF Newline, Space, AtToken
  <2>2. QED
    BY <2>1, NoWord
<1>2. CASE PlaceAlone \/ PlaceLetter
  <2>1. Advance
    BY <1>2 DEF PlaceAlone, PlaceLetter
  <2>2. QED
    BY <2>1, Zenon DEF Advance
<1>3. CASE Finish \/ StartWord \/ SplitWord
  BY <1>3 DEF Finish, StartWord, SplitWord
<1>4. CASE BreakBeforeGlyph \/ BreakBeforeWord
  BY <1>4 DEF BreakBeforeGlyph, BreakBeforeWord, BreakLine, loop
<1>5. CASE OverflowGlyph \/ OverflowWord
  BY <1>5 DEF OverflowGlyph, OverflowWord, SkipRemaining
<1>6. CASE UNCHANGED vars
  BY <1>6 DEF vars, loop
<1>7. QED
  BY <1>1, <1>2, <1>3, <1>4, <1>5, <1>6 DEF Next

LEMMA WordStep ==
  ASSUME TypeOK, WordOK, [Next]_vars
  PROVE  WordOK'
<1>1. text' = text
  BY StepKinds DEF call
<1>2. CASE word' = <<>>
  BY <1>2 DEF WordOK
<1>3. CASE word' = word /\ next' = next
  BY <1>1, <1>3, Zenon DEF WordOK, LetterOK
<1>4. CASE Measure
  <2> DEFINE len   == Len(word)
             width == Width(text[next + len])
             total == IF word = <<>> THEN width
                      ELSE word[len] + LetterSpace + width
  <2>1. IsLetter(next + len) /\ word' = Append(word, total) /\ next' = next
    BY <1>4 DEF Measure
  <2>2. next + len \in 1..Len(text) /\ text[next + len].kind \in Drawn
    BY <2>1 DEF IsLetter, TypeOK, Drawn
  <2>3. width \in Nat \ {0}
    BY <2>2, BoxWidth DEF IsGlyph
  <2>4. total \in Nat
    BY <2>3, MeasuredOK
  <2>5. /\ word \in Seq(Nat) /\ len \in Nat /\ next \in Nat
        /\ DOMAIN word = 1..len /\ LetterSpace \in Nat
    BY SheetAssumption DEF TypeOK, LoopOK
  <2>6. /\ DOMAIN word' = 1..(len + 1) /\ Len(word') = len + 1
        /\ \A i \in 1..len : word'[i] = word[i]
        /\ word'[len + 1] = total
    BY <2>1, <2>4, <2>5
  <2>7. total > 0 /\ (len > 0 => word[len] \in Nat /\ word[len] <= total)
    BY <2>3, <2>4, <2>5
  <2> HIDE DEF total, width
  <2>8. ASSUME NEW i \in 1..(len + 1)
        PROVE  /\ word'[i] > 0 /\ word'[i] <= total
               /\ word'[i] = IF i = 1 THEN Width(text[next])
                             ELSE word'[i - 1] + LetterSpace
                                    + Width(text[next + (i - 1)])
    <3>1. CASE i \in 1..len
      <4>1. LetterOK(i) /\ word'[i] = word[i] /\ word[i] \in Nat
        BY <2>5, <2>6, <3>1 DEF WordOK
      <4>2. i # 1 => word'[i - 1] = word[i - 1]
        BY <2>5, <2>6, <3>1
      <4>3. word[len] <= total /\ word[len] \in Nat
        BY <2>5, <2>7, <3>1
      <4>4. word[i] <= word[len] /\ word[i] > 0
        BY <4>1 DEF LetterOK
      <4>5. word[i] <= total
        BY <2>4, <4>1, <4>3, <4>4
      <4>6. QED
        BY <4>1, <4>2, <4>4, <4>5, Zenon DEF LetterOK
    <3>2. CASE i = len + 1
      <4>1. CASE word = <<>>
        <5>1. i = 1 /\ total = width /\ width = Width(text[next])
          BY <2>5, <3>2, <4>1 DEF total, width
        <5>2. QED
          BY <2>4, <2>6, <2>7, <3>2, <5>1
      <4>2. CASE word # <<>>
        <5>1. i # 1 /\ i - 1 = len /\ word'[i - 1] = word[len]
          BY <2>5, <2>6, <3>2, <4>2
        <5>2. total = word[len] + LetterSpace + width
          BY <4>2 DEF total
        <5>3. total <= total
          BY <2>4
        <5>4. QED
          BY <2>6, <2>7, <3>2, <5>1, <5>2, <5>3, Zenon DEF width
      <4>3. QED
        BY <4>1, <4>2
    <3>3. QED
      BY <2>5, <3>1, <3>2
  <2>9. QED
    BY <1>1, <2>1, <2>6, <2>8, Zenon DEF WordOK, LetterOK
<1>5. QED
  BY <1>2, <1>3, <1>4, WordSteps, Zenon

LEMMA Numbers ==
  ASSUME TypeOK
  PROVE  /\ cursorU \in Nat /\ cursorV \in Nat /\ hasContent \in BOOLEAN
         /\ Left \in Nat /\ Top \in Nat /\ LineStep \in Nat
         /\ Right \in Int /\ Bottom \in Int /\ LetterSpace \in Nat
         /\ CharHeight["ascii"] \in Nat
BY SheetAssumption DEF TypeOK, CursorOK, Drawn

\* The spaces before a glyph and before a word.
LEMMA LeadingOK ==
  ASSUME TypeOK
  PROVE  /\ LeadingAlone \in Nat /\ (~hasContent => LeadingAlone = 0)
         /\ LeadingWord \in Nat /\ (~hasContent => LeadingWord = 0)
<1>1. (pendingSpace /\ phase = "token") \in BOOLEAN /\ pendingSpace \in BOOLEAN
  BY DEF TypeOK, CursorOK
<1>2. QED
  BY <1>1, LeadingIsNat, Zenon DEF LeadingAlone, LeadingWord

LEMMA CursorInsideStep ==
  ASSUME TypeOK, CursorInside, [Next]_vars
  PROVE  CursorInside'
<1>1. CASE Newline \/ BreakBeforeGlyph \/ BreakBeforeWord
  <2>1. cursorU' = Left /\ cursorV' = cursorV + LineStep
    BY <1>1
       DEF Newline, BreakBeforeGlyph, BreakBeforeWord, BreakLine
  <2>2. QED
    BY <2>1, Numbers DEF CursorInside
<1>2. CASE PlaceAlone \/ PlaceLetter
  <2>1. hasContent' = TRUE /\ cursorV' = cursorV
    BY <1>2 DEF PlaceAlone, PlaceLetter
  <2>2. Alone \/ phase = "word"
    BY <1>2 DEF PlaceAlone, PlaceLetter
  <2>3. Width(Current) \in Nat
    BY <2>2, CurrentSize
  <2>4. cursorU' \in Nat /\ cursorU' >= cursorU
    BY <1>2, <2>3, Numbers, LeadingOK DEF PlaceAlone, PlaceLetter
  <2>5. QED
    BY <2>1, <2>4, Numbers DEF CursorInside
<1>3. CASE StartWord
  BY <1>3, Numbers, LeadingOK DEF StartWord, CursorInside
<1>4. CASE UNCHANGED <<cursorU, cursorV, hasContent>>
  BY <1>4 DEF CursorInside
<1>5. CASE Finish \/ Space \/ Measure \/ SplitWord \/ UNCHANGED vars
  BY <1>4, <1>5 DEF Finish, Space, Measure, SplitWord, vars, cursor
<1>6. CASE OverflowGlyph \/ OverflowWord
  BY <1>4, <1>6 DEF OverflowGlyph, OverflowWord, SkipRemaining, cursor
<1>7. QED
  BY <1>1, <1>2, <1>3, <1>5, <1>6 DEF Next

LEMMA InWord ==
  ASSUME TypeOK, [Next]_vars, phase' = "word"
  PROVE  \/ StartWord
         \/ PlaceLetter /\ letter + 1 < Len(word)
         \/ phase = "word" /\ UNCHANGED <<loop, cursor>>
<1>1. CASE Finish \/ Newline \/ Space \/ Measure \/ SplitWord
  BY <1>1 DEF Finish, Newline, Space, Measure, SplitWord, AtToken, AtWord
<1>2. CASE BreakBeforeGlyph \/ BreakBeforeWord
  BY <1>2 DEF BreakBeforeGlyph, BreakBeforeWord, BreakLine, loop, Alone,
              AtToken, AtWord
<1>3. CASE OverflowGlyph \/ OverflowWord
  BY <1>3 DEF OverflowGlyph, OverflowWord, SkipRemaining
<1>4. CASE PlaceAlone
  BY <1>4 DEF PlaceAlone, Alone, AtToken, Advance
<1>5. CASE PlaceLetter
  BY <1>5 DEF PlaceLetter, Advance
<1>6. CASE UNCHANGED vars
  BY <1>6 DEF vars, loop
<1>7. QED
  BY <1>1, <1>2, <1>3, <1>4, <1>5, <1>6 DEF Next

LEMMA WordRoomStep ==
  ASSUME TypeOK, WordOK, WordRoom, CursorInside, [Next]_vars
  PROVE  WordRoom'
<1>1. SUFFICES ASSUME phase' = "word"
               PROVE  /\ cursorV' + CharHeight["ascii"] <= Bottom
                      /\ wrapWords =>
                           \/ WordStart' + TokenWidth' <= Right
                           \/ WordStart' = Left /\ Len(word') = 1
  <2>1. wrapWords' = wrapWords
    BY StepKinds DEF call
  <2>2. QED
    BY <2>1, Zenon DEF WordRoom
<1>2. CASE StartWord
  <2>1. /\ phase = "token" /\ word # <<>> /\ ~LongWord /\ FitsWord /\ ~LowWord
        /\ cursorU' = cursorU + LeadingWord /\ cursorV' = cursorV
        /\ word' = word /\ letter' = letter
    BY <1>2 DEF StartWord, AtWord
  <2>2. /\ letter = 0 /\ Len(word) \in DOMAIN word
        /\ Len(word) \in Nat /\ Len(word) >= 1
    BY <2>1 DEF TypeOK, LoopOK
  <2>3. TokenWidth \in Nat /\ TokenWidth > 0
    BY <2>2 DEF TokenWidth, WordOK, LetterOK, TypeOK, LoopOK
  <2>4. WordStart' = cursorU' /\ TokenWidth' = TokenWidth
    BY <2>1, <2>2 DEF WordStart, TokenWidth
  <2>5. cursorV' + CharHeight["ascii"] <= Bottom
    BY <2>1, Numbers DEF LowWord
  <2>6. ASSUME wrapWords
        PROVE  \/ WordStart' + TokenWidth' <= Right
               \/ WordStart' = Left /\ Len(word') = 1
    <3>1. CASE hasContent
      BY <2>1, <2>3, <2>4, <2>6, <3>1, Numbers, LeadingOK
         DEF FitsWord, Fits
    <3>2. CASE ~hasContent
      <4>1. cursorU' = Left
        BY <2>1, <3>2, Numbers, LeadingOK DEF CursorInside
      <4>2. TokenWidth <= Available \/ Len(word) = 1
        <5>1. Available \in Nat
          BY Numbers DEF Available
        <5>2. ~(TokenWidth > Available) \/ ~(Len(word) > 1)
          BY <2>1, <2>6, Zenon DEF LongWord
        <5>3. QED
          BY <2>2, <2>3, <5>1, <5>2
      <4>3. QED
        BY <2>1, <2>3, <2>4, <4>1, <4>2, Numbers DEF Available
    <3>3. QED
      BY <3>1, <3>2
  <2>7. QED
    BY <2>5, <2>6
<1>3. CASE PlaceLetter /\ letter + 1 < Len(word)
  <2>1. /\ phase = "word" /\ letter' = letter + 1 /\ word' = word
        /\ cursorV' = cursorV /\ next' = next
    BY <1>3 DEF PlaceLetter, Advance
  <2>2. /\ letter \in Nat /\ letter + 1 \in DOMAIN word
        /\ word[letter + 1] \in Nat
        /\ letter # 0 => word[letter] \in Nat
    BY <1>3 DEF TypeOK, LoopOK
  <2>3. cursorU' = WordStart + word[letter + 1]
    <3>1. LetterOK(letter + 1) /\ (letter + 1) - 1 = letter
      BY <2>2 DEF WordOK
    <3>2. Width(Current) \in Nat
      BY <2>1, CurrentSize
    <3>3. CASE letter = 0
      <4>1. word[letter + 1] = Width(Current)
        BY <2>2, <3>1, <3>3 DEF LetterOK, Current, TypeOK, LoopOK
      <4>2. cursorU' = cursorU + Width(Current)
        BY <1>3, <3>3 DEF PlaceLetter
      <4>3. QED
        BY <3>3, <4>1, <4>2 DEF WordStart
    <3>4. CASE letter # 0
      <4>1. word[letter + 1] = word[letter] + LetterSpace + Width(Current)
        BY <2>2, <3>1, <3>4 DEF LetterOK, Current
      <4>2. cursorU' = cursorU + LetterSpace + Width(Current)
        BY <1>3, <3>4 DEF PlaceLetter
      <4>3. QED
        BY <2>2, <3>2, <3>4, <4>1, <4>2, Numbers DEF WordStart
    <3>5. QED
      BY <3>3, <3>4
  <2>4. WordStart' = WordStart
    <3>1. WordStart' = cursorU' - word[letter + 1]
      BY <2>1, <2>2 DEF WordStart
    <3>2. WordStart \in Int
      BY <2>2, Numbers DEF WordStart
    <3>3. QED
      BY <2>2, <2>3, <3>1, <3>2
  <2>5. TokenWidth' = TokenWidth
    BY <2>1 DEF TokenWidth
  <2>6. QED
    BY <2>1, <2>4, <2>5 DEF WordRoom
<1>4. CASE phase = "word" /\ UNCHANGED <<loop, cursor>>
  BY <1>4 DEF WordRoom, WordStart, TokenWidth, loop, cursor
<1>5. QED
  BY <1>1, <1>2, <1>3, <1>4, InWord

LEMMA Shifted ==
  ASSUME NEW a \in Int, NEW b \in Int, NEW c \in Int, NEW d \in Int
  PROVE  a + c + d = (a - b) + (b + c + d)
OBVIOUS

LEMMA NewBoxInside ==
  ASSUME TypeOK, WordOK, WordRoom, CursorInside, [Next]_vars,
         NEW u \in Nat, Places(u)
  PROVE  BoxInside(NewBox(u))
<1>1. /\ Width(Current) \in Nat /\ Height(Current) \in Nat
      /\ Alone \/ phase = "word"
  BY CurrentSize DEF Places
<1>2. cursorU' = u + Width(Current) /\ u >= cursorU
  BY DEF Places
<1>3. /\ NewBox(u).u = u /\ NewBox(u).v = cursorV
      /\ text[NewBox(u).glyph] = Current
  BY DEF NewBox, Current
<1>4. NewBox(u).u >= Left /\ NewBox(u).v >= Top
  BY <1>2, <1>3, Numbers DEF CursorInside
<1>5. PlaceAlone \/ PlaceLetter
  <2>1. output' # output
    <3>1. DOMAIN output' = 1..(Len(output) + 1) /\ Len(output) \in Nat
      BY Placed DEF TypeOK
    <3>2. DOMAIN output = 1..Len(output)
      BY DEF TypeOK
    <3>3. QED
      BY <3>1, <3>2
  <2>2. Finish \/ Newline \/ Space \/ Measure \/ SplitWord \/ StartWord
          => output' = output
    BY DEF Finish, Newline, Space, Measure, SplitWord, StartWord
  <2>3. BreakBeforeGlyph \/ BreakBeforeWord => output' = output
    BY DEF BreakBeforeGlyph, BreakBeforeWord, BreakLine
  <2>4. OverflowGlyph \/ OverflowWord => output' = output
    BY DEF OverflowGlyph, OverflowWord, SkipRemaining
  <2>5. QED
    BY <2>1, <2>2, <2>3, <2>4 DEF Next, vars
<1>6. CASE PlaceAlone
  <2>1. /\ FitsAlone /\ ~LowAlone
        /\ u + Width(Current) = cursorU + LeadingAlone + Width(Current)
    BY <1>2, <1>6 DEF PlaceAlone
  <2>2. cursorV + Height(Current) <= Bottom
    BY <1>1, <2>1, Numbers DEF LowAlone
  <2>3. u = cursorU + LeadingAlone
    BY <1>1, <2>1, Numbers, LeadingOK
  <2>4. u + Width(Current) <= Right \/ u = Left
    <3>1. CASE hasContent
      BY <1>1, <2>1, <3>1 DEF FitsAlone, Fits
    <3>2. CASE ~hasContent
      BY <2>3, <3>2, Numbers, LeadingOK DEF CursorInside
    <3>3. QED
      BY <3>1, <3>2
  <2>5. QED
    BY <1>3, <1>4, <2>2, <2>4 DEF BoxInside
<1>7. CASE PlaceLetter
  <2>1. phase = "word" /\ Current.kind = "ascii" /\ Current \in Glyph
    BY <1>7, CurrentGlyph DEF PlaceLetter
  <2>2. \/ cursorV + Height(Current) <= Bottom
        \/ Current.kind = "ascii" /\ Current.height > 1
    <3>1. CASE Current.height = 1
      <4>1. Height(Current) = CharHeight["ascii"]
        BY <2>1, <3>1, Numbers DEF Height
      <4>2. QED
        BY <2>1, <4>1 DEF WordRoom
    <3>2. CASE Current.height # 1
      BY <2>1, <3>2 DEF Glyph
    <3>3. QED
      BY <3>1, <3>2
  <2>3. ASSUME wrapWords
        PROVE  u + Width(Current) <= Right \/ u = Left
    <3>1. /\ letter \in Nat /\ letter + 1 \in DOMAIN word
          /\ word[letter + 1] \in Nat /\ Len(word) \in DOMAIN word
          /\ word[Len(word)] \in Nat /\ letter < Len(word)
          /\ letter # 0 => word[letter] \in Nat
      <4>1. letter < Len(word) /\ letter \in Nat /\ word \in Seq(Nat)
        BY <2>1 DEF TypeOK, LoopOK
      <4>2. \A i \in 1..Len(word) : word[i] \in Nat /\ i \in DOMAIN word
        BY <4>1
      <4>3. /\ Len(word) \in 1..Len(word) /\ letter + 1 \in 1..Len(word)
            /\ letter # 0 => letter \in 1..Len(word)
        BY <4>1
      <4>4. QED
        BY <4>1, <4>2, <4>3
    <3>2. /\ LetterOK(letter + 1) /\ (letter + 1) - 1 = letter
          /\ word[letter + 1] <= TokenWidth
      BY <3>1 DEF WordOK, LetterOK, TokenWidth
    <3>3. CASE letter = 0
      <4>1. word[letter + 1] = Width(Current)
        BY <3>1, <3>2, <3>3 DEF LetterOK, Current, TypeOK, LoopOK
      <4>2. u = cursorU /\ WordStart = cursorU
        <5>1. u + Width(Current) = cursorU + Width(Current)
          BY <1>2, <1>7, <3>3 DEF PlaceLetter
        <5>2. QED
          BY <1>1, <3>3, <5>1, Numbers DEF WordStart
      <4>3. QED
        BY <2>1, <2>3, <3>1, <3>2, <4>1, <4>2, Numbers
           DEF WordRoom, TokenWidth
    <3>4. CASE letter # 0
      <4>1. word[letter + 1] = word[letter] + LetterSpace + Width(Current)
        BY <3>1, <3>2, <3>4 DEF LetterOK, Current
      <4>2. u + Width(Current) = cursorU + LetterSpace + Width(Current)
        BY <1>2, <1>7, <3>4 DEF PlaceLetter
      <4>3. u + Width(Current) = WordStart + word[letter + 1]
        <5>1. WordStart = cursorU - word[letter]
          BY <3>4 DEF WordStart
        <5>2. word[letter] \in Int /\ cursorU \in Int /\ LetterSpace \in Int
          BY <3>1, <3>4, Numbers
        <5>3. QED
          BY <1>1, <4>1, <4>2, <5>1, <5>2, Shifted
      <4>4. WordStart \in Int /\ Len(word) # 1
        BY <3>1, <3>4, Numbers DEF WordStart
      <4>5. WordStart + TokenWidth <= Right
        BY <2>1, <2>3, <4>4 DEF WordRoom
      <4>6. QED
        BY <3>1, <3>2, <4>3, <4>4, <4>5, Numbers DEF TokenWidth
    <3>5. QED
      BY <3>3, <3>4
  <2>4. QED
    BY <1>3, <1>4, <2>1, <2>2, <2>3, Zenon DEF BoxInside
<1>8. QED
  BY <1>5, <1>6, <1>7

\* Nothing crosses a margin but what is wider than the sheet, an unwrapped
\* word, or a letter higher than the rest.
THEOREM StaysInside == Spec => []InsidePaper
<1> DEFINE Inv == /\ WordOK /\ WordRoom /\ CursorInside
                  /\ \A i \in DOMAIN output : BoxInside(output[i])
<1>1. Init => Inv
  BY SheetAssumption DEF Init, WordOK, WordRoom, CursorInside
<1>2. TypeOK /\ Inv /\ [Next]_vars => Inv'
  <2> SUFFICES ASSUME TypeOK, Inv, [Next]_vars
               PROVE  Inv'
    OBVIOUS
  <2>1. WordOK' /\ WordRoom' /\ CursorInside'
    BY WordStep, WordRoomStep, CursorInsideStep
  <2>2. UNCHANGED <<text, wrapWords>>
    BY StepKinds DEF call
  <2>3. \A i \in DOMAIN output' : BoxInside(output'[i])
    <3>1. CASE UNCHANGED output
      BY <3>1
    <3>2. CASE \E u \in Nat : Places(u)
      <4>1. PICK u \in Nat : Places(u)
        BY <3>2
      <4>2. /\ DOMAIN output' = 1..(Len(output) + 1)
            /\ \A i \in 1..Len(output) : output'[i] = output[i]
            /\ output'[Len(output) + 1] = NewBox(u)
            /\ Len(output) \in Nat /\ DOMAIN output = 1..Len(output)
        BY <4>1, Placed DEF TypeOK
      <4>3. BoxInside(NewBox(u))
        BY <4>1, NewBoxInside
      <4>4. \A i \in 1..(Len(output) + 1) :
              i \in 1..Len(output) \/ i = Len(output) + 1
        BY <4>2
      <4>5. QED
        BY <4>2, <4>3, <4>4, Zenon
    <3>3. QED
      BY <3>1, <3>2, StepKinds DEF Stays, Breaks
  <2>4. QED
    BY <2>1, <2>2, <2>3, Zenon DEF BoxInside
<1>3. Inv => InsidePaper
  BY Zenon DEF InsidePaper, BoxInside
<1>4. QED
  BY <1>1, <1>2, <1>3, TypeCorrect, PTL DEF Spec
=============================================================================
