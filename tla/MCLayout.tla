------------------------------- MODULE MCLayout -------------------------------
(***************************************************************************)
(* An instance of TextLayout for TLC: a sheet seven wide and five high,    *)
(* and every text of at most six of these glyphs.                         *)
(***************************************************************************)
EXTENDS TextLayout, SequencesExt, TLC

SomeGlyphs ==
  {[kind |-> "ascii", width |-> 1, height |-> 1],
   [kind |-> "ascii", width |-> 4, height |-> 2],
   [kind |-> "hanzi", width |-> 1, height |-> 1],
   [kind |-> "image", width |-> 1, height |-> 1],
   [kind |-> "space", width |-> 1, height |-> 1],
   [kind |-> "newline", width |-> 1, height |-> 1]}

SomeTexts  == BoundedSeq(SomeGlyphs, 6)
SomeWidths  == "ascii" :> 2 @@ "hanzi" :> 3 @@ "image" :> 7
SomeHeights == "ascii" :> 1 @@ "hanzi" :> 1 @@ "image" :> 4
=============================================================================
