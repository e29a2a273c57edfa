SPECIFICATION Spec
CONSTANTS
  Left = 1
  Right = 8
  Top = 1
  Bottom = 6
  CharWidth <- SomeWidths
  CharHeight <- SomeHeights
  LineStep = 2
  LetterSpace = 1
  HanziSpace = 1
  WordSpace = 2
  Texts <- SomeTexts
CHECK_DEADLOCK FALSE
INVARIANT TypeOK
INVARIANT InsidePaper
INVARIANT ReadsInOrder
INVARIANT NothingLost
