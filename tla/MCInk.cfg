SPECIFICATION InkSpec
CONSTANTS
  Sheet <- ThreePlaces
  Away = 0
  MinDistance = 2
  MaxInkStrokes = 4
  MaxLines = 3
  MaxPoints = 3
INVARIANT InkTypeOK
INVARIANT LinesOfOneStroke
