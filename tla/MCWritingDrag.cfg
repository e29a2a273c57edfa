SPECIFICATION Spec
CONSTANTS
  c1 = c1
  c2 = c2
  line = line
  dot = dot
  None = None
  Clients <- TwoClients
  Strokes <- AllStrokes
  Points <- StrokePoints
  Layouts <- Texts
  RequiredPercent = 75
SYMMETRY ClientSymmetry
PROPERTY LiftedBetweenStrokes
