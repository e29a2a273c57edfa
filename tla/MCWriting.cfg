SPECIFICATION FairSpec
CONSTANTS
  c1 = c1
  c2 = c2
  line = line
  dot = dot
  None = None
  Clients <- TwoClients
  Strokes <- AllStrokes
  Points <- StrokePoints
  Layouts <- Texts
  RequiredPercent = 75
INVARIANT TypeOK
INVARIANT StatusSettled
INVARIANT ExecutesFromItsStart
INVARIANT CompletedIsWritten
INVARIANT AtMostTwice
PROPERTY Answered
PROPERTY ServesOneAtATime
PROPERTY DryRunIsStill
