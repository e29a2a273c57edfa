SPECIFICATION Spec
CONSTANTS
  QueueSize = 2
  MaxSamples = 4
  MaxStrokes = 2
  MaxOthers = 1
INVARIANT TypeOK
INVARIANT StrokesStayApart
INVARIANT StrokesLeaveInk
