SPECIFICATION Spec
CONSTANTS
  shoulder = shoulder
  elbow = elbow
  finger = finger
  Joints = {shoulder, elbow, finger}
  OwnLimits <- SomeOwnLimits
  AliasLimits <- SomeAliasLimits
  DefaultLimits <- SomeDefaultLimits
  TwoPi = 8
  Margin = 1
  NotFinite = NotFinite
  Nothing = Nothing
  Readings <- SomeReadings
  Trajectories <- SomeTrajectories
CHECK_DEADLOCK FALSE
INVARIANT TypeOK
INVARIANT BoundedAndEquivalent
INVARIANT GoodLeftAlone
