SPECIFICATION Spec
CONSTANTS
  NotFinite = NotFinite
  Readings <- SomeReadings
  Targets <- SomeTargets
  Threshold = 1
INVARIANT TypeOK
INVARIANT StatusAgrees
INVARIANT FollowsLastMessages
