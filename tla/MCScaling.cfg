SPECIFICATION ScalingFairSpec

CONSTANTS
  MaxSpeed = 5
  Increment = 2
  Memory = {0, 7}

INVARIANT StillWhileResuming
PROPERTY RisesSlowly
PROPERTY RunsAtFullSpeed
