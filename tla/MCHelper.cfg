SPECIFICATION FairSpec
CONSTANTS
  Goals <- SomeGoals
  Stops <- AllStops
  MaxStops = 2
INVARIANT TypeOK
INVARIANT PlaysOnce
PROPERTY CommandsServeTheGoal
PROPERTY GoalEnds
