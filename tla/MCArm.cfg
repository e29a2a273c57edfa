SPECIFICATION FairSpec
CONSTANTS
  pos = pos
  eff = eff
  scaled = scaled
  Controllers <- Known
  Loaded <- Effort
  Arm = eff
  Startup = TRUE
  Unpause = TRUE
INVARIANT TypeOK
INVARIANT ArmIsHeld
PROPERTY ResetWhileStopped
PROPERTY RecoveryReturns
PROPERTY InitializerEnds
