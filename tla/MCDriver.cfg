SPECIFICATION FairSpec
CONSTANTS
  scaled = scaled
  pos = pos
  Controllers <- TwoControllers
  Kinds <- CommandKinds
  Kind <- CommandKind
  MaxMail = 2
INVARIANT TypeOK
INVARIANT FlagsMirror
INVARIANT StaleOnce
INVARIANT ControllersFollow
PROPERTY StopDelivered
