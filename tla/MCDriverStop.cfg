SPECIFICATION Spec
CONSTANTS
  scaled = scaled
  pos = pos
  Controllers <- TwoControllers
  Kinds <- CommandKinds
  Kind <- CommandKind
  MaxMail = 2
PROPERTY StopHitsItsProgram
