SPECIFICATION Spec
CONSTANTS
  Strips = 2
  MaxFrames = 3
  MaxConnections = 2
  Size <- AlternatingSizes
  DefaultSize = 1
  Environments <- CalmAndFaulty
INVARIANTS
  TextureFits
PROPERTIES
  ShowsWholeFrames
  NeverOlder
  StartedFrameShown
