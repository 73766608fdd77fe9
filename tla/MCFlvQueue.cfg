SPECIFICATION FairSpec
CONSTANTS
  Kinds <- NoReferenceB
  MaxPackets = 4
  MaxStops = 1
  MinBuffered = 2
  DropThreshold = 0
  PframeDropThreshold = 0
INVARIANTS
  NoLostWakeup
  OneOwner
  GopIntegrity
  FreshDuration
PROPERTIES
  SendsPlayable
  QueueDrains
  StopsEnd
CHECK_DEADLOCK FALSE
