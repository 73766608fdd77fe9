SPECIFICATION MCSpec
CONSTANTS
  TimebaseDen <- mc_TimebaseDen
  FirstDts <- mc_FirstDts
  Frames <- mc_Frames
  Advances <- mc_Advances
  HeaderSizes = {1, 40}
  MaxQueued = 2
  MaxData = 3
  MaxStreams = 2
  MaxRoom = 100
INVARIANTS
  TagRead
  AmfRead
PROPERTIES
  TimesForward
CHECK_DEADLOCK FALSE
