SPECIFICATION FairSpec
CONSTANTS
  MaxSessions = 2
  MaxPackets = 2
  MaxStops = 2
  PatientCaller = TRUE
  Environments <- BestAndWorst
INVARIANTS
  CaptureRuns
  CleanStart
  FreshPackets
  HeadersUnlessFailed
PROPERTIES
  SessionsInTurn
  SessionEnds
CHECK_DEADLOCK FALSE
