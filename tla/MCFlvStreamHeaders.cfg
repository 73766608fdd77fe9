SPECIFICATION Spec
CONSTANTS
  MaxSessions = 2
  MaxPackets = 2
  MaxStops = 2
  PatientCaller = TRUE
  Environments <- Failing
INVARIANTS
  HeadersFirst
CHECK_DEADLOCK FALSE
