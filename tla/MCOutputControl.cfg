SPECIFICATION Spec
CONSTANTS
  WithStream = {"record"}
  Kept = {}
  MaxStarts = 3
  Environments <- AllEnvironments
INVARIANTS
  ProfileLock
  ButtonsTruthful
  FirstStopIsGentle
  FlvStartsFromRest
PROPERTIES
  ButtonComesBack
CHECK_DEADLOCK FALSE
