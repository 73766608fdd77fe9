SPECIFICATION Spec
CONSTANTS
  WithStream = {"record"}
  Kept = {}
  MaxStarts = 3
  Environments <- DelayedFlv
PROPERTIES
  FlvMenuStopsFlv
CHECK_DEADLOCK FALSE
