SPECIFICATION Spec
CONSTANTS
  Files <- AllFiles
  Lists <- SomeLists
  Settings <- SomeSettings
  MaxUpdates = 2
  Steadiness = {TRUE, FALSE}
INVARIANTS
  AlwaysPlays
CHECK_DEADLOCK FALSE
