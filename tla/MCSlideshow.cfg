SPECIFICATION Spec
CONSTANTS
  Files <- AllFiles
  Lists <- SomeLists
  Settings <- SomeSettings
  MaxUpdates = 2
  Steadiness = {TRUE, FALSE}
INVARIANTS
  
  FrozenOnlyHidden
PROPERTIES
  HidesWhenDone
  EveryFileShown
CHECK_DEADLOCK FALSE
