SPECIFICATION Spec
CONSTANTS
  Configs <- MCConfigs
  Environments <- MCEnvironments
  MaxSteps = 4
PROPERTIES
  StartsReady
  RunningUnchanged
CHECK_DEADLOCK FALSE
