SPECIFICATION Spec
CONSTANTS
  Parts <- mc_Parts
  Sources = {"a", "b"}
  Names = {"n1", "n2"}
  Monitors <- mc_Monitors
  MaxQueue = 2
  MaxViewSteps = 5
  ViewEnvironments <- ViewEnvironment
  Dialogs = {"properties"}
  MaxTraySteps = 5
  TrayEnvironments <- TrayEnvironment
  Items = {"a", "b"}
  Placements <- mc_Placements
  SourceSize <- mc_SourceSize
  Screen <- mc_Screen
  MaxTransforms = 4
  ItemEnvironments <- mc_ItemEnvironments
  ScreenSizes <- mc_ScreenSizes
  Configs <- mc_Configs
  VideoSettings <- mc_VideoSettings
  Services = {"rtmp_common", "rtmp_custom"}
  MaxStarts = 5
  ProfileEnvironments <- ProfileEnvironment
INVARIANTS
  MixerTruthful
  TrayTruthful
PROPERTIES
  NamesFollow
  PlaceKept
  ProfileKept
CHECK_DEADLOCK FALSE
