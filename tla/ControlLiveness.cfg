CONSTANTS
  IntMax = 4
  Default <- MCDefault
  GraceCeiling = 2
  Dts = {1}
  SimScale = 1
  BoostFor = 2
  LeastValid <- MCLeastValid
  Accepts <- MCAccepts
  Readings <- KnownOrNot
  RiseInputs = {"good"}
  PumpInputs <- NoInputs
  EmergencyInputs <- FrostBodies
  LimitInputs <- NoInputs
  SimInputs <- NoInputs
  SaveResults = {"ok"}
  MountResults = {TRUE}
  InitConfigs <- OneConfig
SPECIFICATION FairSpec
PROPERTIES
  BoostEnds
  ColdIsHeated
  HotIsReleased
  AntiFrostCycles
