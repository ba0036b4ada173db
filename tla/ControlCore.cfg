CONSTANTS
  IntMax = 4
  Default <- TightDefault
  GraceCeiling = 2
  Dts = {1}
  SimScale = 2
  BoostFor = 2
  LeastValid <- MCLeastValid
  Accepts <- TightAccepts
  Readings <- KnownOrNot
  RiseInputs = {"good"}
  PumpInputs <- PumpBodies
  EmergencyInputs <- NoInputs
  LimitInputs <- NoInputs
  SimInputs <- MixedBodies
  SaveResults = {"ok"}
  MountResults = {TRUE}
  InitConfigs <- TightConfig
SPECIFICATION Spec
INVARIANTS
  TypeOK
  LineNeedsACommand
  KillSwitchHolds
  SimulationIsHarmless
  BoostHasAnEnd
