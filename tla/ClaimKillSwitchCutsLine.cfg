CONSTANTS
  IntMax = 5
  Default <- MCDefault
  GraceCeiling = 2
  Dts = {1}
  SimScale = 2
  BoostFor = 2
  LeastValid <- MCLeastValid
  Accepts <- MCAccepts
  Readings <- TwoReadings
  RiseInputs = {"none", "good"}
  PumpInputs <- NoInputs
  EmergencyInputs <- NoInputs
  LimitInputs <- NoInputs
  SimInputs <- NoInputs
  SaveResults = {"ok"}
  MountResults = {TRUE}
  InitConfigs <- PumpConfig
SPECIFICATION Spec
INVARIANT KillSwitchCutsLine
