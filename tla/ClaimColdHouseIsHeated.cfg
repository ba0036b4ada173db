CONSTANTS
  IntMax = 7
  Default <- MCDefault
  GraceCeiling = 2
  Dts = {1}
  SimScale = 1
  BoostFor = 3
  LeastValid <- MCLeastValid
  Accepts <- MCAccepts
  Readings <- KnownOrNot
  RiseInputs = {"none", "good"}
  PumpInputs <- NoInputs
  EmergencyInputs <- NoInputs
  LimitInputs <- NoInputs
  SimInputs <- NoInputs
  SaveResults = {"ok"}
  MountResults = {TRUE}
  InitConfigs <- OneConfig
  HistoryCap = 7
  MaxOnCeiling = 5
  StepCeiling = 1
  SettleCeiling = 3
SPECIFICATION HSpec
PROPERTY ColdHouseIsHeated
