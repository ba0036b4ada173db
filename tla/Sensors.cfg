CONSTANTS
  MaxSensors = 2
  AvgWindow = 1
  Timeout = 1
  StaleAfter = 1
  Adapt = 5
  MinLogical <- MCMinLogical
  MaxLogical = 8500
  Raws <- MCRaws
  Offsets = {0}
  Sources <- MCSources
  FrameRoom = 2
  NoTemp = NoTemp
  MaxPolls = 3
  MaxEdits = 2
SPECIFICATION MCSpec
INVARIANT TypeOK
INVARIANT UsableIsFresh
INVARIANT BlindIsReported
INVARIANT SuppressedIsNotOk
PROPERTY ReturnsByReading
PROPERTY CoolDownIsNoWindow
