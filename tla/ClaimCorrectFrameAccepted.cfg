CONSTANTS
  Start = 170
  End = 85
  Poly = 7
  Readings <- MCReadings
SPECIFICATION Spec
INVARIANT CorrectFrameAccepted
