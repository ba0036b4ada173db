CONSTANTS
  RingSize = 1
  DayLen = 1
  Batch = 2
  RowCap = 2
  ShownRows = 9
  Epoch = 1
  StartTimes = {29}
  Outages = {0}
  Kinds <- MCKinds
  MaxMinutes = 5
  MaxBoots = 2
  MaxEvents = 2
SPECIFICATION MCSpec
PROPERTIES
  CleanFileUntouched
