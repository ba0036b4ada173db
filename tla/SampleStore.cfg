CONSTANTS
  RingSize = 3
  DayLen = 3
  Batch = 2
  RowCap = 9
  ShownRows = 9
  Epoch = 1
  StartTimes = {29}
  Outages = {0}
  Kinds <- MCKinds
  MaxMinutes = 5
  MaxBoots = 2
  MaxEvents = 2
SPECIFICATION MCSpec
INVARIANTS
  TypeOK
  DownloadOrdered
  RowsAreDays
PROPERTIES
  RingIsRecent
  RowCountsDay
  ChartInOrder
