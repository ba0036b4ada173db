CONSTANTS
  GraceCeiling = 1
  Events <- MCEvents
  QueueLen = 2
  Slots = 2
  Window = 2
  NetWait = 2
  RepeatCap = 2
  Contexts <- MCContexts
  Settings <- MCSettings
  LogGap = 1
  NoticeAge = 2
SPECIFICATION FairSpec
INVARIANTS
  TypeOK
  RepeatsKept
  AlertIsArmed
PROPERTIES
  LimiterExact
  RestartMailsApart
  ImplementsChannel
  NoticeEnds
