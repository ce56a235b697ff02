SPECIFICATION Spec
CONSTANTS
  MinLen = 2
  DayMins = 3
  Week = 2
  FwdDays = 3
  MaxLate = 2
  NSlots = 2
  Candidates <- Mixed
  Tables <- Empty
  SseClient = TRUE
  Start = 6
  End = 16
  Drift = 1
INVARIANTS
  TypeOK
  FreshCycle
  OneOwner
  FiresDuly
  ActsOnLive
