SPECIFICATION Spec
CONSTANTS
  SseClient = TRUE
  Settings <- OneDelay
  HourLen = 2
  AgeCap = 2
  BootModes <- AllModes
  SavedRelay <- Either
  ClockAtBoot <- Either
  Timed <- Either
  Toggles = TRUE
  MaxBoots = 1
INVARIANTS
  TypeOK
  RelayDurable
  AutoOffJustified
  AutoOffNotEarly
PROPERTIES
  PowerCutKeeps
