SPECIFICATION Spec
CONSTANTS
  SseClient = FALSE
  Settings <- OneDelay
  HourLen = 2
  AgeCap = 2
  BootModes <- OffOnly
  SavedRelay <- Unset
  ClockAtBoot <- Valid
  Timed <- Either
  Toggles = TRUE
  MaxBoots = 0
PROPERTIES
  AutoOffFires
