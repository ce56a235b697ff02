SPECIFICATION TimingSpec
CONSTANTS
  z1 = z1
  z2 = z2
  Zones <- TwoZones
  MaxChecks = 2
  Threshold = 2
  Start = 3
  MaxReal = 5
  MaxLosses = 2
  MaxBoots = 2
INVARIANTS
  ClockRight
  NotForgotten
PROPERTIES
  Activates
  ZoneKept
