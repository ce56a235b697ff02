SPECIFICATION SyncedSpec
CONSTANTS
  Durations <- OneOrTwo
  Threshold = 2
  Start = 5
  MaxReal = 8
  Epochs <- AnyEpoch
  MaxBoots = 1
INVARIANTS
  TypeOK
  CountdownDurable
  NotLost
  NotEarly
PROPERTIES
  CountdownEnds
