SPECIFICATION Spec
CONSTANTS
  d1 = d1
  d2 = d2
  d3 = d3
  None = None
  Fd <- Descriptors
INVARIANTS
  TypeOK
  Counted
  RegistryExact
  WatchedAwake
PROPERTIES
  DeadLeave
