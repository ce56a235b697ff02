SPECIFICATION Spec
CONSTANTS
  a = a
  None = None
  Cred <- OneCred
  MaxVerify = 1
  Warmup = 1
  MaxAuth = 2
  MaxEvents = 2
PROPERTIES
  Recovers
