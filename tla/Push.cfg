SPECIFICATION Spec
CONSTANTS
  c1 = c1
  f1 = f1
  Announced <- CountdownActive
  Unannounced <- CountdownActive
  Clients <- OneClient
  Mutators <- Everyone
  MaxWork = 2
INVARIANTS
  TypeOK
  PendingJustified
  Current
