SPECIFICATION Spec
CONSTANTS
  c1 = c1
  c2 = c2
  c3 = c3
  r1 = r1
  r2 = r2
  Clients = {c1, c2, c3}
  Requests = {r1, r2}
  MaxFailures = 2
  FailureWindow = 2
  MaxClients = 2
  SessionTTL = 2
  MaxTime = 3
  MaxProcesses = 2
SYMMETRY MCSymmetry
INVARIANTS
  AuthTypeOK
  AttemptsBounded
  RetryHolds
  SessionsLapse
PROPERTIES
  LockoutHolds
