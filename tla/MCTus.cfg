SPECIFICATION TusSpec
CONSTANTS
  a = a
  b = b
  u1 = u1
  c1 = c1
  c2 = c2
  NoId = NoId
  Ids = {a}
  Size <- MCSizeOne
  Allowed = {a}
  Uploads = {u1}
  Envelopes = {1}
  MaxUploadBytes = 1
  MaxStorageBytes = 2
  MaxMultipartOverhead = 1
  Retention = 2
  MaxTime = 2
  Driver = "local"
  MaxSessions = 2
  Calls = {c1}
  TTL = 1
  MaxTusResults = 1
  Overlap = FALSE
CONSTRAINTS
  FewAtATime
  InOrder
VIEW ButAnswers
INVARIANTS
  TusTypeOK
PROPERTIES
  LedgerStaysCovering
  StaysWithin
  LedgerStaysBalanced
  ReceivedStored
