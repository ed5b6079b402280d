SPECIFICATION TusSpec
CONSTANTS
  a = a
  b = b
  u1 = u1
  c1 = c1
  c2 = c2
  NoId = NoId
  Ids = {a, b}
  Size <- MCSize
  Allowed = {a, b}
  Uploads = {}
  Envelopes = {1}
  MaxUploadBytes = 2
  MaxStorageBytes = 2
  MaxMultipartOverhead = 1
  Retention = 1
  MaxTime = 2
  Driver = "oss"
  MaxSessions = 2
  Calls = {c1}
  TTL = 1
  MaxTusResults = 1
  Overlap = TRUE
CONSTRAINT BehindAloneLater
INVARIANTS
  StoredWithin
  AnswersHold
