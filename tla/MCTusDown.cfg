SPECIFICATION TusFairSpec
CONSTANTS
  a = a
  b = b
  u1 = u1
  c1 = c1
  c2 = c2
  NoId = NoId
  Ids = {a, b}
  Size <- MCSize
  Allowed = {a, b}
  Uploads = {}
  Envelopes = {1}
  MaxUploadBytes = 2
  MaxStorageBytes = 3
  MaxMultipartOverhead = 1
  Retention = 2
  MaxTime = 2
  Driver = "local"
  MaxSessions = 1
  Calls = {c1}
  TTL = 1
  MaxTusResults = 1
  Overlap = FALSE
PROPERTIES
  ComesBack
