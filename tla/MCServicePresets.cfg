SPECIFICATION Spec
CONSTANTS
  a = a
  b = b
  c = c
  u1 = u1
  u2 = u2
  NoId = NoId
  Ids = {a, b}
  Size <- MCSize
  Allowed <- MCAudio
  Uploads = {u1, u2}
  Envelopes = {1}
  MaxUploadBytes = 2
  MaxStorageBytes = 2
  MaxMultipartOverhead = 1
  Retention = 1
  MaxTime = 2
  Driver = "local"
  MaxInt = 1023
  Binary = 4
  Decimal = 3
  MaxMinutes = 30000
  Unset = Unset
  Numbers <- MCNumbers
INVARIANTS
  PresetHonoured
