SPECIFICATION FairSpec
CONSTANTS
  a = a
  b = b
  c = c
  u1 = u1
  u2 = u2
  NoId = NoId
  Ids = {a, b}
  Size <- MCSize
  Allowed = {a, b}
  Uploads = {u1, u2}
  Envelopes = {1}
  MaxUploadBytes = 3
  MaxStorageBytes = 5
  MaxMultipartOverhead = 1
  Retention = 1
  MaxTime = 1
  Driver = "local"
  MaxInt = 1023
  Binary = 4
  Decimal = 3
  MaxMinutes = 30000
  Unset = Unset
  Numbers <- MCNumbers
PROPERTIES
  ExpiredReaped
  OrphansReaped
  UploadsEnd
