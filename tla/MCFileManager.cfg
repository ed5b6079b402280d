SPECIFICATION FileSpec
CONSTANTS
  a = a
  b = b
  r1 = r1
  d1 = d1
  NoId = NoId
  Ids = {a, b}
  Size <- MCSize
  Allowed = {a, b}
  Uploads = {}
  Envelopes = {1}
  MaxUploadBytes = 1
  MaxStorageBytes = 2
  MaxMultipartOverhead = 1
  Retention = 1
  MaxTime = 1
  Driver = "local"
  Readers = {r1}
  Deletions = {d1}
  MaxArchiveFiles = 2
  Names <- MCNames
  MaxEntries = 4
SYMMETRY MCSymmetry
ACTION_CONSTRAINT OneAtATime
INVARIANTS
  FileTypeOK
  ReadsExplained
  ListInSync
  EntriesDistinct
