SPECIFICATION DocumentsSpec
CONSTANTS
  scan = scan
  rescan = rescan
  other = other
  clerk = clerk
  customer = customer
  Images = {scan, rescan, other}
  Distance <- MCDistance
  MaxHamming = 6
  SearchLimit = 2
  Analyses <- MCAnalyses
  Processes = 1
  Staff = {clerk}
  NoUpload = NoUpload
  MaxDocuments = 3
  UploadFaults = 1
  Backend = "ibm"
  BufferBytes = 2
  Chunk <- MCChunk
  MinShots <- MCMinShots
  MaxBytes = 4
  Qubits = 5
  Rounds = 2
  MinSample = 2
  Threshold = 11
  KeyBits = 3
  Readers = {clerk, customer}
  NoTask = NoTask
  MaxKeys = 2
  MaxFaults = 2
SYMMETRY Symmetry
INVARIANTS
  RowHasBlob
  CopyNeedsRelease
  NothingIsShort
  KeyIsReadOnce
CHECK_DEADLOCK FALSE
