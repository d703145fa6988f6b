SPECIFICATION Spec
CONSTANTS
  j1 = j1
  j2 = j2
  d1 = d1
  u1 = u1
  u2 = u2
  NoOne = NoOne
  Jobs <- TwoJobs
  Transfers <- AllTransfers
  Downloads <- OneDownload
  MaxInflight = 1
  MaxChunks = 1
INVARIANT
  FallbackStaysOpen
CHECK_DEADLOCK FALSE
