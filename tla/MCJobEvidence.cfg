SPECIFICATION EvidenceSpec
CONSTANTS
  p1 = p1
  p2 = p2
  p3 = p3
  Proc <- MCProc
  RunId <- MCRunId
  Period <- MCPeriod
  NoPeriod = 0
  Free = free
  DiskFaults = TRUE
INVARIANTS
  DoneComplete
  ReceiptIsCommitPoint
  OneSuccessPerPeriod
CHECK_DEADLOCK FALSE
