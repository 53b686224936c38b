SPECIFICATION OperationsSpec
CONSTANTS
  Op = {o1, o2}
  r1 = r1
  r2 = r2
  Root = {live, r1, r2}
  Live = live
  market = market
  macro = macro
  RoleSeq <- MCRoleSeq
  Runs <- MCRuns
  Failures = {2}
  Past <- MCPast
  MaxLedger = 2
  Nobody = nobody
  Absent = absent
  Torn = torn
  Attempt = {a1, a2}
  Response <- MCResponse
  Price = {1, 2, 3}
  Date = {1, 2}
  None = none
INVARIANTS
  BackfillSound
  LiveHoldsStill
  ExportRestsOnCheckpoint
  SuccessReopensExport
PROPERTIES
  NothingOverwritten
  CopiesSpec
SYMMETRY Symmetry
CHECK_DEADLOCK FALSE
