SPECIFICATION FairSpec
CONSTANTS
  c1 = c1
  c2 = c2
  evidence = evidence
  canonical = canonical
  retired = retired
  x = x
  y = y
  z = z
  Caller <- MixedCallers
  Runner <- OneRunner
  Request <- Requests
  Dataset <- Datasets
  Registered <- ActiveDatasets
  NoRun = NoRun
  Nobody = Nobody
INVARIANTS
  AnswerTrue
PROPERTIES
  LedgerSpec
  SessionsSpec
  CallAnswered
