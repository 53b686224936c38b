SPECIFICATION FairSpec
CONSTANTS
  N = 3
  Deps <- MCDeps
  Store <- MCStore
  PrepareFault = {"transport", "unavailable"}
  PublishFault = {"schema", "io"}
  StepTimeout <- MCStepTimeout
  JobTimeout = 5
  Cap = 2
  LockTimeout = 1
  Backoff <- MCBackoff
  RetryAfter = {2}
  MaxDelay = 1
  Slack = 1
INVARIANTS
  ReceiptAccepted
  ReportedIsCommitted
PROPERTIES
  DependentsOnlyAfterSuccess
  RunEnds
CHECK_DEADLOCK FALSE
