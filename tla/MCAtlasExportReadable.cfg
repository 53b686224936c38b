SPECIFICATION Spec
CONSTANTS
  p1 = p1
  p2 = p2
  p3 = p3
  Publisher <- MCPublisher
  Attempt <- MCAttempt
  Revision <- MCRevision
  Nobody = nobody
  NoRevision = 0
  NoReceipt = noreceipt
INVARIANTS
  CurrentIsReadable
CHECK_DEADLOCK FALSE
