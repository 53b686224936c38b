SPECIFICATION FairSpec
CONSTANTS
  p1 = p1
  p2 = p2
  s1 = s1
  s2 = s2
  Process <- Processes
  Store <- Stores
  Uri <- Rank
  Timeout = 2
  Nobody = Nobody
INVARIANTS
  NoCircularWait
PROPERTIES
  SessionsSpec
  CallEnds
