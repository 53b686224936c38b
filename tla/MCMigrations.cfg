SPECIFICATION Spec
CONSTANTS
  Initialiser <- MCInitialiser
  Gen <- MCGen
  Chain <- MCChain
  Creates <- MCCreates
  Owned <- MCOwned
  K = 2
  Nobody = "nobody"
INVARIANTS
  NoMixture
  DoneMeansReady
