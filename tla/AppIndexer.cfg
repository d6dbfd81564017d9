SPECIFICATION Spec
CONSTANTS
  Ann = Ann  Bob = Bob  Contract = Contract  None = None
  MaxEvents = 3
  ForkEvents = 1
  Chains <- SmallChains
  Forks <- SmallForks
  Address <- Everyone
  Irrelevant <- Nobody
  Streams = 2
  MaxBlocks = 2
  MaxKeys = 2
INVARIANTS
  TypeOK
  EachOnce
  InChainOrder
  JobsAreDecoded
CHECK_DEADLOCK FALSE
