SPECIFICATION Spec
CONSTANTS
  Ann = Ann  Bob = Bob  Cara = Cara  None = None  NoJob = NoJob
  w1 = w1  w2 = w2
  Worker = {w1, w2}
  Address = {Ann, Bob, Cara}
  Token <- Tokens
  Scenarios <- AllScenarios
  MaxLength = 5
  Copies = 2
  Attempts = 3
  MaxStalls = 1
CHECK_DEADLOCK FALSE
SYMMETRY WorkerSymmetry
INVARIANTS
  TypeOK
  NoOrphans
  AcknowledgedIsIndexed
  RowsLostToErrors
  OneRefusal
  SettledIsChain
  OneOwner
  PillIsChain
  TraitListsAgree
  TraitsFollowPill
  CountedOnce
  AmountsAddUp
