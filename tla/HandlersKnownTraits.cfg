SPECIFICATION Spec
CONSTANTS
  Ann = Ann  Bob = Bob  Cara = Cara  None = None  NoJob = NoJob
  w1 = w1  w2 = w2
  Worker = {w1, w2}
  Address = {Ann, Bob, Cara}
  Token <- Tokens
  Scenarios <- OneFault
  MaxLength = 2
  Copies = 1
  Attempts = 3
  MaxStalls = 1
CHECK_DEADLOCK FALSE
INVARIANT KnownTraitsComplete
