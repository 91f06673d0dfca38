SPECIFICATION FairSpec
CONSTANTS
  Guardian = {g1, g2}
  Signer = {g1}
  Key = {k1, k2}
  NoKey = NoKey
  Delay = {1, 2}
  MinDelay = 1
  MaxDelay = 2
  Threshold = {1, 2}
  OpKind = {}
  MaxRoster = 2
  MaxTime = 4
  MaxOps = 0
  MaxRounds = 2
CHECK_DEADLOCK FALSE
INVARIANTS
  OneCandidatePerRound
PROPERTIES
  StartedRecoveryCompletes
