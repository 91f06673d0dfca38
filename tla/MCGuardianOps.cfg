SPECIFICATION Spec
CONSTANTS
  Guardian = {g1, g2, g3}
  Signer = {}
  Key = {k1}
  NoKey = NoKey
  Delay = {0, 1, 2}
  MinDelay = 1
  MaxDelay = 1
  Threshold = {1, 2, 3}
  OpKind = {"Add", "Remove", "SetThreshold"}
  MaxRoster = 3
  MaxTime = 4
  MaxOps = 2
  MaxRounds = 1
SYMMETRY Symmetry
INVARIANTS
  IInv
PROPERTIES
  PromotionHadNotice
  ImplementsRecoveryVote
CHECK_DEADLOCK FALSE
