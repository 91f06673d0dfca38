SPECIFICATION FairRegistrySpec
CONSTANTS
  Attestor = {a1, a2, a3}
  Record = {r1, r2}
  FieldRecord = {r1}
  Quorum = 2
  AnchorWindow = 1
  GraceWindow = 1
  MaxTime = 4
  MaxChanges = 3
  Running = {a1, a2}
  Served = {r1}
INVARIANTS
  RegistryIInv
  QuorumWithinReach
PROPERTIES
  ExpiredKeysStayDead
  OnlyQuorumOwnerOrTimeRevives
  ServedKeysReachQuorum
CHECK_DEADLOCK FALSE
