SPECIFICATION FairKeeperSpec
CONSTANTS
  Attestor = {a1, a2}
  Record <- MCRecord
  FieldRecord <- MCRecord
  Quorum = 2
  AnchorWindow = 0
  GraceWindow = 0
  MaxTime = 1
  MaxChanges = 0
  Kid = {kid1}
  Hash = {h1, h2}
  NoHash = NoHash
  Fault = {"fetch", "rpc", "receipt", "crash"}
  MaxFaults = 2
  MaxKeyChanges = 2
INVARIANTS
  KeeperInv
PROPERTIES
  LiveKeysGetAttested
  DroppedKeysGetRotated
CHECK_DEADLOCK FALSE
