SPECIFICATION PagesSpec
CONSTANTS
  Wallets = {w1}
  People = {alice, bob}
  Tasks = {c1, c2, c3}
  NoTask = NoTask
  OtherKey = OtherKey
  MaxRounds = 1
  Accounts = {w1}
  NoAccount = NoAccount
  Devices = {d1, d2}
  Acts = {r1, r2, r3}
  MaxKeys = 3
  MaxCalls = 3
SYMMETRY Symmetry
INVARIANTS
  RecoveryInv
  RosterInv
PROPERTIES
  OnlyPickedKeysLeave
CHECK_DEADLOCK FALSE
