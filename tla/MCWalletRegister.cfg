SPECIFICATION PagesSpec
CONSTANTS
  Wallets = {w1}
  People = {alice}
  Tasks = {c1}
  NoTask = NoTask
  OtherKey = OtherKey
  MaxRounds = 1
  Accounts = {w1}
  NoAccount = NoAccount
  Devices = {d1}
  Acts = {r1, r2}
  MaxKeys = 3
  MaxCalls = 2
PROPERTY RegisteredDeviceIsFound
CHECK_DEADLOCK FALSE
