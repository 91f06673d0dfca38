SPECIFICATION Spec
CONSTANTS
  Jobs = {j1, j2, j3}
  k1 = k1
  k2 = k2
  w1 = w1
  w2 = w2
  Keys = {k1, k2}
  NoKey = NoKey
  WalletOf <- Owners
  NoWallet = NoWallet
  Malformed = Malformed
  Chains <- OneChain
  Storages = {"memory", "local", "secure"}
INVARIANTS
  ProviderInv
PROPERTIES
  ConnectedIsProven
  AccountMovesInTheOpen
  RequestsSettle
CHECK_DEADLOCK FALSE
