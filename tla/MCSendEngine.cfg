SPECIFICATION Spec
CONSTANTS
  Jobs = {j1, j2, j3}
  Simulations = {j1}
  Pages = {p1}
  Stores = {s1}
  StoreOf <- OneStore
  Keys = {w, d}
  WalletOf <- MCWalletOf
  Wallets <- MCWallets
  KeysOn <- FounderAndDevice
  w = w
  d = d
  s1 = s1
  NoJob = NoJob
  Unset = Unset
  NoAuth = NoAuth
  CanSponsor = TRUE
  Endpoints = 2
  MaxReloads = 1
SYMMETRY Symmetry
INVARIANTS
  SendInv
  OneQuoteOneExecution
  IntentNoncesDistinct
PROPERTIES
  KeepsItsPromise
CHECK_DEADLOCK FALSE
