SPECIFICATION DelegatedSpec
CONSTANTS
  Registered = {"T"}
  UnlimitedFrom = 5
  NoChain = NoChain
  NoAddress = "none"
  Requests <- MCRequests
  ChainsOfVault = {1}
  Credentials <- MCCredentials
  KeyOf <- MCKeyOf
  HandleOf <- MCHandleOf
  Connected = "device"
  OtherLogs <- MCOtherLogs
  Versions <- MCVersions
  Runs <- MCRuns
  Added = {4663}
  Reached = {8453}
  Typed <- MCTyped
  Elsewhere <- MCElsewhere
  MaxDeploys = 1
  Wallet = "W"
  SendChains = {"base", "sepolia", "robinhood"}
  UserCalls <- MCUserCalls
INVARIANTS
  SigningInv
  EngineRequestsAreShown
  DangerIsMarked
  RowsAddUp
  DelegationInv
PROPERTIES
  WrittenAfterTheDeploy
CHECK_DEADLOCK FALSE
