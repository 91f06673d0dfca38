SPECIFICATION OidcSpec
CONSTANTS
  Attestor = {a1}
  Record = {r1}
  FieldRecord = {r1}
  Quorum = 1
  AnchorWindow = 1
  GraceWindow = 0
  MaxTime = 3
  MaxChanges = 0
  Guardian = {oidc, g1}
  Key = {k1}
  NoKey = NoKey
  Delay = {1}
  MinDelay = 1
  MaxDelay = 1
  Threshold = {1, 2}
  OpKind = {"Add", "Remove", "SetThreshold"}
  MaxRoster = 2
  MaxOps = 1
  MaxRounds = 1
  Oidc = oidc
  Identity = {i1, i2}
  NoIdentity = NoIdentity
  Choice = {i1, i2}
  IdentityChangeDelay = 1
  MaxProposals = 1
CHECK_DEADLOCK FALSE
SYMMETRY OidcSymmetry
INVARIANTS
  OidcTypeOK
PROPERTIES
  PromotionWasInTheOpen
  IdentityChangesWithNotice
