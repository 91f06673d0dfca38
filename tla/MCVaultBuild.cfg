SPECIFICATION Spec
CONSTANTS
  Registry <- MCRegistry
  Placeholder <- Example
  Localhost = {}
  RawConfigs <- MCRawConfigs
  Answers <- MCAnswers
  Bundles <- MCBundles
  Hosts <- MCHosts
  MaxBuilds = 2
  Absent = Absent
  Thrown = Thrown
INVARIANTS
  VaultInv
  ShippedPageRuns
PROPERTIES
  CheckedMeansProtected
CHECK_DEADLOCK FALSE
