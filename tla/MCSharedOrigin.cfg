SPECIFICATION Spec
CONSTANTS
  Opens = {o1, o2}
  Passkeys = {p1, p2}
  NoPasskey = NoPasskey
  Garbage = Garbage
  MaxTrouble = 2
SYMMETRY Symmetry
INVARIANTS
  SharedOriginIInv
  NobodyWaitsInVain
  AnswersAreOwn
  AnswersAreNotLost
CHECK_DEADLOCK FALSE
