SPECIFICATION Spec
CONSTANTS
  Addrs = {a1}
  Sids = {1, 2}
  PartSize = 10
  Capacity = 25
  PartsOf <- MCPartsOf
  IdMax = 1
INVARIANTS
  TypeOK
  WholeUnlessLost
  CutCostsOnlyTheCut
