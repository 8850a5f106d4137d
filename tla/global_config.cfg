SPECIFICATION ConfigSpec
CONSTANTS
  deployer = deployer
  ann = ann
  ben = ben
  none = none
  Accounts = {deployer, ann, ben}
  NoKey = none
  UpgradeAuthority = deployer
  NumSlots = 2
  NewKeys = {deployer, ann, ben, none}
  TradeFees = {0, 1, 2}
  Multipliers = {9, 10, 11}
SYMMETRY MCSymmetry
INVARIANTS ConfigInv
PROPERTIES RemovedIsOut
