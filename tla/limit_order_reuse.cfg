SPECIFICATION Spec
CONSTANTS
  alice = alice
  bob = bob
  carol = carol
  sa = sa
  nobody = nobody
  Accounts = {alice, bob, carol}
  NoKey = nobody
  UpgradeAuthority = carol
  NumSlots = 1
  NewKeys = {}
  TradeFees = {}
  Multipliers = {}
  Mints = {"wSOL", "T"}
  Wsol = "wSOL"
  SaAuthority = sa
  OrderIds = {1, 2}
  Makers = {alice}
  Placements <- MCPlacements
  Updates <- FewUpdates
  Fills <- FewFills
  Donors = {}
  AskedFees = {1}
  CheckDeadline = TRUE
  MIN_DEADLINE = 1
  ORDER_MIN_RENT = 3
  TOKEN_ACCOUNT_RENT = 2
  COMMISSION_DENOMINATOR = 2
  U64Max = 100
  WITHHELD_DENOMINATOR = 2
  InitialConfigs <- MCConfigs
  InitialTokens <- WealthyTokens
  InitialSol <- WealthySol
  InitialWithheldRates <- BothRates
  WithheldRates = {0, 1}
  MaxTime = 2
  MaxPlaced = 3
INVARIANTS IInv
CHECK_DEADLOCK FALSE
