SPECIFICATION FairSpec
CONSTANTS
  alice = alice
  bob = bob
  carol = carol
  sa = sa
  nobody = nobody
  Accounts = {alice, bob, carol}
  NoKey = nobody
  UpgradeAuthority = carol
  NumSlots = 1
  NewKeys = {bob}
  TradeFees = {}
  Multipliers = {}
  Mints = {"wSOL", "T"}
  Wsol = "wSOL"
  SaAuthority = sa
  OrderIds = {1}
  Makers = {alice}
  Placements <- MCPlacements
  Updates <- MCUpdates
  Fills <- MCFills
  Donors = {bob}
  AskedFees = {1, 2}
  CheckDeadline = FALSE
  MIN_DEADLINE = 1
  ORDER_MIN_RENT = 3
  TOKEN_ACCOUNT_RENT = 2
  COMMISSION_DENOMINATOR = 2
  U64Max = 100
  WITHHELD_DENOMINATOR = 2
  InitialConfigs <- MCConfigs
  InitialTokens <- MCTokens
  InitialSol <- MCSol
  InitialWithheldRates <- BothRates
  WithheldRates = {}
  MaxTime = 2
  MaxPlaced = 1
INVARIANTS IInv
PROPERTIES MakerServed ResolverGainsOnlyFees  EscrowComesBack
CHECK_DEADLOCK FALSE
