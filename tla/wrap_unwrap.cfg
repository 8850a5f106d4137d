SPECIFICATION Spec
CONSTANTS
  TokenAccounts <- MCTokenAccounts
  SolAccounts <- MCSolAccounts
  MintOf <- MCMintOf
  OwnerOf <- MCOwnerOf
  Denominator <- MCDenominator
  RateLimit <- MCRateLimit
  PlatformDenominator <- MCPlatformDenominator
  Requests <- MCRequests
  InitialBooks <- MCBooks
  payW = payW
  tempW = tempW
  vaultW = vaultW
  feeW = feeW
  alice = alice
  sa = sa
  rich = rich
  poor = poor
  Payer = alice
  SaAuthority = sa
  Temp = tempW
  WsolSa = vaultW
  None = None
  Wsol = "wSOL"
  TOKEN_ACCOUNT_RENT = 1
  MIN_SOL_ACCOUNT_RENT = 2
  U64_MAX = 8
  MaxCommits = 2
PROPERTIES PayerLosesOnlyFees FeesArrive ConvertsAmount VaultKeepsItsOwn
CHECK_DEADLOCK FALSE
