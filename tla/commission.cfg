SPECIFICATION Spec
CONSTANTS
  TokenAccounts <- MCTokenAccounts
  SolAccounts <- MCSolAccounts
  MintOf <- MCMintOf
  OwnerOf <- MCOwnerOf
  Denominator <- MCDenominator
  RateLimit <- MCRateLimit
  Requests <- MCRequests
  InitialBooks <- MCBooks
  payW = payW
  payT = payT
  vaultW = vaultW
  vaultT = vaultT
  feeW = feeW
  feeT = feeT
  alice = alice
  sa = sa
  wallet = wallet
  Payer = alice
  SaAuthority = sa
  None = None
  Wsol = "wSOL"
  TOKEN_ACCOUNT_RENT = 1
  PLATFORM_FEE_DENOMINATOR = 2
  TRIM_DENOMINATOR = 4
  TRIM_RATE_LIMIT = 1
  U64_MAX = 11
  MaxOut = 6
  MaxCommits = 1
INVARIANTS CommissionInv
PROPERTIES VaultKeepsItsOwn PayerSpendsAtMost UserGetsTheRest FeesArrive TrimLeavesExpected
CHECK_DEADLOCK FALSE
