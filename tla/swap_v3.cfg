SPECIFICATION Spec
CONSTANTS
  payW = payW
  payT = payT
  vaultW = vaultW
  vaultT = vaultT
  feeW = feeW
  feeT = feeT
  alice = alice
  sa = sa
  wallet = wallet
  friend = friend
  TokenAccounts <- MCTokenAccounts
  SolAccounts = {alice, sa, wallet, friend}
  MintOf <- MCMintOf
  OwnerOf <- MCOwnerOf
  Wsol = "wSOL"
  Payer = alice
  SaAuthority = sa
  None = None
  Requests <- MCRequests
  InitialBooks <- MCBooks
  WithheldRate <- HalfOfTWithheld
  WITHHELD_DENOMINATOR = 2
  COMMISSION_DENOMINATOR = 4
  COMMISSION_RATE_LIMIT = 2
  PLATFORM_FEE_DENOMINATOR = 2
  TRIM_DENOMINATOR = 4
  TRIM_RATE_LIMIT = 2
  TOKEN_ACCOUNT_RENT = 2
  MIN_SOL_ACCOUNT_RENT = 3
  MaxOut = 8
  MaxCommits = 1
INVARIANTS SettlementInv FeesExact
PROPERTIES VaultPaysOnlyUnserved PayerSpendsAtMost UserGetsMinReturn TrimLeavesExpected NothingStranded
CHECK_DEADLOCK FALSE
