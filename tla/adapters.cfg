SPECIFICATION Spec
CONSTANTS
  userW = userW
  userT = userT
  userC = userC
  vaultW = vaultW
  vaultT = vaultT
  spareW = spareW
  wsolSa = wsolSa
  payer = payer
  sa = sa
  None = None
  TokenAccounts <- MCTokenAccounts
  SolAccounts <- MCSolAccounts
  MintOf <- MCMintOf
  OwnerOf <- MCOwnerOf
  Wsol = "wSOL"
  TOKEN_ACCOUNT_RENT = 1
  Payer = payer
  VirtualMint = "T"
  LotSize = 2
  MarinadeMint = "C"
  OrderId = 1
  SplToken = "token"
  ProgramOf <- MCProgramOf
  SaAuthority = sa
  WsolSa = wsolSa
  Routes <- MCRoutes
  InitialBooks <- MCInitialBooks
  MIN_SOL_ACCOUNT_RENT = 1
  SOL_DIFF_LIMIT = 2
  LowerBound <- MCLowerBound
  MaxOut = 3
  MaxCommits = 1
INVARIANT AdapterInv RightSides
PROPERTY AuthorityKeepsLamports OnlyRouteAccountsMove
CHECK_DEADLOCK FALSE
