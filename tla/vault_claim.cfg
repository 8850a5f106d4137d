SPECIFICATION Spec
CONSTANTS
  TokenAccounts <- MCTokenAccounts
  SolAccounts <- MCSolAccounts
  MintOf <- MCMintOf
  OwnerOf <- MCOwnerOf
  Claims <- MCClaims
  InitialBooks <- MCBooks
  vaultW = vaultW
  vaultX = vaultX
  oldW = oldW
  bobW = bobW
  bobX = bobX
  claimerW = claimerW
  claimer = claimer
  bob = bob
  sa = sa
  Claimer = claimer
  SaAuthority = sa
  None = None
  Wsol = "wSOL"
  TOKEN_ACCOUNT_RENT = 1
  MIN_SOL_ACCOUNT_RENT = 2
  MaxSteps = 4
PROPERTIES ReceiverGetsTheClaim AuthorityKeepsRent
CHECK_DEADLOCK FALSE
