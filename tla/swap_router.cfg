SPECIFICATION Spec
CONSTANTS
  payA = payA
  payB = payB
  othB = othB
  saA = saA
  saB = saB
  saC = saC
  Alice = Alice
  Bob = Bob
  SA = SA
  Zero = Zero
  Accounts = {payA, payB, othB, saA, saB, saC}
  Mints = {"A", "B", "C"}
  MintOf <- MCMintOf
  OwnerOf <- MCOwnerOf
  Payer = Alice
  SaAuthority = SA
  ZeroAddress = Zero
  Requests <- MCRequests
  InitialBalances <- MCInitialBalances
  TransferFee <- FeeOnA
  U64Max = 300
  MaxBal = 5
  MaxOut = 2
  MaxCommits = 1
INVARIANTS IInv
PROPERTIES VaultPaysOnlyUnserved PayerSpendsAtMostAmountIn NothingStranded ImplementsAtomicSwap
CHECK_DEADLOCK FALSE
