SPECIFICATION CreationSpec
CONSTANTS
  Wallets = {alice, bob}
  Seeds = {none, seed}
  Nobody = Nobody
  Rent = 2
  MaxLamports = 3
INVARIANTS CreationInv
