---------------------------- MODULE MCVaultClaim ----------------------------
(***************************************************************************)
(* An instance of VaultClaim for TLC: a vault with two wSOL accounts and   *)
(* one of another mint, two receivers, one of them the claimer, and the    *)
(* receivers' accounts, of which one is yet to be created.                 *)
(***************************************************************************)
EXTENDS VaultClaim

CONSTANTS vaultW, vaultX, oldW, bobW, bobX, claimerW, claimer, bob, sa

MCTokenAccounts == {vaultW, oldW, vaultX, bobW, bobX, claimerW}
MCSolAccounts == {claimer, bob, sa}
MCMintOf == [a \in MCTokenAccounts |-> IF a \in {vaultX, bobX} THEN "X" ELSE "wSOL"]
MCOwnerOf == [a \in MCTokenAccounts |-> CASE a \in {vaultW, oldW, vaultX} -> sa
                                          [] a \in {bobW, bobX} -> bob
                                          [] OTHER -> claimer]
MCClaims ==
  {c \in [receiver : {bob, claimer, sa}, source : {vaultW, vaultX, None},
          destination : {bobW, bobX, claimerW, oldW, None},
          ata : BOOLEAN, programs : BOOLEAN] :
     c.ata => c.destination # None /\ MCOwnerOf[c.destination] = c.receiver}

Book(native, open) ==
  [tok |-> [a \in MCTokenAccounts |-> IF a \in {vaultW, vaultX} THEN 1 ELSE 0],
   excess |-> [a \in MCTokenAccounts |-> IF a = oldW THEN 1 ELSE 0],
   sol |-> [a \in MCSolAccounts |-> IF a = claimer THEN native - 2 ELSE native],
   open |-> open]

MCBooks == {Book(2, MCTokenAccounts \ {bobX, claimerW}), Book(3, MCTokenAccounts \ {vaultX})}

=============================================================================
