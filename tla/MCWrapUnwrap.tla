---------------------------- MODULE MCWrapUnwrap ----------------------------
(***************************************************************************)
(* Instances of WrapUnwrap for TLC: a payer with a wSOL account and its    *)
(* temporary one, the vault, and a third party with a rich and a poor      *)
(* wallet and a wSOL account.                                              *)
(***************************************************************************)
EXTENDS WrapUnwrap

CONSTANTS payW, tempW, vaultW, feeW, alice, sa, rich, poor

MCTokenAccounts == {payW, tempW, vaultW, feeW}
MCSolAccounts == {alice, sa, rich, poor}
MCMintOf == [a \in MCTokenAccounts |-> "wSOL"]
MCOwnerOf == [a \in MCTokenAccounts |-> CASE a \in {payW, tempW} -> alice
                                          [] a = vaultW -> sa
                                          [] OTHER -> rich]
MCDenominator == [v \in 1..3 |-> IF v = 1 THEN 5 ELSE 4]
MCRateLimit == [v \in 1..3 |-> IF v = 1 THEN 3 ELSE 2]
MCPlatformDenominator == [v \in 2..3 |-> 2]

Common == [wrap : BOOLEAN, onFrom : BOOLEAN, temp : BOOLEAN, wsol : {payW, tempW},
           amount : {0, 2, 3}]

Requests1 ==
  {[version |-> 1, tob |-> FALSE, otherSa |-> FALSE, authority |-> FALSE,
    wsolSa |-> FALSE, platformRate |-> 0, platform |-> None, rate |-> rate,
    commission |-> to, wrap |-> c.wrap, onFrom |-> c.onFrom, temp |-> c.temp,
    wsol |-> c.wsol, amount |-> c.amount] :
     c \in Common, rate \in {0, 2, 3}, to \in {rich, feeW}}

Requests2 ==
  {[version |-> 2, tob |-> FALSE, otherSa |-> other, authority |-> FALSE,
    wsolSa |-> FALSE, platformRate |-> share, platform |-> sap, rate |-> 2,
    commission |-> to, wrap |-> c.wrap, onFrom |-> c.onFrom, temp |-> c.temp,
    wsol |-> c.wsol, amount |-> c.amount] :
     c \in Common, share \in {0, 1, 2}, sap \in {vaultW, None}, other \in BOOLEAN,
     to \in {feeW, vaultW}}

Requests3 ==
  {[version |-> 3, tob |-> tob, otherSa |-> FALSE, authority |-> tob,
    wsolSa |-> tob, platformRate |-> share, platform |-> pays[2], rate |-> rate,
    commission |-> pays[1], wrap |-> c.wrap, onFrom |-> c.onFrom, temp |-> c.temp,
    wsol |-> c.wsol, amount |-> c.amount] :
     c \in Common, share \in {0, 1}, rate \in {0, 2}, tob \in BOOLEAN,
     pays \in {<<rich, None>>, <<rich, poor>>, <<feeW, vaultW>>, <<poor, sa>>,
              <<poor, poor>>, <<vaultW, vaultW>>}}

MCRequests ==
  {r \in Requests1 \cup Requests2 \cup Requests3 :
     /\ r.version < 3 /\ ~ChargesSol(r) => r.commission \in WsolAccounts
     /\ r.commission = vaultW => r.platform = vaultW /\ ~r.otherSa}

Book(user, native, open) ==
  [tok |-> [a \in MCTokenAccounts |-> CASE a = payW -> user
                                       [] a = vaultW -> 2
                                       [] OTHER -> 0],
   excess |-> [a \in MCTokenAccounts |-> IF a = payW THEN 1 ELSE 0],
   sol |-> [a \in MCSolAccounts |-> IF a = poor THEN 0 ELSE native],
   open |-> open]

MCBooks == {Book(4, 6, MCTokenAccounts \ {tempW}), Book(6, 3, MCTokenAccounts)}

=============================================================================
