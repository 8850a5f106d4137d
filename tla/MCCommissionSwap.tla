-------------------------- MODULE MCCommissionSwap --------------------------
(***************************************************************************)
(* Instances of CommissionSwap for TLC.  For wSOL and for another mint: an *)
(* account of the payer, one of the vault, and one of a third party, which *)
(* also has a wallet.                                                      *)
(***************************************************************************)
EXTENDS CommissionSwap, FiniteSets

CONSTANTS payW, payT, vaultW, vaultT, feeW, feeT, alice, sa, wallet

MCTokenAccounts == {payW, payT, vaultW, vaultT, feeW, feeT}
MCSolAccounts == {alice, sa, wallet}
MCMintOf ==
  [a \in MCTokenAccounts |-> IF a \in {payW, vaultW, feeW} THEN "wSOL" ELSE "T"]
MCOwnerOf ==
  [a \in MCTokenAccounts |-> CASE a \in {payW, payT} -> alice
                               [] a \in {vaultW, vaultT} -> sa
                               [] OTHER -> wallet]

MCDenominator == [v \in 1..2 |-> IF v = 1 THEN 5 ELSE 4]
MCRateLimit == [v \in 1..2 |-> IF v = 1 THEN 3 ELSE 2]

(* Parts of requests: the accounts, the proxy's optional ones, the fees.   *)
Pairs == {[src |-> payW, dst |-> payT], [src |-> payT, dst |-> payW],
          [src |-> payW, dst |-> payW]}
VaultOf(a) == IF a = payW THEN vaultW ELSE vaultT

NoSides == {[srcSa |-> None, dstSa |-> None, srcProgram |-> FALSE,
             dstProgram |-> FALSE, authority |-> FALSE, creators |-> FALSE]}
Sides(p) ==
  [srcSa : {None, VaultOf(p.src)}, dstSa : {None, VaultOf(p.dst)},
   srcProgram : BOOLEAN, dstProgram : BOOLEAN, authority : BOOLEAN,
   creators : BOOLEAN]
FullSides(p) ==
  {s \in Sides(p) : s.srcProgram /\ s.dstProgram /\ s.authority /\ s.creators}
(* One optional account or program left out of a full proxy swap. *)
GappedSides(p) ==
  {s \in Sides(p) :
     /\ s.dstSa # None
     /\ Cardinality({f \in {"srcProgram", "dstProgram", "authority", "creators"} :
                       ~s[f]}) = 1}

(* An account that nobody verifies as the vault's, for the platform's      *)
(* part: no authority is given, so the swap does not use it.               *)
UnverifiedSides(p) ==
  [srcSa : {None}, dstSa : {wallet, feeW, feeT}, srcProgram : {FALSE},
   dstProgram : {TRUE}, authority : {FALSE}, creators : {TRUE}]

Fees(version) ==
  CASE version = 0 -> {[rate |-> 0, platformRate |-> 0, trimRate |-> 0, trimAccount |-> None]}
    [] version = 1 -> {[rate |-> r, platformRate |-> 0, trimRate |-> 0, trimAccount |-> None]
                         : r \in {0, 1, 3}}
    [] OTHER -> {f \in [rate : {0, 2}, platformRate : {0, 1}, trimRate : {0, 1},
                        trimAccount : {None, wallet, feeT}] :
                   (f.trimRate = 0) = (f.trimAccount = None)}

Make(version, inSol, onFrom, bridge, proxy, p, s, f, account) ==
  [version |-> version, inSol |-> inSol, onFrom |-> onFrom, bridge |-> bridge,
   proxy |-> proxy, src |-> p.src, dst |-> p.dst, srcSa |-> s.srcSa,
   dstSa |-> s.dstSa, srcProgram |-> s.srcProgram, dstProgram |-> s.dstProgram,
   authority |-> s.authority, creators |-> s.creators,
   commissionAccount |-> account, rate |-> f.rate, platformRate |-> f.platformRate,
   trimRate |-> f.trimRate, trimAccount |-> f.trimAccount,
   amountIn |-> 3, expectOut |-> 2, minReturn |-> 2]

Payees(inSol) == IF inSol THEN {wallet, feeW} ELSE {feeW, feeT}

DirectRequests ==
  UNION {{Make(v, inSol, onFrom, FALSE, FALSE, p, s, f, a) :
            onFrom \in BOOLEAN, p \in Pairs, s \in NoSides, f \in Fees(v),
            a \in Payees(inSol)} : v \in {1}, inSol \in BOOLEAN}
BridgeRequests ==
  UNION {{Make(v, inSol, TRUE, TRUE, FALSE, p, s, f, a) :
            p \in Pairs, s \in NoSides, f \in Fees(v), a \in Payees(inSol)} :
            v \in {0, 1}, inSol \in BOOLEAN}
ProxyRequests(sides(_)) ==
  UNION {{Make(v, inSol, onFrom, FALSE, TRUE, p, s, f, a) :
            onFrom \in BOOLEAN, s \in sides(p), f \in Fees(v), a \in Payees(inSol)} :
            v \in {1, 2}, inSol \in BOOLEAN, p \in Pairs}

(* Every subset of the optional accounts. *)
PlainRequests ==
  {Make(0, TRUE, TRUE, FALSE, FALSE, p, s, f, wallet) :
     p \in Pairs, s \in NoSides, f \in Fees(0)}
  \cup UNION {{Make(0, TRUE, TRUE, FALSE, TRUE, p, s, f, wallet) :
                 s \in Sides(p), f \in Fees(0)} : p \in Pairs}

MCRequests ==
  PlainRequests \cup DirectRequests \cup BridgeRequests \cup ProxyRequests(FullSides)
    \cup {r \in ProxyRequests(GappedSides) : r.version = 1 \/ r.platformRate = 1}
    \cup {r \in ProxyRequests(UnverifiedSides) : r.version = 2 /\ r.platformRate = 1}

Book(user, vault, native) ==
  [tok |-> [a \in MCTokenAccounts |-> CASE a \in {payW, payT} -> user
                                       [] a \in {vaultW, vaultT} -> vault
                                       [] OTHER -> 0],
   excess |-> [a \in MCTokenAccounts |-> 0],
   sol |-> [a \in {alice, sa, wallet} |-> native],
   open |-> MCTokenAccounts]

MCBooks == {Book(6, 2, 3), Book(4, 0, 0)}

=============================================================================
