---------------------------- MODULE MCLimitOrder ----------------------------
(***************************************************************************)
(* Instances of LimitOrder for TLC: alice places orders of wSOL for T or   *)
(* of T for wSOL, bob is a resolver, carol or bob takes the commission.    *)
(***************************************************************************)
EXTENDS LimitOrder

CONSTANTS alice, bob, carol, sa, nobody

W == "wSOL"
T == "T"

Config(multiplier) ==
  [admin |-> carol, resolvers |-> [i \in Slots |-> bob], tradeFee |-> 2,
   paused |-> FALSE, feeMultiplier |-> multiplier]
MCConfigs == {Config(20)}

MCTokens ==
  {[h \in Holders |-> [m \in Mints |-> CASE h = alice -> 3
                                         [] h = bob -> 1
                                         [] h = sa -> 1
                                         [] OTHER -> 0]]}
MCSol == {[a \in Accounts |-> IF a = alice THEN 8 ELSE 1]}

Rate(r) == [m \in Mints |-> IF m = T THEN r ELSE 0]
NoRate == {Rate(0)}
BothRates == {Rate(0), Rate(1)}

Places(expect, min) ==
  {[inMint |-> io[1], outMint |-> io[2], making |-> 2, expect |-> expect,
    minReturn |-> min, wait |-> 1, fee |-> 2] : io \in {<<W, T>>, <<T, W>>}}

MCPlacements == Places(2, 2)
MCUpdates ==
  {[expect |-> 1, minReturn |-> 0, wait |-> 0, fee |-> 0],
   [expect |-> 3, minReturn |-> 3, wait |-> 0, fee |-> 0],
   [expect |-> 0, minReturn |-> 1, wait |-> 2, fee |-> 1]}

(* fill_order, and commission_fill_order at a rate of a half and, since    *)
(* nothing limits it, of one and a half; a temporary account for wSOL in,  *)
(* an account of the payer for wSOL out.                                   *)
Fill(commission, amountsIn, rates, directions, taken, got) ==
  [commission : {commission}, amountIn : amountsIn, temp : BOOLEAN, inSa : BOOLEAN,
   outSa : BOOLEAN, toPayer : BOOLEAN, rate : rates, onFrom : directions,
   payee : IF commission THEN {bob, carol} ELSE {carol}, taken : taken, got : got]

MCFills ==
  {f \in Fill(FALSE, {1, 2}, {0}, {TRUE}, {1, 2}, {1, 3})
         \cup Fill(TRUE, {0}, {1, 3}, BOOLEAN, {1, 2}, {2, 4}) :
     (f.temp => ~f.toPayer /\ ~f.inSa) /\ (f.amountIn = 1 => f.temp)}

(* Few terms for the run in which ids are reused and orders coexist.       *)
FewUpdates == {[expect |-> e, minReturn |-> 0, wait |-> 2, fee |-> 1] : e \in {1, 3}}
FewFills ==
  {f \in Fill(FALSE, {2}, {0}, {TRUE}, {1, 2}, {2}) : ~f.toPayer /\ ~f.inSa /\ ~f.outSa}
WealthySol == {[a \in Accounts |-> IF a = alice THEN 16 ELSE 1]}
WealthyTokens ==
  {[h \in Holders |-> [m \in Mints |-> IF h = alice THEN 4 ELSE 1]]}

=============================================================================
