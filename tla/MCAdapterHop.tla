---------------------------- MODULE MCAdapterHop ----------------------------
(***************************************************************************)
(* Instances of AdapterHop for TLC: every adapter on every direction and   *)
(* with the pool laid out both ways, for the user's and for the vault's    *)
(* accounts, and routes of two forks and of two hops around the adapters   *)
(* that touch lamports.                                                    *)
(***************************************************************************)
EXTENDS AdapterHop

CONSTANTS userW, userT, userC, vaultW, vaultT, spareW, wsolSa, payer, sa

MCTokenAccounts == {userW, userT, userC, vaultW, vaultT, spareW, wsolSa}
MCSolAccounts == {payer, sa}
MCMintOf ==
  [a \in MCTokenAccounts |-> CASE a \in {userW, vaultW, spareW, wsolSa} -> "wSOL"
                               [] a = userC -> "C"
                               [] OTHER -> "T"]
MCOwnerOf ==
  [a \in MCTokenAccounts |-> IF a \in {userW, userT, userC} THEN payer ELSE sa]
MCProgramOf == [m \in {"wSOL", "T", "C"} |-> IF m = "C" THEN "token-2022" ELSE "token"]
MCLowerBound == [num |-> 95, den |-> 100]

(* The accounts of the mint that is sold hold just the amount or more, the *)
(* others nothing (the authority's wSOL account never nothing), so that    *)
(* what arrives is all there is; an authority without and with lamports,   *)
(* and SOL that was sent to wSOL accounts and not synced.  The vault's     *)
(* spare wSOL account is open or closed.                                   *)
MCInitialBooks ==
  {[tok |-> [a \in MCTokenAccounts |->
               IF MCMintOf[a] \in {sold, "C"} THEN 3 + s \div 2
               ELSE IF a = wsolSa THEN 1 ELSE 0],
    excess |-> [a \in MCTokenAccounts |-> IF a \in {userW, vaultW} THEN s \div 2 ELSE 0],
    sol |-> [a \in MCSolAccounts |-> IF a = sa THEN s ELSE 3],
    open |-> IF s = 0 THEN MCTokenAccounts ELSE MCTokenAccounts \ {spareW}] :
     sold \in {"T", "wSOL"}, s \in {0, 3}}

Quote == [taker |-> 3, maker |-> 2, native |-> FALSE]

TW == <<"T", "wSOL">>
WT == <<"wSOL", "T">>
WC == <<"wSOL", "C">>
TC == <<"T", "C">>

Size(dex, pool) ==
  CASE dex \in {"Whalestreet", "MeteoraVaultDeposit", "MeteoraVaultWithdraw"} -> 8
    [] dex \in {"Phoenix", "FutarchyAmm", "Gavel", "RaydiumSwapV2"} -> 9
    [] dex = "StableSwap" -> 10
    [] dex \in {"AldrinExchangeV1", "Virtuals", "SplTokenSwap", "Saros",
                "SaberDecimalWrapperDeposit", "SaberDecimalWrapperWithdraw"} -> 11
    [] dex \in {"AldrinExchangeV2", "Whirlpool", "SolRfq", "OneDexSwap",
                "Numeraire"} -> 12
    [] dex \in {"ObricV2", "VertigoBuy", "VertigoSell"} -> 13
    [] dex \in {"Manifest", "RaydiumClmmSwap", "RaydiumCpmmSwap",
                "PancakeSwapV3Swap", "LifinityV2", "Dooar", "GooseFX"} -> 14
    [] dex \in {"FluxBeam", "MeteoraDbc", "MeteoraDAMMV2Swap2", "BoopfunBuy",
                "PumpfunSell3"} -> 15
    [] dex \in {"WhirlpoolV2", "BoopfunSell", "MoonitBuy", "MoonitSell",
                "SugarMoneyBuy", "SugarMoneySell", "PumpfunSell2",
                "MeteoraDynamicpool", "MeteoraDAMMV2", "MeteoraDbc2",
                "StabbleSwap"} -> 16
    [] dex \in {"PumpfunBuy3", "MeteoraLst", "PerpetualsSwap"} -> 17
    [] dex \in {"RaydiumLaunchpad", "LetsBonkFun", "MeteoraDlmm", "PumpfunBuy2",
                "RaydiumClmmSwapV2", "PancakeSwapV3SwapV2", "Woofi"} -> 18
    [] dex \in {"OpenBookV2", "SarosDlmm", "RaydiumSwap", "RaydiumStableSwap",
                "MeteoraDlmmSwap2"} -> 19
    [] dex \in {"HeavenBuy", "HeavenSell"} -> 20
    [] dex = "PumpfunammSell3" -> 21
    [] dex = "SanctumWsolSwap" -> 22
    [] dex = "PumpfunammBuy3" -> 23
    [] dex = "ByrealClmm" -> 24
    [] dex = "SanctumNonWsolSwap" -> 26
    [] dex \in {"PerpetualsAddLiq", "PerpetualsRemoveLiq"} -> 29
    [] dex = "SanctumAddLiq" -> IF pool[1] = "wSOL" THEN 14 ELSE 18
    [] dex = "SanctumRemoveLiq" -> IF pool[1] = "wSOL" THEN 15 ELSE 19
    [] dex = "SanctumRouter" -> CASE pool[2] = "wSOL" -> 17
                                  [] pool = WC -> 18
                                  [] pool = WT -> 16
                                  [] pool[2] = "C" -> 44
                                  [] OTHER -> 45
    [] dex \in AbortedDexes -> 1

Block(dex, from, to, pool, others) ==
  LET own == MCOwnerOf[from]
      slots == IF dex = "MoonitBuy"
               THEN [trader |-> own, recipient |-> own, held |-> to, wrapped |-> from]
               ELSE [trader |-> own, recipient |-> own, held |-> from, wrapped |-> to]
  IN  [dex |-> dex, at |-> 0, size |-> Size(dex, pool), from |-> from, to |-> to,
       authority |-> own, pool |-> pool, others |-> others, slots |-> slots]

Step(dex, h) == [dex |-> dex, hop |-> h, quote |-> Quote]

(* The blocks lie one after the other.                                     *)
SizeOf(blocks, n) ==
  LET size[i \in 0..n] == IF i = 0 THEN 0 ELSE size[i - 1] + blocks[i].size
  IN  size[n]

Route(proxy, from, to, plan, blocks) ==
  [proxy |-> proxy, amount |-> 3, from |-> from, to |-> to, plan |-> plan,
   accounts |-> SizeOf(blocks, Len(blocks)),
   blocks |-> [i \in 1..Len(blocks) |->
                 [blocks[i] EXCEPT !.at = SizeOf(blocks, i - 1)]]]

Single(dex, proxy, from, to, pool, others) ==
  Route(proxy, from, to, <<Step(dex, 1)>>, <<Block(dex, from, to, pool, others)>>)

UserPairs == {<<userT, userW>>, <<userW, userT>>}
VaultPairs == {<<vaultT, vaultW>>, <<vaultW, vaultT>>, <<vaultT, wsolSa>>,
               <<wsolSa, vaultT>>}

(* A pool of Virtuals has VIRTUAL on its first side. *)
Pools(dex) == IF dex = "Virtuals" THEN {TW, TC} ELSE {TW, WT, WC}

TokenRoutes ==
  UNION {{Single(d, u \notin UserPairs, u[1], u[2], p, {}) :
            u \in UserPairs \cup {<<vaultT, vaultW>>}, p \in Pools(d)} :
         d \in TokenDexes}
  \cup {Single(d, FALSE, u[1], u[2], TC, {}) :
           d \in {"SanctumRouter", "SanctumNonWsolSwap", "SanctumAddLiq",
                  "SanctumRemoveLiq"}, u \in {<<userT, userC>>, <<userC, userT>>}}

LamportRoutes ==
  {Single(d, u \in VaultPairs, u[1], u[2], WT, {}) :
     d \in LamportBuys \cup LamportSells \cup {"PumpfunammSell3"},
     u \in UserPairs \cup VaultPairs}
  \cup {Single(d, FALSE, u[1], u[2], WC, {}) :
          d \in LamportBuys \cup LamportSells, u \in {<<userW, userC>>, <<userC, userW>>}}

AbortedRoutes == {Single(d, FALSE, userT, userW, TW, {}) : d \in AbortedDexes}

(* Other accounts in the list of the call. *)
ListedRoutes ==
  {Single(d, TRUE, vaultT, vaultW, TW, o) :
     d \in {"RaydiumSwap", "PumpfunammSell3"}, o \in {{wsolSa}, {userC}}}
  \cup {Single(d, FALSE, userT, userW, WT, o) :
          d \in {"RaydiumSwap", "PumpfunSell2"}, o \in {{wsolSa}, {userC}}}
  \cup {Single("PumpfunBuy2", FALSE, userW, userT, WT, {userC})}

(* Two forks of a hop, the first block perhaps one account too long. *)
ForkRoutes ==
  {Route(u \in VaultPairs, u[1], u[2], <<Step(d, 1), Step(e, 1)>>,
         <<[Block(d, u[1], u[2], WT, {}) EXCEPT !.size = @ + i],
           Block(e, u[1], u[2], WT, {})>>) :
     d \in {"Whirlpool", "PumpfunBuy3"}, e \in {"Whirlpool", "PumpfunBuy2", "MoonitBuy"},
     u \in {<<userW, userT>>, <<vaultW, vaultT>>}, i \in 0..1}

(* Two hops: a sale into wSOL, then a purchase with it. *)
HopRoutes ==
  {Route(u[1] = vaultT, u[1], u[3], <<Step(d, 1), Step(e, 2)>>,
         <<Block(d, u[1], u[2], WT, {}), Block(e, u[2], u[3], p, {})>>) :
     d \in {"PumpfunSell2", "MoonitSell", "RaydiumSwap"},
     e \in {"PumpfunBuy2", "SugarMoneyBuy", "ObricV2"},
     u \in {<<userT, userW, userC>>, <<userT, vaultW, userC>>,
            <<vaultT, vaultW, userC>>, <<vaultT, wsolSa, userC>>},
     p \in {WC}}

(* Two hops that end in a withdrawal of liquidity or from a wrapper, and   *)
(* one that begins with it.                                                *)
WithdrawalRoutes ==
  {Route(FALSE, u[1], u[4], <<Step("RaydiumSwap", 1), Step(d, 2)>>,
         <<Block("RaydiumSwap", u[1], u[2], TW, {}), Block(d, u[3], u[4], p, {})>>) :
     d \in {"PerpetualsRemoveLiq", "SaberDecimalWrapperWithdraw"}, p \in {TW, WT},
     u \in {<<userT, vaultW, vaultW, vaultT>>, <<userT, vaultW, vaultT, vaultW>>}}
  \cup {Route(FALSE, userT, userC, <<Step(d, 1), Step("RaydiumSwap", 2)>>,
              <<Block(d, userT, v, WT, {}), Block("RaydiumSwap", v, userC, WC, {})>>) :
           d \in {"PerpetualsRemoveLiq", "SaberDecimalWrapperWithdraw"},
           v \in {userW, vaultW}}

(* A hop two of whose forks are withdrawals of liquidity: the second fork  *)
(* runs the hop backwards, the third forwards again.                       *)
TurnedRoutes ==
  {Route(FALSE, userT, userW,
         <<Step("RaydiumSwap", 1), Step("PerpetualsRemoveLiq", 1),
           Step("PerpetualsRemoveLiq", 1)>>,
         <<Block("RaydiumSwap", userT, userW, TW, {}),
           Block("PerpetualsRemoveLiq", userW, userT, TW, {}),
           Block("PerpetualsRemoveLiq", userT, userW, WT, {})>>)}

(* A withdrawal that reports more than arrived, then a buy with it.        *)
OverreportedRoutes ==
  {Route(TRUE, vaultT, userC, <<Step("SaberDecimalWrapperWithdraw", 1), Step(e, 2)>>,
         <<Block("SaberDecimalWrapperWithdraw", vaultT, vaultW, WT, {}),
           Block(e, vaultW, userC, WC, {})>>) : e \in {"PumpfunBuy2", "MoonitBuy"}}

(* First hops that start at another account than the one the route names.  *)
MisstartedRoutes ==
  {Route(TRUE, wsolSa, vaultT, <<Step("MoonitBuy", 1)>>,
         <<Block("MoonitBuy", vaultW, vaultT, WT, {})>>),
   Route(TRUE, wsolSa, vaultT, <<Step("Whirlpool", 1), Step("Whirlpool", 1)>>,
         <<Block("Whirlpool", vaultW, vaultT, WT, {}),
           Block("Whirlpool", vaultW, vaultT, WT, {})>>)}

(* Whatever the caller puts into the slots: the payer's accounts or the    *)
(* vault's, closed or not.  Of an amount of 1 a fork need spend nothing.   *)
SlotRoutes ==
  {[Route(u \in VaultPairs, u[1], u[2], <<Step(d, 1)>>,
          <<[Block(d, u[1], u[2], WT, {}) EXCEPT !.slots = s]>>) EXCEPT !.amount = x] :
     x \in {1, 3}, <<d, u, s>> \in
       {<<d, u, s>> \in SlotDexes \X (UserPairs \cup {<<vaultT, vaultW>>, <<vaultW, vaultT>>})
                         \X Slots :
          /\ d = "MoonitBuy" <=> u[1] \in {userW, vaultW}
          /\ IF d = "BoopfunSell" THEN s.wrapped = u[2] ELSE s.recipient = s.trader}}

EveryRoute ==
  TokenRoutes \cup LamportRoutes \cup ListedRoutes \cup ForkRoutes \cup HopRoutes
  \cup WithdrawalRoutes \cup TurnedRoutes \cup OverreportedRoutes \cup MisstartedRoutes
  \cup AbortedRoutes \cup SlotRoutes

(* TLC keeps the value of a definition, but not that of a substitution.    *)
MCRoutes == EveryRoute

=============================================================================
