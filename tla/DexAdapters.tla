----------------------------- MODULE DexAdapters -----------------------------
(***************************************************************************)
(* What each DEX adapter asks of its DEX: which account it names for which *)
(* side of the pool, the direction it encodes, the most the DEX may take,  *)
(* and the positions its hooks read in the account list of the call.       *)
(*                                                                         *)
(* An adapter is an operator from the accounts laid out for it (a block)   *)
(* and the amount offered to the set of calls it makes: none if it refuses *)
(* the accounts, otherwise one.  The mints of a pool differ, and one that  *)
(* trades lamports has wSOL on its first side.                             *)
(***************************************************************************)
EXTENDS Ledger

CONSTANTS
  Payer,             \* the signer of the transaction
  VirtualMint,       \* virtual_token_mint
  LotSize,           \* of the order books, for both of their mints
  MarinadeMint,      \* marinade_sol_mint
  OrderId,           \* order_id of the swap
  SplToken,          \* the classic token program
  ProgramOf          \* the token program of every mint

Mints == {MintOf[a] : a \in TokenAccounts}

ASSUME AdapterAssumption ==
  /\ Payer \in SolAccounts
  /\ LotSize \in Nat \ {0} /\ OrderId \in Nat
  /\ DOMAIN ProgramOf = Mints
  /\ Wsol \in Mints => ProgramOf[Wsol] = SplToken

(***************************************************************************)
(* Calls.  A call names the account to debit, the account to credit, and   *)
(* the side of the pool that takes.                                        *)
(***************************************************************************)
TokenCall(len, b, debit, credit, into, most) ==
  [len |-> len, kind |-> "token", hook |-> "none", debit |-> debit,
   credit |-> credit, into |-> into, most |-> most,
   roles |-> [authority |-> b.authority]]

(* The user's accounts by the side of the pool whose mint they have.       *)
UserSides(b) ==
  {u \in {<<b.from, b.to>>, <<b.to, b.from>>} :
     MintOf[u[1]] = b.pool[1] /\ MintOf[u[2]] = b.pool[2]}

(* The DEX is given the user's account of each side and a direction flag.  *)
Flagged(len, b, u, forward, most) ==
  IF forward THEN TokenCall(len, b, u[1], u[2], 1, most)
             ELSE TokenCall(len, b, u[2], u[1], 2, most)

(* The DEX is given source and destination, and the pool's two vaults in   *)
(* the order of the swap.                                                  *)
PoolSided(len, b, into, most) == TokenCall(len, b, b.from, b.to, into, most)

(* The DEX is given source and destination and finds the direction itself. *)
Positional(len, b, most) ==
  {TokenCall(len, b, b.from, b.to, i, most) :
     i \in {j \in 1..2 : MintOf[b.from] = b.pool[j]}}

(* The DEX is told to take from one side, whatever accounts it is given.   *)
OneWay(len, b, into, most) == {TokenCall(len, b, b.from, b.to, into, most)}

FromFirst(b) == MintOf[b.from] = b.pool[1]
WholeLots(x) == LotSize * (x \div LotSize)

(***************************************************************************)
(* Adapters that order the user's accounts and encode a direction.         *)
(***************************************************************************)
AldrinV1(b, x) == {Flagged(11, b, u, FromFirst(b), x) : u \in UserSides(b)}
AldrinV2(b, x) == {Flagged(12, b, u, FromFirst(b), x) : u \in UserSides(b)}

(* a_to_b decides the flag and the order of the owner's accounts.          *)
Whirlpool(b, x) == {Flagged(12, b, u, u[1] = b.from, x) : u \in UserSides(b)}

(* Mutant: a_to_b is the opposite of what the source's mint says. *)
WhirlpoolV2Reversed(b, x) ==
  {Flagged(16, b, u, u[1] # b.from, x) : u \in UserSides(b)}

WhirlpoolV2(b, x) == {Flagged(16, b, u, u[1] = b.from, x) : u \in UserSides(b)}

(* Orders in whole lots of what is sold.                                   *)
Phoenix(b, x) == {Flagged(9, b, u, FromFirst(b), WholeLots(x)) : u \in UserSides(b)}
OpenBookV2(b, x) ==
  {Flagged(19, b, u, FromFirst(b), WholeLots(x)) : u \in UserSides(b)}

(* x_to_y is read off the destination (a mint of neither side is refused   *)
(* by the second comparison too), the accounts off both mints.             *)
ObricV2(b, x) ==
  {Flagged(13, b, u, MintOf[b.to] # b.pool[1], x) : u \in UserSides(b)}

(* Base and quote: sold by a sell, bought by a buy.                        *)
Futarchy(b, x) == {Flagged(9, b, u, u[1] = b.from, x) : u \in UserSides(b)}
Gavel(b, x) == {Flagged(9, b, u, u[1] = b.from, x) : u \in UserSides(b)}
Whalestreet(b, x) == {Flagged(8, b, u, u[1] = b.from, x) : u \in UserSides(b)}

(* The direction is the source's, the destination must be the other mint.  *)
Manifest(b, x) ==
  {Flagged(14, b, IF i = 1 THEN <<b.from, b.to>> ELSE <<b.to, b.from>>, i = 1, x) :
     i \in {j \in 1..2 : /\ MintOf[b.from] = b.pool[j]
                         /\ MintOf[b.to] = b.pool[3 - j]}}

(* Buys from VIRTUAL and sells into it; the other mint is left to the DEX, *)
(* whose pool is <<VIRTUAL, token>>.                                       *)
Virtuals(b, x) ==
  IF MintOf[b.from] = VirtualMint THEN {Flagged(11, b, <<b.from, b.to>>, TRUE, x)}
  ELSE IF MintOf[b.to] = VirtualMint THEN {Flagged(11, b, <<b.to, b.from>>, FALSE, x)}
  ELSE {}

(* A buy if the source has the quote mint, else a sell, whatever the other *)
(* mint; the pool is <<base, quote>>.                                      *)
RaydiumLaunchpad(b, x) ==
  LET isBuy == MintOf[b.from] = b.pool[2]
  IN  {Flagged(18, b, IF isBuy THEN <<b.to, b.from>> ELSE <<b.from, b.to>>, ~isBuy, x)}

(* Swaps for Y if the source has mint X, else for X.                       *)
SarosDlmm(b, x) ==
  {Flagged(19, b, IF FromFirst(b) THEN <<b.from, b.to>> ELSE <<b.to, b.from>>,
           FromFirst(b), x)}

(***************************************************************************)
(* Adapters that order the vaults of the pool, or nothing.                 *)
(***************************************************************************)
FluxBeam(b, x) ==
  {PoolSided(15, b, IF u[1] = b.from THEN 1 ELSE 2, x) : u \in UserSides(b)}
SplTokenSwap(b, x) ==
  {PoolSided(11, b, IF u[1] = b.from THEN 1 ELSE 2, x) : u \in UserSides(b)}
StableSwap(b, x) ==
  {PoolSided(10, b, IF u[1] = b.from THEN 1 ELSE 2, x) : u \in UserSides(b)}

RaydiumSwap(b, x) == Positional(19, b, x)
RaydiumSwapV2(b, x) == Positional(9, b, x)
RaydiumStable(b, x) == Positional(19, b, x)
RaydiumClmm(b, x) == Positional(14, b, x)
RaydiumClmmV2(b, x) == Positional(18, b, x)
RaydiumCpmm(b, x) == Positional(14, b, x)
MeteoraDynamicpool(b, x) == Positional(16, b, x)
MeteoraLst(b, x) == Positional(17, b, x)
MeteoraDlmm(b, x) == Positional(18, b, x)
MeteoraDlmmSwap2(b, x) == Positional(19, b, x)
MeteoraDAMMV2(b, x) == Positional(16, b, x)
MeteoraDAMMV2Swap2(b, x) == Positional(15, b, x)
MeteoraDbc(b, x) == Positional(15, b, x)
MeteoraDbc2(b, x) == Positional(16, b, x)
PancakeSwapV3(b, x) == Positional(14, b, x)
PancakeSwapV3V2(b, x) == Positional(18, b, x)
ByrealClmm(b, x) == Positional(24, b, x)
Stabble(b, x) == Positional(16, b, x)
Saros(b, x) == Positional(11, b, x)
LifinityV2(b, x) == Positional(14, b, x)
Dooar(b, x) == Positional(14, b, x)
GooseFX(b, x) == Positional(14, b, x)
OneDex(b, x) == Positional(12, b, x)
Woofi(b, x) == Positional(18, b, x)
Numeraire(b, x) == Positional(12, b, x)
PerpetualsSwap(b, x) == Positional(17, b, x)

(* Adapters that go one way: pools are <<wSOL, token>> (Vertigo),          *)
(* <<token, quote>> (Heaven), <<token, share>> (vaults and liquidity),     *)
(* <<underlying, wrapped>> (Saber).                                        *)
VertigoBuy(b, x) == OneWay(13, b, 1, x)
VertigoSell(b, x) == OneWay(13, b, 2, x)
HeavenBuy(b, x) == OneWay(20, b, 2, x)
HeavenSell(b, x) == OneWay(20, b, 1, x)
MeteoraVaultDeposit(b, x) == OneWay(8, b, 1, x)
MeteoraVaultWithdraw(b, x) == OneWay(8, b, 2, x)
SaberDeposit(b, x) == OneWay(11, b, 1, x)
SaberWithdraw(b, x) == OneWay(11, b, 2, x)
PerpetualsAddLiq(b, x) == OneWay(29, b, 1, x)
PerpetualsRemoveLiq(b, x) == OneWay(29, b, 2, x)

(* Sanctum's lists of accounts depend on whether the mint is wSOL.         *)
SanctumAddLiq(b, x) == OneWay(IF b.pool[1] = Wsol THEN 14 ELSE 18, b, 1, x)
SanctumRemoveLiq(b, x) == OneWay(IF b.pool[1] = Wsol THEN 15 ELSE 19, b, 2, x)

(* A swap names what it sells by its index in Sanctum's list, that of the  *)
(* source's mint, or 1 for wSOL.                                           *)
SellsIndex(len, b, mint, x) ==
  {TokenCall(len, b, b.from, b.to, i, x) : i \in {j \in 1..2 : b.pool[j] = mint}}
WsolLst(b, x) == SellsIndex(22, b, Wsol, x)
LstWsol(b, x) == SellsIndex(22, b, MintOf[b.from], x)
LstLst(b, x) == SellsIndex(26, b, MintOf[b.from], x)
SanctumWsolSwap(b, x) ==
  CASE MintOf[b.from] = Wsol /\ MintOf[b.to] # Wsol -> WsolLst(b, x)
    [] MintOf[b.from] # Wsol /\ MintOf[b.to] = Wsol -> LstWsol(b, x)
    [] OTHER -> {}
SanctumNonWsolSwap(b, x) ==
  IF Wsol \in {MintOf[b.from], MintOf[b.to]} THEN {} ELSE LstLst(b, x)

(* The router unwraps into wSOL, stakes wSOL, or, for an order, goes from  *)
(* stake to stake by two calls; the pool is <<from, to>>.                  *)
WithdrawWsol(b, x) == OneWay(8 + 9, b, 1, x)
StakeWsol(b, x) == OneWay(11 + (IF b.pool[2] = MarinadeMint THEN 7 ELSE 5), b, 1, x)
SwapViaStake(b, x) ==
  IF OrderId = 0 THEN {}
  ELSE OneWay(17 + 10 + 6 + (IF b.pool[2] = MarinadeMint THEN 11 ELSE 12), b, 1, x)
SanctumRouter(b, x) ==
  CASE b.pool[2] = Wsol -> WithdrawWsol(b, x)
    [] b.pool[1] = Wsol /\ b.pool[2] # Wsol -> StakeWsol(b, x)
    [] OTHER -> SwapViaStake(b, x)

(* fill_order of the quote in the route: exactly what is offered is sold,  *)
(* and never for native SOL.                                               *)
SolRfq(b, x, quote) ==
  IF quote.taker = x /\ ~quote.native THEN Positional(12, b, x) ELSE {}

(***************************************************************************)
(* Adapters that trade lamports.  The account list of the call is given by *)
(* the positions that matter; what a hook finds in it is a role.           *)
(***************************************************************************)
Listing(at) == [i \in {p[1] : p \in at} |-> (CHOOSE p \in at : p[1] = i)[2]]
LastOf(infos) == CHOOSE i \in DOMAIN infos : \A j \in DOMAIN infos : j <= i

LamportCall(len, kind, hook, b, x, roles) ==
  [len |-> len, kind |-> kind, hook |-> hook, debit |-> b.from, credit |-> b.to,
   into |-> IF kind = "buy" THEN 1 ELSE 2, most |-> x, roles |-> roles]

(* An account typed as the classic token program must be it.               *)
IfClassic(b, call) == IF ProgramOf[b.pool[2]] = SplToken THEN {call} ELSE {}

(* Roles of PumpfunBuyProcessor3, BoopfunBuyProcessor, SugarMoneyBuy...,   *)
(* MoonitBuyProcessor: who owned the account to close, and who is          *)
(* refunded.                                                               *)
PumpfunBuyRoles(infos) ==
  [source |-> infos[LastOf(infos)], program |-> infos[8], authority |-> infos[6],
   payer |-> infos[LastOf(infos) - 1]]
BoopfunBuyRoles(infos) ==
  [source |-> infos[LastOf(infos)], program |-> infos[11], authority |-> infos[6],
   payer |-> infos[14]]
SugarBuyRoles(infos) ==
  [source |-> infos[LastOf(infos)], program |-> infos[9], authority |-> infos[6],
   payer |-> infos[16]]
MoonitBuyRoles(infos) ==
  [source |-> infos[11], program |-> infos[8], authority |-> infos[0],
   payer |-> infos[12]]

(* Roles of the sell processors: who received lamports, where they go, and *)
(* who makes up for what is missing.                                       *)
PumpfunSellRoles(infos) ==
  [dest |-> infos[LastOf(infos) - 1], authority |-> infos[6],
   program |-> infos[9], payer |-> infos[LastOf(infos)]]
BoopfunSellRoles(infos) ==
  [dest |-> infos[LastOf(infos)], authority |-> infos[6], program |-> infos[10],
   recipient |-> infos[7]]
SugarSellRoles(infos) ==
  [dest |-> infos[LastOf(infos)], authority |-> infos[6], program |-> infos[9]]
MoonitSellRoles(infos) ==
  [dest |-> infos[LastOf(infos)], authority |-> infos[0], program |-> infos[8]]
AmmSellRoles(infos) == [authority |-> infos[1], payer |-> infos[LastOf(infos)]]

(* Slots that nothing ties to the swap hold what the caller puts there:    *)
(* who trades (Moonit's sender, Boop's seller), who is paid for a sale     *)
(* (Boop's recipient), the trader's token account, and the account that    *)
(* Moonit's hooks unwrap or wrap into.                                     *)
SlotDexes == {"BoopfunSell", "MoonitBuy", "MoonitSell"}
Slots == [trader : SolAccounts, recipient : SolAccounts, held : TokenAccounts,
          wrapped : TokenAccounts]

Named(b) ==
  CASE b.dex = "BoopfunSell" -> {b.slots.held}
    [] b.dex \in {"MoonitBuy", "MoonitSell"} -> {b.slots.held, b.slots.wrapped}
    [] OTHER -> {}

(* A caller that fills them with the accounts of the swap.                 *)
OwnSlots(b) ==
  b.dex \in SlotDexes =>
    b.slots = IF b.dex = "MoonitBuy"
              THEN [trader |-> b.authority, recipient |-> b.authority,
                    held |-> b.to, wrapped |-> b.from]
              ELSE [trader |-> b.authority, recipient |-> b.authority,
                    held |-> b.from, wrapped |-> b.to]

PumpfunBuy3(b, x) ==
  LET infos == Listing({<<5, b.to>>, <<6, b.authority>>, <<8, SplToken>>,
                        <<16, Payer>>, <<17, b.from>>})
  IN  IfClassic(b, LamportCall(17, "buy", "refund", b, x, PumpfunBuyRoles(infos)))

(* The same with a token program for each of the two mints.                *)
PumpfunBuy2(b, x) ==
  LET infos == Listing({<<5, b.to>>, <<6, b.authority>>, <<8, SplToken>>,
                        <<9, ProgramOf[b.pool[2]]>>, <<17, Payer>>,
                        <<18, b.from>>})
  IN  {LamportCall(18, "buy", "refund", b, x, PumpfunBuyRoles(infos))}

PumpfunSell3(b, x) ==
  LET infos == Listing({<<5, b.from>>, <<6, b.authority>>, <<9, SplToken>>,
                        <<14, b.to>>, <<15, Payer>>})
  IN  IfClassic(b, LamportCall(15, "sell", "promised", b, x, PumpfunSellRoles(infos)))

PumpfunSell2(b, x) ==
  LET infos == Listing({<<5, b.from>>, <<6, b.authority>>, <<9, SplToken>>,
                        <<10, ProgramOf[b.pool[2]]>>, <<15, b.to>>,
                        <<16, Payer>>})
  IN  {LamportCall(16, "sell", "promised", b, x, PumpfunSellRoles(infos))}

BoopfunBuy(b, x) ==
  LET infos == Listing({<<5, b.to>>, <<6, b.authority>>, <<11, SplToken>>,
                        <<14, Payer>>, <<15, b.from>>})
  IN  IfClassic(b, LamportCall(15, "buy", "refund", b, x, BoopfunBuyRoles(infos)))

BoopfunSell(b, x) ==
  LET infos == Listing({<<5, b.slots.held>>, <<6, b.slots.trader>>,
                        <<7, b.slots.recipient>>, <<10, SplToken>>, <<13, b.to>>})
  IN  IfClassic(b, [LamportCall(16, "sell", "promisedOnly", b, x,
                                BoopfunSellRoles(infos)) EXCEPT !.debit = infos[5]])

MoonitBuy(b, x) ==
  LET infos == Listing({<<0, b.slots.trader>>, <<1, b.slots.held>>, <<8, SplToken>>,
                        <<11, b.slots.wrapped>>, <<12, Payer>>})
  IN  {[LamportCall(16, "buy", "rent", b, x, MoonitBuyRoles(infos))
          EXCEPT !.credit = infos[1]]}

MoonitSell(b, x) ==
  LET infos == Listing({<<0, b.slots.trader>>, <<1, b.slots.held>>, <<8, SplToken>>,
                        <<11, b.slots.wrapped>>})
  IN  {[LamportCall(16, "sell", "received", b, x, MoonitSellRoles(infos))
          EXCEPT !.debit = infos[1]]}

SugarBuy(b, x) ==
  LET infos == Listing({<<5, b.to>>, <<6, b.authority>>, <<7, b.authority>>,
                        <<9, SplToken>>, <<10, ProgramOf[b.pool[2]]>>,
                        <<16, Payer>>, <<17, b.from>>})
  IN  {LamportCall(16, "buy", "refund", b, x, SugarBuyRoles(infos))}

SugarSell(b, x) ==
  LET infos == Listing({<<5, b.from>>, <<6, b.authority>>, <<7, b.authority>>,
                        <<9, SplToken>>, <<10, ProgramOf[b.pool[2]]>>,
                        <<16, b.to>>})
  IN  {LamportCall(16, "sell", "received", b, x, SugarSellRoles(infos))}

(* The AMM trades wSOL as a token, its pool is <<base, quote>>: base is    *)
(* sold and bought.  A sale may cost the authority lamports for an account *)
(* that the AMM opens.                                                     *)
PumpfunammSell3(b, x) ==
  LET infos == Listing({<<1, b.authority>>, <<5, b.from>>, <<6, b.to>>,
                        <<21, Payer>>})
  IN  {[c EXCEPT !.hook = "repaid", !.roles = AmmSellRoles(infos)] :
         c \in OneWay(21, b, 1, x)}
PumpfunammBuy3(b, x) == OneWay(23, b, 2, x)

(***************************************************************************)
(* distribute_swap.                                                        *)
(***************************************************************************)

(* Adapters that are closed: they fail with AdapterAbort.                  *)
AbortedDexes ==
  {"AlphaQ", "Goonfi", "Humidifi", "LifinityV1", "PumpfunBuy", "PumpfunSell",
   "PumpfunammBuy", "PumpfunammSell", "PumpfunammBuy2", "QualiaSwap", "Solfi",
   "SolfiV2", "Tessera", "Zerofi"}
Aborted(b, x) == {}

CallsOf(dex, b, x, quote) ==
  CASE dex = "AldrinExchangeV1" -> AldrinV1(b, x)
    [] dex = "AldrinExchangeV2" -> AldrinV2(b, x)
    [] dex = "Whirlpool" -> Whirlpool(b, x)
    [] dex = "WhirlpoolV2" -> WhirlpoolV2(b, x)
    [] dex = "Phoenix" -> Phoenix(b, x)
    [] dex = "OpenBookV2" -> OpenBookV2(b, x)
    [] dex = "ObricV2" -> ObricV2(b, x)
    [] dex = "FutarchyAmm" -> Futarchy(b, x)
    [] dex = "Gavel" -> Gavel(b, x)
    [] dex = "Whalestreet" -> Whalestreet(b, x)
    [] dex = "Manifest" -> Manifest(b, x)
    [] dex = "Virtuals" -> Virtuals(b, x)
    [] dex \in {"RaydiumLaunchpad", "LetsBonkFun"} -> RaydiumLaunchpad(b, x)
    [] dex = "SarosDlmm" -> SarosDlmm(b, x)
    [] dex = "FluxBeam" -> FluxBeam(b, x)
    [] dex = "SplTokenSwap" -> SplTokenSwap(b, x)
    [] dex = "StableSwap" -> StableSwap(b, x)
    [] dex = "RaydiumSwap" -> RaydiumSwap(b, x)
    [] dex = "RaydiumClmmSwap" -> RaydiumClmm(b, x)
    [] dex = "RaydiumCpmmSwap" -> RaydiumCpmm(b, x)
    [] dex = "MeteoraDlmm" -> MeteoraDlmm(b, x)
    [] dex = "MeteoraDbc" -> MeteoraDbc(b, x)
    [] dex = "RaydiumSwapV2" -> RaydiumSwapV2(b, x)
    [] dex = "RaydiumStableSwap" -> RaydiumStable(b, x)
    [] dex = "RaydiumClmmSwapV2" -> RaydiumClmmV2(b, x)
    [] dex = "MeteoraDynamicpool" -> MeteoraDynamicpool(b, x)
    [] dex = "MeteoraLst" -> MeteoraLst(b, x)
    [] dex = "MeteoraDlmmSwap2" -> MeteoraDlmmSwap2(b, x)
    [] dex = "MeteoraDAMMV2" -> MeteoraDAMMV2(b, x)
    [] dex = "MeteoraDAMMV2Swap2" -> MeteoraDAMMV2Swap2(b, x)
    [] dex = "MeteoraDbc2" -> MeteoraDbc2(b, x)
    [] dex = "PancakeSwapV3Swap" -> PancakeSwapV3(b, x)
    [] dex = "PancakeSwapV3SwapV2" -> PancakeSwapV3V2(b, x)
    [] dex = "ByrealClmm" -> ByrealClmm(b, x)
    [] dex = "StabbleSwap" -> Stabble(b, x)
    [] dex = "Saros" -> Saros(b, x)
    [] dex = "LifinityV2" -> LifinityV2(b, x)
    [] dex = "Dooar" -> Dooar(b, x)
    [] dex = "GooseFX" -> GooseFX(b, x)
    [] dex = "OneDexSwap" -> OneDex(b, x)
    [] dex = "Woofi" -> Woofi(b, x)
    [] dex = "Numeraire" -> Numeraire(b, x)
    [] dex = "PerpetualsSwap" -> PerpetualsSwap(b, x)
    [] dex = "VertigoBuy" -> VertigoBuy(b, x)
    [] dex = "HeavenSell" -> HeavenSell(b, x)
    [] dex = "MeteoraVaultDeposit" -> MeteoraVaultDeposit(b, x)
    [] dex = "SaberDecimalWrapperDeposit" -> SaberDeposit(b, x)
    [] dex = "PerpetualsAddLiq" -> PerpetualsAddLiq(b, x)
    [] dex = "SanctumAddLiq" -> SanctumAddLiq(b, x)
    [] dex = "VertigoSell" -> VertigoSell(b, x)
    [] dex = "HeavenBuy" -> HeavenBuy(b, x)
    [] dex = "MeteoraVaultWithdraw" -> MeteoraVaultWithdraw(b, x)
    [] dex = "SaberDecimalWrapperWithdraw" -> SaberWithdraw(b, x)
    [] dex = "PerpetualsRemoveLiq" -> PerpetualsRemoveLiq(b, x)
    [] dex = "SanctumRemoveLiq" -> SanctumRemoveLiq(b, x)
    [] dex = "SanctumWsolSwap" -> SanctumWsolSwap(b, x)
    [] dex = "SanctumNonWsolSwap" -> SanctumNonWsolSwap(b, x)
    [] dex = "SanctumRouter" -> SanctumRouter(b, x)
    [] dex = "SolRfq" -> SolRfq(b, x, quote)
    [] dex = "PumpfunBuy3" -> PumpfunBuy3(b, x)
    [] dex = "PumpfunBuy2" -> PumpfunBuy2(b, x)
    [] dex = "PumpfunSell3" -> PumpfunSell3(b, x)
    [] dex = "PumpfunSell2" -> PumpfunSell2(b, x)
    [] dex = "BoopfunBuy" -> BoopfunBuy(b, x)
    [] dex = "BoopfunSell" -> BoopfunSell(b, x)
    [] dex = "MoonitBuy" -> MoonitBuy(b, x)
    [] dex = "MoonitSell" -> MoonitSell(b, x)
    [] dex = "SugarMoneyBuy" -> SugarBuy(b, x)
    [] dex = "SugarMoneySell" -> SugarSell(b, x)
    [] dex = "PumpfunammSell3" -> PumpfunammSell3(b, x)
    [] dex = "PumpfunammBuy3" -> PumpfunammBuy3(b, x)
    [] dex \in AbortedDexes -> Aborted(b, x)

FlaggedDexes ==
  {"AldrinExchangeV1", "AldrinExchangeV2", "Whirlpool", "WhirlpoolV2", "Phoenix",
   "OpenBookV2", "ObricV2", "FutarchyAmm", "Gavel", "Whalestreet", "Manifest",
   "Virtuals", "RaydiumLaunchpad", "LetsBonkFun", "SarosDlmm"}
SidedDexes == {"FluxBeam", "SplTokenSwap", "StableSwap"}
PositionalDexes ==
  {"RaydiumSwap", "RaydiumClmmSwap", "RaydiumCpmmSwap", "MeteoraDlmm",
   "MeteoraDbc", "RaydiumSwapV2", "RaydiumStableSwap", "RaydiumClmmSwapV2",
   "MeteoraDynamicpool", "MeteoraLst", "MeteoraDlmmSwap2", "MeteoraDAMMV2",
   "MeteoraDAMMV2Swap2", "MeteoraDbc2", "PancakeSwapV3Swap",
   "PancakeSwapV3SwapV2", "ByrealClmm", "StabbleSwap", "Saros", "LifinityV2",
   "Dooar", "GooseFX", "OneDexSwap", "Woofi", "Numeraire", "PerpetualsSwap"}
FirstSideDexes ==
  {"VertigoBuy", "HeavenSell", "MeteoraVaultDeposit",
   "SaberDecimalWrapperDeposit", "PerpetualsAddLiq", "SanctumAddLiq",
   "SanctumRouter", "PumpfunammSell3"}
SecondSideDexes ==
  {"VertigoSell", "HeavenBuy", "MeteoraVaultWithdraw",
   "SaberDecimalWrapperWithdraw", "PerpetualsRemoveLiq", "SanctumRemoveLiq",
   "PumpfunammBuy3"}
LamportBuys ==
  {"PumpfunBuy3", "PumpfunBuy2", "BoopfunBuy", "MoonitBuy", "SugarMoneyBuy"}
LamportSells ==
  {"PumpfunSell3", "PumpfunSell2", "BoopfunSell", "MoonitSell", "SugarMoneySell"}
(* These refuse some trades that their pool would make.                    *)
PickyDexes == {"SolRfq", "SanctumWsolSwap", "SanctumNonWsolSwap", "SanctumRouter"}
TokenDexes ==
  FlaggedDexes \cup SidedDexes \cup PositionalDexes \cup FirstSideDexes
  \cup SecondSideDexes \cup PickyDexes
Dexes == TokenDexes \cup LamportBuys \cup LamportSells \cup AbortedDexes

(***************************************************************************)
(* What a call must be.                                                    *)
(***************************************************************************)

(* The DEX accepts the call as a trade of its pool; it looks at no account *)
(* for what is paid in lamports.                                           *)
Accepts(pool, c) ==
  /\ c.kind # "buy" => MintOf[c.debit] = pool[c.into]
  /\ MintOf[c.credit] = pool[3 - c.into]

(* Who signs the call, and who is paid the lamports of a sale.             *)
Payee(c) ==
  IF "recipient" \in DOMAIN c.roles THEN c.roles.recipient ELSE c.roles.authority
Signers(c) == {c.roles.authority, Payee(c)}

(* The sides from which a DEX can be told to take.                         *)
Directions(dex) ==
  {i \in 1..2 :
     /\ dex \in LamportBuys \cup FirstSideDexes => i = 1
     /\ dex \in LamportSells \cup SecondSideDexes => i = 2}

(* The pool trades the mints of the two accounts, in this direction.       *)
Tradable(b) ==
  \E i \in Directions(b.dex) :
    MintOf[b.from] = b.pool[i] /\ MintOf[b.to] = b.pool[3 - i]

(* A hook finds the account it means at the position it reads.             *)
RolesRight(b, r) ==
  /\ r.authority = b.authority
  /\ "recipient" \in DOMAIN r => r.recipient = b.authority
  /\ "source" \in DOMAIN r => r.source = b.from
  /\ "dest" \in DOMAIN r => r.dest = b.to
  /\ "payer" \in DOMAIN r => r.payer = Payer
  /\ "program" \in DOMAIN r => r.program = SplToken

(* The DEX takes the call as a trade from the source to the destination,   *)
(* of at most what was offered, or not at all.                             *)
CallRight(b, x, c) ==
  /\ c.most <= x
  /\ RolesRight(b, c.roles)
  /\ Tradable(b) => Accepts(b.pool, c)
  /\ c.kind # "buy" /\ Accepts(b.pool, c) => Tradable(b)
  /\ Accepts(b.pool, c) => c.debit = b.from /\ c.credit = b.to

=============================================================================
